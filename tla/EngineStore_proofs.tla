-------------------------- MODULE EngineStore_proofs --------------------------
(***************************************************************************)
(* Proofs about the engine table of plugin/store.go for any number of      *)
(* requests, prewarms, scopes, handles and configurations.                 *)
(***************************************************************************)
EXTENDS EngineStore, Recency_proofs, FiniteSetTheorems, SequenceTheorems, TLAPS

(* TypeOK with an integer in place of the natural number closeWg; that it  *)
(* is never negative follows from WaitGroup.                               *)
TypeIntact ==
    /\ cfg \in Configs
    /\ replaced \subseteq AllSettings
    /\ closed \in BOOLEAN
    /\ openMu \in Threads \cup {None}
    /\ engines \in [Keys -> Handles \cup {None}]
    /\ order \in Seq(Keys)
    /\ closings \in [Keys -> Handles \cup {None}]
    /\ closers \subseteq SUBSET Handles
    /\ closeWg \in Int
    /\ hst \in [Handles -> HandleStates]
    /\ hkey \in [Handles -> Keys \cup {PrewarmKey, None}]
    /\ hcfg \in [Handles -> Configs]
    /\ pc \in [Threads -> RequestPCs \cup PrewarmPCs]
    /\ key \in [Threads -> Keys \cup {PrewarmKey, None}]
    /\ snap \in [Threads -> Configs]
    /\ chan \in [Threads -> Handles \cup {None}]
    /\ new \in [Threads -> Handles \cup {None}]
    /\ dpc \in {"idle", "drain", "close", "wait", "done"}
    /\ dbatch \subseteq Handles

Active == {t \in Prewarmers : pc[t] \notin {"start", "done"}}

(* Who is where, and who holds what. *)
Control ==
    /\ \A t \in Requests : pc[t] \in RequestPCs /\ (pc[t] # "idle" => key[t] \in Keys)
    /\ \A t \in Prewarmers : pc[t] \in PrewarmPCs /\ (pc[t] \in {"open", "close"} => key[t] = PrewarmKey)
    /\ \A t \in Threads : pc[t] \in Holding <=> openMu = t
    /\ \A t \in Threads :
          IF pc[t] \in {"insert", "close"}
          THEN /\ new[t] \in Handles
               /\ hst[new[t]] = "opened"
               /\ hkey[new[t]] = key[t]
               /\ hcfg[new[t]] = snap[t]
          ELSE new[t] = None
    /\ \A h \in Handles : hst[h] = "opened" => openMu # None /\ new[openMu] = h
    /\ \A t \in Threads : chan[t] # None => pc[t] = "recv"

(* The table and the live handles are each other's mirror, and no open is  *)
(* under way for a scope in the table.                                     *)
Table ==
    /\ \A k \in Keys : engines[k] # None => /\ hst[engines[k]] = "live"
                                            /\ hkey[engines[k]] = k
                                            /\ Settings(hcfg[engines[k]]) = Settings(cfg)
    /\ \A h \in Handles : hst[h] = "live" => hkey[h] \in Keys /\ engines[hkey[h]] = h
    /\ \A t \in Requests : pc[t] \in {"open", "insert"} => engines[key[t]] = None

(* Every retired handle belongs to exactly one closeEngines run. *)
Batches ==
    /\ \A b \in closers : b # {}
    /\ \A b \in closers : \A h \in b : hst[h] \in {"doomed", "closed"} /\ hkey[h] \in Keys
    /\ \A h \in dbatch : hst[h] \in {"doomed", "closed"} /\ hkey[h] \in Keys
    /\ \A h \in Handles : hst[h] \in {"doomed", "closed"} => h \in dbatch \/ \E b \in closers : h \in b
    /\ \A b, c \in closers : b = c \/ b \cap c = {}
    /\ \A b \in closers : b \cap dbatch = {}

Disposal ==
    /\ closed <=> dpc # "idle"
    /\ dpc # "close" => dbatch = {}
    /\ dpc \in {"close", "wait", "done"} => \A k \in Keys : engines[k] = None
    /\ dpc = "done" => closers = {} /\ Active = {}

WaitGroup ==
    /\ IsFiniteSet(closers)
    /\ closeWg = Cardinality(closers) + Cardinality(Active)

IInv == TypeIntact /\ Control /\ Table /\ Batches /\ Disposal /\ WaitGroup

(* With settings never restored, a marker stands exactly for each retired  *)
(* handle, never beside a live one, and never before an insert.            *)
Markers ==
    /\ Settings(cfg) \notin replaced
    /\ \A t \in Requests : pc[t] \notin {"idle", "lookup"} => Settings(snap[t]) \in replaced \cup {Settings(cfg)}
    /\ \A h \in Handles : hst[h] \in {"doomed", "closed"} => closings[hkey[h]] = h
    /\ \A k \in Keys : closings[k] # None => hst[closings[k]] \in {"doomed", "closed"} /\ hkey[closings[k]] = k
    /\ \A k \in Keys : engines[k] = None \/ closings[k] = None
    /\ \A t \in Requests : pc[t] \in {"recheck", "open", "insert"} /\ Publishable(t) => closings[key[t]] = None
    /\ \A t \in Requests : chan[t] # None => closings[key[t]] = chan[t]

FreshIInv == IInv /\ Markers

-----------------------------------------------------------------------------
(* Removing a key from the LRU order leaves a sequence of keys.            *)
LEMMA WithoutType ==
    ASSUME order \in Seq(Keys), NEW k
    PROVE  Without(order, k) \in Seq(Keys)
<1>1. CASE k \in InOrder(order)
  <2> DEFINE at == CHOOSE i \in 1..Len(order) : order[i] = k
  <2>1. at \in 1..Len(order)
    BY <1>1 DEF InOrder
  <2> HIDE DEF at
  <2>2. SubSeq(order, 1, at - 1) \in Seq(Keys) /\ SubSeq(order, at + 1, Len(order)) \in Seq(Keys)
    BY <2>1
  <2> QED BY <1>1, <2>2 DEF Without, at
<1>2. CASE k \notin InOrder(order)
  BY <1>2 DEF Without
<1> QED BY <1>1, <1>2

(* The table and the states of the handles after Insert has published its  *)
(* handle, before it evicts.                                               *)
Published(t) == [engines EXCEPT ![key[t]] = new[t]]
PublishedStates(t) == [hst EXCEPT ![new[t]] = "live"]

Mirror(table, states) ==
    /\ \A k \in Keys : table[k] # None => states[table[k]] = "live" /\ hkey[table[k]] = k
    /\ \A h \in Handles : states[h] = "live" => hkey[h] \in Keys /\ table[hkey[h]] = h

(* Insert publishes an open handle of its own and retires some keys. *)
LEMMA InsertRetires ==
    ASSUME TypeIntact, Control, Table, NEW t \in Requests, Insert(t)
    PROVE  /\ key[t] \in Keys /\ new[t] \in Handles /\ hst[new[t]] = "opened"
           /\ hkey[new[t]] = key[t] /\ hcfg[new[t]] = snap[t] /\ engines[key[t]] = None
           /\ Published(t) \in [Keys -> Handles \cup {None}]
           /\ PublishedStates(t) \in [Handles -> HandleStates]
           /\ Mirror(Published(t), PublishedStates(t))
           /\ order' \in Seq(Keys)
           /\ \E K \in SUBSET Keys : /\ Retire(Published(t), PublishedStates(t), K)
                                     /\ Detach(Retired(Published(t), K))
<1> DEFINE order1  == Append(order, key[t])
           excess  == IF Len(order1) > MaxEngines THEN Len(order1) - MaxEngines ELSE 0
           evicted == {order1[i] : i \in 1..excess}
<1>1. /\ key[t] \in Keys /\ new[t] \in Handles /\ hst[new[t]] = "opened"
      /\ hkey[new[t]] = key[t] /\ hcfg[new[t]] = snap[t] /\ engines[key[t]] = None
  BY ThreadsAssumption DEF Insert, Return, Goto, Control, Table, Threads
<1>2. /\ Published(t) \in [Keys -> Handles \cup {None}]
      /\ PublishedStates(t) \in [Handles -> HandleStates]
      /\ Mirror(Published(t), PublishedStates(t))
  BY <1>1, HandlesAssumption DEF TypeIntact, Table, Mirror, Published, PublishedStates, HandleStates
<1>3. order1 \in Seq(Keys) /\ excess \in 0..Len(order1)
  BY <1>1, MaxEnginesAssumption DEF TypeIntact
<1>4. evicted \in SUBSET Keys /\ SubSeq(order1, excess + 1, Len(order1)) \in Seq(Keys)
  BY <1>3
<1> HIDE DEF order1, excess, evicted
<1>5. /\ order' = SubSeq(order1, excess + 1, Len(order1))
      /\ Retire(Published(t), PublishedStates(t), evicted)
      /\ Detach(Retired(Published(t), evicted))
  BY DEF Insert, Published, PublishedStates, order1, excess, evicted
<1> QED BY <1>1, <1>2, <1>4, <1>5

(* What retiring the keys K of a table does to the types. *)
LEMMA RetireType ==
    ASSUME NEW table \in [Keys -> Handles \cup {None}],
           NEW states \in [Handles -> HandleStates],
           NEW K \in SUBSET Keys,
           closings \in [Keys -> Handles \cup {None}]
    PROVE  /\ Retired(table, K) \subseteq Handles
           /\ Retire(table, states, K) =>
                 /\ engines' \in [Keys -> Handles \cup {None}]
                 /\ closings' \in [Keys -> Handles \cup {None}]
                 /\ hst' \in [Handles -> HandleStates]
<1>1. Retired(table, K) \subseteq Handles
  BY DEF Retired
<1>2. ASSUME Retire(table, states, K)
      PROVE  /\ engines' \in [Keys -> Handles \cup {None}]
             /\ closings' \in [Keys -> Handles \cup {None}]
             /\ hst' \in [Handles -> HandleStates]
  BY <1>2 DEF Retire, HandleStates
<1> QED BY <1>1, <1>2

LEMMA DetachType ==
    ASSUME closers \subseteq SUBSET Handles, closeWg \in Int,
           NEW doomed \in SUBSET Handles, Detach(doomed)
    PROVE  closers' \subseteq SUBSET Handles /\ closeWg' \in Int
BY DEF Detach

(* TypeOK, but for the sign of closeWg, is preserved by every step. *)
LEMMA TypeStep ==
    ASSUME TypeIntact, Control, Table, [Next]_vars
    PROVE  TypeIntact'
<1> USE ConfigsAssumption, KeysAssumption DEF TypeIntact, Goto, Return, AllSettings, HandleStates, RequestPCs, PrewarmPCs, Threads, vars, confVars, tableVars, closeVars, handleVars, threadVars, dispVars
<1>1. ASSUME NEW t \in Requests, Call(t) PROVE TypeIntact'
  BY <1>1 DEF Control, Call
<1>2. ASSUME NEW t \in Requests, LockOpenMu(t) PROVE TypeIntact'
  BY <1>2 DEF Control, LockOpenMu
<1>3. ASSUME NEW t \in Requests, LookupHit(t) PROVE TypeIntact'
  BY <1>3, WithoutType DEF Control, LookupHit
<1>4. ASSUME NEW t \in Requests, LookupMiss(t) PROVE TypeIntact'
  BY <1>4 DEF Control, LookupMiss
<1>5. ASSUME NEW t \in Requests, NoPendingClose(t) PROVE TypeIntact'
  BY <1>5 DEF Control, NoPendingClose
<1>6. ASSUME NEW t \in Requests, ReadPendingClose(t) PROVE TypeIntact'
  BY <1>6 DEF Control, ReadPendingClose
<1>7. ASSUME NEW t \in Requests, ReceivePendingClose(t) PROVE TypeIntact'
  BY <1>7 DEF Control, ReceivePendingClose
<1>8. ASSUME NEW t \in Requests, RecheckHit(t) PROVE TypeIntact'
  BY <1>8 DEF Control, RecheckHit
<1>9. ASSUME NEW t \in Requests, RecheckMiss(t) PROVE TypeIntact'
  BY <1>9 DEF Control, RecheckMiss
<1>10. ASSUME NEW t \in Requests, OpenEngine(t) PROVE TypeIntact'
  BY <1>10 DEF Control, OpenEngine, Opened
<1>11. ASSUME NEW t \in Requests, OpenFails(t) PROVE TypeIntact'
  BY <1>11 DEF Control, OpenFails
<1>12. ASSUME NEW t \in Requests, Discard(t) PROVE TypeIntact'
  BY <1>12 DEF Control, Discard, Publishable
<1>13. ASSUME NEW t \in Requests, Insert(t) PROVE TypeIntact'
  <2>1. PICK K \in SUBSET Keys : /\ Retire(Published(t), PublishedStates(t), K)
                                 /\ Detach(Retired(Published(t), K))
    BY <1>13, InsertRetires
  <2>2. /\ engines' \in [Keys -> Handles \cup {None}] /\ closings' \in [Keys -> Handles \cup {None}]
        /\ hst' \in [Handles -> HandleStates] /\ order' \in Seq(Keys)
        /\ closers' \subseteq SUBSET Handles /\ closeWg' \in Int
    <3>1. TypeIntact /\ Control /\ Table
      OBVIOUS
    <3>2. /\ closings \in [Keys -> Handles \cup {None}]
          /\ closers \subseteq SUBSET Handles /\ closeWg \in Int
      OBVIOUS
    <3> HIDE DEF TypeIntact, HandleStates
    <3>3. /\ Published(t) \in [Keys -> Handles \cup {None}]
          /\ PublishedStates(t) \in [Handles -> HandleStates]
          /\ order' \in Seq(Keys)
      BY <1>13, <3>1, InsertRetires
    <3> QED BY <2>1, <3>2, <3>3, RetireType, DetachType
  <2> QED BY <1>13, <2>2 DEF Insert
<1>14. ASSUME NEW t \in Prewarmers, PrewarmAdd(t) PROVE TypeIntact'
  BY <1>14 DEF Control, PrewarmAdd
<1>15. ASSUME NEW t \in Prewarmers, PrewarmLock(t) PROVE TypeIntact'
  BY <1>15 DEF Control, PrewarmLock
<1>16. ASSUME NEW t \in Prewarmers, PrewarmReread(t) PROVE TypeIntact'
  BY <1>16 DEF Control, PrewarmReread
<1>17. ASSUME NEW t \in Prewarmers, PrewarmOpen(t) PROVE TypeIntact'
  BY <1>17 DEF Control, PrewarmOpen, Opened
<1>18. ASSUME NEW t \in Prewarmers, PrewarmExit(t) PROVE TypeIntact'
  <2>1. new[t] = None \/ new[t] \in Handles
    OBVIOUS
  <2>2. /\ pc' \in [Threads -> RequestPCs \cup PrewarmPCs]
        /\ key' = [key EXCEPT ![t] = None] /\ snap' = [snap EXCEPT ![t] = InitConfig]
        /\ chan' = [chan EXCEPT ![t] = None] /\ new' = [new EXCEPT ![t] = None]
    BY <1>18 DEF PrewarmExit
  <2>3. UNCHANGED handleVars \/ Freed({new[t]})
    BY <1>18 DEF PrewarmExit
  <2>4. /\ hst' \in [Handles -> HandleStates] /\ hcfg' \in [Handles -> Configs]
        /\ hkey' \in [Handles -> Keys \cup {PrewarmKey, None}]
    BY <2>3 DEF Freed
  <2> QED BY <1>18, <2>2, <2>4 DEF PrewarmExit
<1>19. ASSUME NEW b \in closers, CloseNext(b) PROVE TypeIntact'
  BY <1>19 DEF Control, CloseNext
<1>20. ASSUME NEW b \in closers, CloserFinish(b) PROVE TypeIntact'
  BY <1>20 DEF Control, CloserFinish, SignalClosed, Freed, Wake
<1>21. ASSUME NEW h \in Handles, CloseDiscarded(h) PROVE TypeIntact'
  BY <1>21 DEF Control, CloseDiscarded, Freed
<1>22. ASSUME DisposeBegin PROVE TypeIntact'
  BY <1>22 DEF Control, DisposeBegin
<1>23. ASSUME DisposeDrain PROVE TypeIntact'
  BY <1>23, RetireType DEF Control, DisposeDrain
<1>24. ASSUME dpc = "close", CloseNext(dbatch) PROVE TypeIntact'
  BY <1>24 DEF Control, CloseNext
<1>25. ASSUME DisposeSignal PROVE TypeIntact'
  BY <1>25 DEF Control, DisposeSignal, SignalClosed, Freed, Wake
<1>26. ASSUME DisposeReturn PROVE TypeIntact'
  BY <1>26 DEF Control, DisposeReturn
<1>27. ASSUME NEW c \in Configs, Reconfigure(c) PROVE TypeIntact'
  <2>1. CASE materialConfigChange(cfg, c)
    <3>1. Retire(engines, hst, Keys) /\ Detach(Retired(engines, Keys))
      BY <1>27, <2>1 DEF Reconfigure
    <3>2. /\ engines' \in [Keys -> Handles \cup {None}] /\ closings' \in [Keys -> Handles \cup {None}]
          /\ hst' \in [Handles -> HandleStates]
          /\ closers' \subseteq SUBSET Handles /\ closeWg' \in Int
      BY <3>1, RetireType, DetachType
    <3>3. replaced' \subseteq {Settings(d) : d \in Configs} /\ order' = << >>
      BY <1>27, <2>1 DEF Reconfigure
    <3> QED BY <1>27, <3>2, <3>3 DEF Reconfigure
  <2>2. CASE ~materialConfigChange(cfg, c)
    BY <1>27, <2>2 DEF Reconfigure
  <2> QED BY <2>1, <2>2
<1>28. ASSUME UNCHANGED vars PROVE TypeIntact'
  BY <1>28 DEF Control, vars
<1> QED BY <1>1, <1>2, <1>3, <1>4, <1>5, <1>6, <1>7, <1>8, <1>9, <1>10, <1>11, <1>12, <1>13, <1>14, <1>15, <1>16, <1>17, <1>18, <1>19, <1>20, <1>21, <1>22, <1>23, <1>24, <1>25, <1>26, <1>27, <1>28 DEF Next, Work, ForScopeRuns, PrewarmRuns, CloserRuns, DiscardRuns, DisposeRuns

(* What Control asks of handles concerns only those a thread has opened. *)
LEMMA ControlHandles ==
    ASSUME Control, HandlesAssumption, UNCHANGED <<openMu, pc, key, snap, new>>,
           \A h \in Handles : hst'[h] = "opened" <=> hst[h] = "opened",
           \A h \in Handles : hst[h] = "opened" => hkey'[h] = hkey[h] /\ hcfg'[h] = hcfg[h],
           \A t \in Threads : chan'[t] \in {chan[t], None}
    PROVE  Control'
BY DEF Control, Threads, Holding

(* The handles in the table are live, so retiring them opens nothing. *)
LEMMA RetireOpened ==
    ASSUME Table, NEW K \in SUBSET Keys, hst \in [Handles -> HandleStates],
           engines \in [Keys -> Handles \cup {None}], Retire(engines, hst, K)
    PROVE  \A h \in Handles : hst'[h] = "opened" <=> hst[h] = "opened"
BY DEF Table, Retire, Retired

(* Every thread stays where its locals and openMu say it is. *)
LEMMA ControlStep ==
    ASSUME TypeIntact, Control, Table, Batches, [Next]_vars
    PROVE  Control'
<1> USE ThreadsAssumption, KeysAssumption, HandlesAssumption DEF Control, TypeIntact, Holding, Goto, Return, Opened, Freed, HandleStates, RequestPCs, PrewarmPCs, Threads, vars, confVars, tableVars, closeVars, handleVars, threadVars, dispVars
<1>1. ASSUME NEW t \in Requests, Call(t) PROVE Control'
  BY <1>1 DEF Call
<1>2. ASSUME NEW t \in Requests, LockOpenMu(t) PROVE Control'
  BY <1>2 DEF LockOpenMu
<1>3. ASSUME NEW t \in Requests, LookupHit(t) PROVE Control'
  BY <1>3 DEF LookupHit
<1>4. ASSUME NEW t \in Requests, LookupMiss(t) PROVE Control'
  BY <1>4 DEF LookupMiss
<1>5. ASSUME NEW t \in Requests, NoPendingClose(t) PROVE Control'
  BY <1>5 DEF NoPendingClose
<1>6. ASSUME NEW t \in Requests, ReadPendingClose(t) PROVE Control'
  BY <1>6 DEF ReadPendingClose
<1>7. ASSUME NEW t \in Requests, ReceivePendingClose(t) PROVE Control'
  BY <1>7 DEF ReceivePendingClose
<1>8. ASSUME NEW t \in Requests, RecheckHit(t) PROVE Control'
  BY <1>8 DEF RecheckHit
<1>9. ASSUME NEW t \in Requests, RecheckMiss(t) PROVE Control'
  BY <1>9 DEF RecheckMiss
<1>10. ASSUME NEW t \in Requests, OpenEngine(t) PROVE Control'
  BY <1>10 DEF OpenEngine
<1>11. ASSUME NEW t \in Requests, OpenFails(t) PROVE Control'
  BY <1>11 DEF OpenFails
<1>12. ASSUME NEW t \in Requests, Discard(t) PROVE Control'
  BY <1>12 DEF Discard
<1>13. ASSUME NEW t \in Requests, Insert(t) PROVE Control'
  <2>1. openMu = t /\ t \in Threads /\ new[t] \in Handles /\ pc[t] = "insert"
    BY <1>13 DEF Insert
  <2>2. \A h \in Handles : h # new[t] => hst[h] # "opened"
    BY <2>1
  <2>3. \A h \in Handles : hst'[h] # "opened"
    BY <1>13, <2>1, <2>2 DEF Insert, Retire
  <2>4. \A u \in Threads : u # t => pc[u] \notin Holding /\ pc'[u] = pc[u] /\ new'[u] = new[u]
    BY <1>13, <2>1 DEF Insert
  <2>5. pc'[t] = "idle" /\ new'[t] = None /\ openMu' = None
    BY <1>13, <2>1 DEF Insert
  <2>6. /\ pc' = [pc EXCEPT ![t] = "idle"] /\ key' = [key EXCEPT ![t] = None]
        /\ chan' = [chan EXCEPT ![t] = None]
    BY <1>13 DEF Insert
  <2> QED BY <2>1, <2>3, <2>4, <2>5, <2>6
<1>14. ASSUME NEW t \in Prewarmers, PrewarmAdd(t) PROVE Control'
  BY <1>14 DEF PrewarmAdd
<1>15. ASSUME NEW t \in Prewarmers, PrewarmLock(t) PROVE Control'
  BY <1>15 DEF PrewarmLock
<1>16. ASSUME NEW t \in Prewarmers, PrewarmReread(t) PROVE Control'
  BY <1>16 DEF PrewarmReread
<1>17. ASSUME NEW t \in Prewarmers, PrewarmOpen(t) PROVE Control'
  BY <1>17 DEF PrewarmOpen
<1>18. ASSUME NEW t \in Prewarmers, PrewarmExit(t) PROVE Control'
  <2>1. openMu = t /\ t \in Threads /\ pc[t] \in {"reread", "open", "close"}
    BY <1>18 DEF PrewarmExit
  <2>2. \A h \in Handles : hst'[h] # "opened"
    <3>1. CASE pc[t] = "close"
      BY <1>18, <2>1, <3>1 DEF PrewarmExit
    <3>2. CASE pc[t] # "close"
      BY <1>18, <2>1, <3>2 DEF PrewarmExit
    <3> QED BY <3>1, <3>2
  <2>3. /\ pc' = [pc EXCEPT ![t] = "done"] /\ key' = [key EXCEPT ![t] = None]
        /\ new' = [new EXCEPT ![t] = None] /\ chan' = [chan EXCEPT ![t] = None]
        /\ openMu' = None
    BY <1>18 DEF PrewarmExit
  <2>4. \A u \in Threads : u # t => pc[u] \notin Holding
    BY <2>1
  <2> QED BY <2>1, <2>2, <2>3, <2>4
<1>19. ASSUME NEW b \in closers, CloseNext(b) PROVE Control'
  BY <1>19 DEF CloseNext
<1>20. ASSUME NEW b \in closers, CloserFinish(b) PROVE Control'
  <2>1. \A h \in b : hst[h] = "closed"
    BY <1>20 DEF CloserFinish, SignalClosed, Finished
  <2> QED BY <1>20, <2>1, ControlHandles DEF CloserFinish, SignalClosed, Wake
<1>21. ASSUME NEW h \in Handles, CloseDiscarded(h) PROVE Control'
  BY <1>21 DEF CloseDiscarded
<1>22. ASSUME DisposeBegin PROVE Control'
  BY <1>22 DEF DisposeBegin
<1>23. ASSUME DisposeDrain PROVE Control'
  <2>1. \A h \in Handles : hst'[h] = "opened" <=> hst[h] = "opened"
    BY <1>23, RetireOpened DEF DisposeDrain
  <2>2. UNCHANGED <<openMu, pc, key, snap, new, chan, hkey, hcfg>>
    BY <1>23 DEF DisposeDrain
  <2> QED BY <2>1, <2>2, ControlHandles
<1>24. ASSUME dpc = "close", CloseNext(dbatch) PROVE Control'
  BY <1>24 DEF CloseNext
<1>25. ASSUME DisposeSignal PROVE Control'
  <2>1. \A h \in dbatch : hst[h] = "closed"
    BY <1>25 DEF DisposeSignal, SignalClosed, Finished
  <2> QED BY <1>25, <2>1, ControlHandles DEF DisposeSignal, SignalClosed, Wake
<1>26. ASSUME DisposeReturn PROVE Control'
  BY <1>26 DEF DisposeReturn
<1>27. ASSUME NEW c \in Configs, Reconfigure(c) PROVE Control'
  <2>1. \A h \in Handles : hst'[h] = "opened" <=> hst[h] = "opened"
    <3>1. hst' = hst \/ Retire(engines, hst, Keys)
      BY <1>27 DEF Reconfigure
    <3> QED BY <3>1, RetireOpened
  <2>2. UNCHANGED <<openMu, pc, key, snap, new, chan, hkey, hcfg>>
    BY <1>27 DEF Reconfigure
  <2> QED BY <2>1, <2>2, ControlHandles
<1>28. ASSUME UNCHANGED vars PROVE Control'
  BY <1>28 DEF vars
<1> QED BY <1>1, <1>2, <1>3, <1>4, <1>5, <1>6, <1>7, <1>8, <1>9, <1>10, <1>11, <1>12, <1>13, <1>14, <1>15, <1>16, <1>17, <1>18, <1>19, <1>20, <1>21, <1>22, <1>23, <1>24, <1>25, <1>26, <1>27, <1>28 DEF Next, Work, ForScopeRuns, PrewarmRuns, CloserRuns, DiscardRuns, DisposeRuns

(* Handles that are not live do not matter to the table. *)
LEMMA TableHandles ==
    ASSUME Table, TypeIntact, HandlesAssumption, UNCHANGED <<cfg, engines, pc, key>>,
           \A h \in Handles : hst'[h] = "live" <=> hst[h] = "live",
           \A h \in Handles : hst[h] = "live" => hkey'[h] = hkey[h] /\ hcfg'[h] = hcfg[h]
    PROVE  Table'
BY DEF Table, TypeIntact, Settings

(* Retiring keys keeps the table and the live handles mirror images, and   *)
(* leaves in the table only what was there.                                *)
LEMMA RetireMirror ==
    ASSUME NEW table \in [Keys -> Handles \cup {None}], NEW states \in [Handles -> HandleStates],
           NEW K \in SUBSET Keys, HandlesAssumption,
           Mirror(table, states), Retire(table, states, K)
    PROVE  /\ \A k \in Keys : engines'[k] # None => hst'[engines'[k]] = "live" /\ hkey[engines'[k]] = k
           /\ \A h \in Handles : hst'[h] = "live" => hkey[h] \in Keys /\ engines'[hkey[h]] = h
           /\ \A k \in Keys : engines'[k] \in {table[k], None}
           /\ \A k \in K : engines'[k] = None
BY DEF Mirror, Retire, Retired

(* The table and the live handles stay mirror images of each other. *)
LEMMA TableStep ==
    ASSUME TypeIntact, Control, Table, Batches, [Next]_vars
    PROVE  Table'
<1> USE ThreadsAssumption, KeysAssumption, HandlesAssumption DEF Control, Table, TypeIntact, Holding, Goto, Return, Opened, Freed, HandleStates, RequestPCs, PrewarmPCs, Threads, vars, confVars, tableVars, closeVars, handleVars, threadVars, dispVars
<1>1. ASSUME NEW t \in Requests, Call(t) PROVE Table'
  BY <1>1 DEF Call
<1>2. ASSUME NEW t \in Requests, LockOpenMu(t) PROVE Table'
  BY <1>2 DEF LockOpenMu
<1>3. ASSUME NEW t \in Requests, LookupHit(t) PROVE Table'
  BY <1>3 DEF LookupHit
<1>4. ASSUME NEW t \in Requests, LookupMiss(t) PROVE Table'
  BY <1>4 DEF LookupMiss
<1>5. ASSUME NEW t \in Requests, NoPendingClose(t) PROVE Table'
  BY <1>5 DEF NoPendingClose
<1>6. ASSUME NEW t \in Requests, ReadPendingClose(t) PROVE Table'
  BY <1>6 DEF ReadPendingClose
<1>7. ASSUME NEW t \in Requests, ReceivePendingClose(t) PROVE Table'
  BY <1>7 DEF ReceivePendingClose
<1>8. ASSUME NEW t \in Requests, RecheckHit(t) PROVE Table'
  BY <1>8 DEF RecheckHit
<1>9. ASSUME NEW t \in Requests, RecheckMiss(t) PROVE Table'
  BY <1>9 DEF RecheckMiss
<1>10. ASSUME NEW t \in Requests, OpenEngine(t) PROVE Table'
  BY <1>10 DEF OpenEngine
<1>11. ASSUME NEW t \in Requests, OpenFails(t) PROVE Table'
  BY <1>11 DEF OpenFails
<1>12. ASSUME NEW t \in Requests, Discard(t) PROVE Table'
  BY <1>12 DEF Discard
<1>13. ASSUME NEW t \in Requests, Insert(t) PROVE Table'
  <2>1. PICK K \in SUBSET Keys : Retire(Published(t), PublishedStates(t), K)
    BY <1>13, InsertRetires
  <2>2. /\ \A k \in Keys : engines'[k] # None => hst'[engines'[k]] = "live" /\ hkey[engines'[k]] = k
        /\ \A h \in Handles : hst'[h] = "live" => hkey[h] \in Keys /\ engines'[hkey[h]] = h
        /\ \A k \in Keys : engines'[k] \in {Published(t)[k], None}
    <3>1. TypeIntact /\ Control /\ Table
      OBVIOUS
    <3> HIDE DEF TypeIntact, Control, Table, HandleStates
    <3>2. /\ Published(t) \in [Keys -> Handles \cup {None}]
          /\ PublishedStates(t) \in [Handles -> HandleStates]
          /\ Mirror(Published(t), PublishedStates(t))
      BY <1>13, <3>1, InsertRetires
    <3> QED BY <2>1, <3>2, RetireMirror
  <2>3. Settings(snap[t]) = Settings(cfg) /\ UNCHANGED <<cfg, hkey, hcfg>>
    BY <1>13 DEF Insert, Publishable, materialConfigChange
  <2>4. hcfg[new[t]] = snap[t]
    BY <1>13, InsertRetires
  <2>5. \A k \in Keys : engines'[k] # None => Settings(hcfg'[engines'[k]]) = Settings(cfg')
    BY <2>2, <2>3, <2>4 DEF Settings, Published
  <2>6. \A u \in Requests : pc'[u] \notin {"open", "insert"}
    BY <1>13 DEF Insert
  <2> QED BY <2>2, <2>3, <2>5, <2>6
<1>14. ASSUME NEW t \in Prewarmers, PrewarmAdd(t) PROVE Table'
  BY <1>14 DEF PrewarmAdd
<1>15. ASSUME NEW t \in Prewarmers, PrewarmLock(t) PROVE Table'
  BY <1>15 DEF PrewarmLock
<1>16. ASSUME NEW t \in Prewarmers, PrewarmReread(t) PROVE Table'
  BY <1>16 DEF PrewarmReread
<1>17. ASSUME NEW t \in Prewarmers, PrewarmOpen(t) PROVE Table'
  BY <1>17 DEF PrewarmOpen
<1>18. ASSUME NEW t \in Prewarmers, PrewarmExit(t) PROVE Table'
  BY <1>18 DEF PrewarmExit
<1>19. ASSUME NEW b \in closers, CloseNext(b) PROVE Table'
  BY <1>19 DEF CloseNext
<1>20. ASSUME NEW b \in closers, CloserFinish(b) PROVE Table'
  <2>1. \A h \in b : hst[h] = "closed"
    BY <1>20 DEF CloserFinish, SignalClosed, Finished
  <2> QED BY <1>20, <2>1, TableHandles DEF CloserFinish, SignalClosed
<1>21. ASSUME NEW h \in Handles, CloseDiscarded(h) PROVE Table'
  BY <1>21 DEF CloseDiscarded
<1>22. ASSUME DisposeBegin PROVE Table'
  BY <1>22 DEF DisposeBegin
<1>23. ASSUME DisposeDrain PROVE Table'
  <2>1. Retire(engines, hst, Keys) /\ UNCHANGED <<cfg, pc, key, hkey, hcfg>>
    BY <1>23 DEF DisposeDrain
  <2>2. Mirror(engines, hst)
    BY DEF Mirror
  <2> QED BY <2>1, <2>2, RetireMirror
<1>24. ASSUME dpc = "close", CloseNext(dbatch) PROVE Table'
  BY <1>24 DEF CloseNext
<1>25. ASSUME DisposeSignal PROVE Table'
  <2>1. \A h \in dbatch : hst[h] = "closed"
    BY <1>25 DEF DisposeSignal, SignalClosed, Finished
  <2> QED BY <1>25, <2>1, TableHandles DEF DisposeSignal, SignalClosed
<1>26. ASSUME DisposeReturn PROVE Table'
  BY <1>26 DEF DisposeReturn
<1>27. ASSUME NEW c \in Configs, Reconfigure(c) PROVE Table'
  <2>1. CASE materialConfigChange(cfg, c)
    <3>1. Retire(engines, hst, Keys) /\ UNCHANGED <<pc, key, hkey, hcfg>>
      BY <1>27, <2>1 DEF Reconfigure
    <3>2. Mirror(engines, hst)
      BY DEF Mirror
    <3> QED BY <3>1, <3>2, RetireMirror
  <2>2. CASE ~materialConfigChange(cfg, c)
    <3>1. Settings(cfg') = Settings(cfg) /\ UNCHANGED <<engines, hst, pc, key, hkey, hcfg>>
      BY <1>27, <2>2 DEF Reconfigure, materialConfigChange, Settings
    <3>2. \A k \in Keys : engines'[k] # None => Settings(hcfg'[engines'[k]]) = Settings(cfg')
      BY <3>1 DEF Settings
    <3> QED BY <3>1, <3>2
  <2> QED BY <2>1, <2>2
<1>28. ASSUME UNCHANGED vars PROVE Table'
  BY <1>28 DEF vars
<1> QED BY <1>1, <1>2, <1>3, <1>4, <1>5, <1>6, <1>7, <1>8, <1>9, <1>10, <1>11, <1>12, <1>13, <1>14, <1>15, <1>16, <1>17, <1>18, <1>19, <1>20, <1>21, <1>22, <1>23, <1>24, <1>25, <1>26, <1>27, <1>28 DEF Next, Work, ForScopeRuns, PrewarmRuns, CloserRuns, DiscardRuns, DisposeRuns

(* A retired batch is a new closeEngines run: its handles were live, so    *)
(* they are in no other.                                                   *)
LEMMA RetireBatches ==
    ASSUME NEW table \in [Keys -> Handles \cup {None}], NEW states \in [Handles -> HandleStates],
           NEW K \in SUBSET Keys, HandlesAssumption, Batches, TypeIntact,
           Mirror(table, states), Retire(table, states, K), Detach(Retired(table, K)),
           \A h \in Handles : hst[h] \in {"doomed", "closed"} <=> states[h] \in {"doomed", "closed"},
           UNCHANGED <<dbatch, hkey>>
    PROVE  Batches'
<1> DEFINE D == Retired(table, K)
<1>1. /\ D \subseteq Handles
      /\ \A h \in D : states[h] = "live" /\ hkey[h] \in Keys
  BY DEF Retired, Mirror
<1>2. \A h \in D : hst[h] \notin {"doomed", "closed"}
  BY <1>1
<1>3. D \cap dbatch = {} /\ \A b \in closers : D \cap b = {}
  BY <1>2 DEF Batches
<1>4. \A h \in Handles : IF h \in D THEN hst'[h] = "doomed" ELSE hst'[h] = states[h]
  BY DEF Retire
<1> HIDE DEF D
<1>5. (closers' = closers /\ D = {}) \/ (closers' = closers \cup {D} /\ D # {})
  <2>1. Detach(D)
    BY DEF D
  <2> QED BY <2>1 DEF Detach
<1>6. \A h \in Handles : hst[h] \in {"doomed", "closed"} => hst'[h] \in {"doomed", "closed"}
  BY <1>4
<1>7. \A h \in Handles : hst'[h] \in {"doomed", "closed"} => h \in D \/ hst[h] \in {"doomed", "closed"}
  BY <1>4
<1>8. \A b \in closers' : b # {} /\ \A h \in b : hst'[h] \in {"doomed", "closed"} /\ hkey'[h] \in Keys
  BY <1>1, <1>4, <1>5, <1>6 DEF Batches, TypeIntact
<1>9. \A h \in dbatch' : hst'[h] \in {"doomed", "closed"} /\ hkey'[h] \in Keys
  BY <1>6 DEF Batches, TypeIntact
<1>10. \A h \in Handles : hst'[h] \in {"doomed", "closed"} => h \in dbatch' \/ \E b \in closers' : h \in b
  BY <1>5, <1>7 DEF Batches
<1>11. /\ \A b, c \in closers' : b = c \/ b \cap c = {}
       /\ \A b \in closers' : b \cap dbatch' = {}
  BY <1>3, <1>5 DEF Batches
<1> QED BY <1>8, <1>9, <1>10, <1>11 DEF Batches

(* Retired handles stay with their one closeEngines run until it ends. *)
LEMMA BatchesStep ==
    ASSUME TypeIntact, Control, Table, Batches, Disposal, [Next]_vars
    PROVE  Batches'
<1> USE ThreadsAssumption, KeysAssumption, HandlesAssumption DEF Control, Table, Batches, TypeIntact, Goto, Return, Opened, Freed, HandleStates, RequestPCs, PrewarmPCs, Threads, vars, confVars, tableVars, closeVars, handleVars, threadVars, dispVars
<1>1. ASSUME NEW t \in Requests, Call(t) PROVE Batches'
  BY <1>1 DEF Call
<1>2. ASSUME NEW t \in Requests, LockOpenMu(t) PROVE Batches'
  BY <1>2 DEF LockOpenMu
<1>3. ASSUME NEW t \in Requests, LookupHit(t) PROVE Batches'
  BY <1>3 DEF LookupHit
<1>4. ASSUME NEW t \in Requests, LookupMiss(t) PROVE Batches'
  BY <1>4 DEF LookupMiss
<1>5. ASSUME NEW t \in Requests, NoPendingClose(t) PROVE Batches'
  BY <1>5 DEF NoPendingClose
<1>6. ASSUME NEW t \in Requests, ReadPendingClose(t) PROVE Batches'
  BY <1>6 DEF ReadPendingClose
<1>7. ASSUME NEW t \in Requests, ReceivePendingClose(t) PROVE Batches'
  BY <1>7 DEF ReceivePendingClose
<1>8. ASSUME NEW t \in Requests, RecheckHit(t) PROVE Batches'
  BY <1>8 DEF RecheckHit
<1>9. ASSUME NEW t \in Requests, RecheckMiss(t) PROVE Batches'
  BY <1>9 DEF RecheckMiss
<1>10. ASSUME NEW t \in Requests, OpenEngine(t) PROVE Batches'
  BY <1>10 DEF OpenEngine
<1>11. ASSUME NEW t \in Requests, OpenFails(t) PROVE Batches'
  BY <1>11 DEF OpenFails
<1>12. ASSUME NEW t \in Requests, Discard(t) PROVE Batches'
  BY <1>12 DEF Discard
<1>13. ASSUME NEW t \in Requests, Insert(t) PROVE Batches'
  <2>1. PICK K \in SUBSET Keys : /\ Retire(Published(t), PublishedStates(t), K)
                                 /\ Detach(Retired(Published(t), K))
    BY <1>13, InsertRetires
  <2>2. UNCHANGED <<dbatch, hkey>> /\ Batches /\ TypeIntact
    BY <1>13 DEF Insert
  <2>3. \A h \in Handles : hst[h] \in {"doomed", "closed"} <=> PublishedStates(t)[h] \in {"doomed", "closed"}
    BY <1>13, InsertRetires DEF PublishedStates
  <2> HIDE DEF Control, Table, Batches, TypeIntact, HandleStates
  <2> QED BY <1>13, <2>1, <2>2, <2>3, InsertRetires, RetireBatches
<1>14. ASSUME NEW t \in Prewarmers, PrewarmAdd(t) PROVE Batches'
  BY <1>14 DEF PrewarmAdd
<1>15. ASSUME NEW t \in Prewarmers, PrewarmLock(t) PROVE Batches'
  BY <1>15 DEF PrewarmLock
<1>16. ASSUME NEW t \in Prewarmers, PrewarmReread(t) PROVE Batches'
  BY <1>16 DEF PrewarmReread
<1>17. ASSUME NEW t \in Prewarmers, PrewarmOpen(t) PROVE Batches'
  BY <1>17 DEF PrewarmOpen
<1>18. ASSUME NEW t \in Prewarmers, PrewarmExit(t) PROVE Batches'
  BY <1>18 DEF PrewarmExit
<1>19. ASSUME NEW b \in closers, CloseNext(b) PROVE Batches'
  BY <1>19 DEF CloseNext
<1>20. ASSUME NEW b \in closers, CloserFinish(b) PROVE Batches'
  <2>1. /\ closers' = closers \ {b} /\ UNCHANGED dbatch
        /\ \A h \in Handles : IF h \in b THEN hst'[h] = "free" ELSE hst'[h] = hst[h] /\ hkey'[h] = hkey[h]
    BY <1>20 DEF CloserFinish, SignalClosed
  <2>2. \A c \in closers' : c \cap b = {}
    BY <2>1
  <2>3. b \cap dbatch = {}
    OBVIOUS
  <2>4. \A c \in closers' : \A h \in c : hst'[h] \in {"doomed", "closed"} /\ hkey'[h] \in Keys
    BY <2>1, <2>2
  <2>5. \A h \in Handles : hst'[h] \in {"doomed", "closed"} => h \notin b /\ hst[h] \in {"doomed", "closed"}
    BY <2>1
  <2>6. \A h \in Handles : hst'[h] \in {"doomed", "closed"} => h \in dbatch' \/ \E c \in closers' : h \in c
    BY <2>1, <2>5
  <2> QED BY <2>1, <2>2, <2>3, <2>4, <2>6
<1>21. ASSUME NEW h \in Handles, CloseDiscarded(h) PROVE Batches'
  BY <1>21 DEF CloseDiscarded
<1>22. ASSUME DisposeBegin PROVE Batches'
  BY <1>22 DEF DisposeBegin
<1>23. ASSUME DisposeDrain PROVE Batches'
  <2> DEFINE D == Retired(engines, Keys)
  <2>1. /\ dbatch = {} /\ dbatch' = D
        /\ Retire(engines, hst, Keys) /\ UNCHANGED <<closers, hkey>>
    BY <1>23 DEF DisposeDrain, Disposal
  <2>2. D \subseteq Handles /\ \A h \in D : hst[h] = "live" /\ hkey[h] \in Keys
    BY DEF Retired
  <2>3. \A b \in closers : b \cap D = {}
    BY <2>2
  <2>4. \A h \in Handles : IF h \in D THEN hst'[h] = "doomed" ELSE hst'[h] = hst[h]
    BY <2>1 DEF Retire
  <2> HIDE DEF D
  <2> QED BY <2>1, <2>2, <2>3, <2>4
<1>24. ASSUME dpc = "close", CloseNext(dbatch) PROVE Batches'
  BY <1>24 DEF CloseNext
<1>25. ASSUME DisposeSignal PROVE Batches'
  <2>1. /\ closers' = closers /\ dbatch' = {}
        /\ \A h \in Handles : IF h \in dbatch THEN hst'[h] = "free" ELSE hst'[h] = hst[h] /\ hkey'[h] = hkey[h]
    BY <1>25 DEF DisposeSignal, SignalClosed
  <2>2. \A c \in closers : c \cap dbatch = {}
    OBVIOUS
  <2>3. \A h \in Handles : hst'[h] \in {"doomed", "closed"} => h \notin dbatch /\ hst[h] \in {"doomed", "closed"}
    BY <2>1
  <2> QED BY <2>1, <2>2, <2>3
<1>26. ASSUME DisposeReturn PROVE Batches'
  BY <1>26 DEF DisposeReturn
<1>27. ASSUME NEW c \in Configs, Reconfigure(c) PROVE Batches'
  <2>1. CASE materialConfigChange(cfg, c)
    <3>1. Retire(engines, hst, Keys) /\ Detach(Retired(engines, Keys)) /\ UNCHANGED <<dbatch, hkey>>
      BY <1>27, <2>1 DEF Reconfigure
    <3>2. Mirror(engines, hst)
      BY DEF Mirror
    <3>3. Batches /\ TypeIntact
      OBVIOUS
    <3> HIDE DEF Control, Table, Batches, TypeIntact, HandleStates
    <3> QED BY <3>1, <3>2, <3>3, RetireBatches DEF TypeIntact
  <2>2. CASE ~materialConfigChange(cfg, c)
    BY <1>27, <2>2 DEF Reconfigure
  <2> QED BY <2>1, <2>2
<1>28. ASSUME UNCHANGED vars PROVE Batches'
  BY <1>28 DEF vars
<1> QED BY <1>1, <1>2, <1>3, <1>4, <1>5, <1>6, <1>7, <1>8, <1>9, <1>10, <1>11, <1>12, <1>13, <1>14, <1>15, <1>16, <1>17, <1>18, <1>19, <1>20, <1>21, <1>22, <1>23, <1>24, <1>25, <1>26, <1>27, <1>28 DEF Next, Work, ForScopeRuns, PrewarmRuns, CloserRuns, DiscardRuns, DisposeRuns

(* What DisposeAll leaves behind at each of its steps stays so. *)
LEMMA DisposalStep ==
    ASSUME TypeIntact, Control, Table, Batches, Disposal, WaitGroup, [Next]_vars
    PROVE  Disposal'
<1> USE ThreadsAssumption, KeysAssumption, HandlesAssumption DEF Control, Disposal, TypeIntact, Active, Goto, Return, Threads, vars, confVars, tableVars, closeVars, handleVars, threadVars, dispVars
<1>1. ASSUME NEW t \in Requests, Call(t) PROVE Disposal'
  BY <1>1 DEF Call
<1>2. ASSUME NEW t \in Requests, LockOpenMu(t) PROVE Disposal'
  BY <1>2 DEF LockOpenMu
<1>3. ASSUME NEW t \in Requests, LookupHit(t) PROVE Disposal'
  BY <1>3 DEF LookupHit
<1>4. ASSUME NEW t \in Requests, LookupMiss(t) PROVE Disposal'
  BY <1>4 DEF LookupMiss
<1>5. ASSUME NEW t \in Requests, NoPendingClose(t) PROVE Disposal'
  BY <1>5 DEF NoPendingClose
<1>6. ASSUME NEW t \in Requests, ReadPendingClose(t) PROVE Disposal'
  BY <1>6 DEF ReadPendingClose
<1>7. ASSUME NEW t \in Requests, ReceivePendingClose(t) PROVE Disposal'
  BY <1>7 DEF ReceivePendingClose
<1>8. ASSUME NEW t \in Requests, RecheckHit(t) PROVE Disposal'
  BY <1>8 DEF RecheckHit
<1>9. ASSUME NEW t \in Requests, RecheckMiss(t) PROVE Disposal'
  BY <1>9 DEF RecheckMiss
<1>10. ASSUME NEW t \in Requests, OpenEngine(t) PROVE Disposal'
  BY <1>10 DEF OpenEngine
<1>11. ASSUME NEW t \in Requests, OpenFails(t) PROVE Disposal'
  BY <1>11 DEF OpenFails
<1>12. ASSUME NEW t \in Requests, Discard(t) PROVE Disposal'
  BY <1>12 DEF Discard
<1>13. ASSUME NEW t \in Requests, Insert(t) PROVE Disposal'
  <2>1. dpc = "idle" /\ UNCHANGED <<dpc, closed, dbatch>>
    BY <1>13 DEF Insert, Publishable
  <2> QED BY <2>1
<1>14. ASSUME NEW t \in Prewarmers, PrewarmAdd(t) PROVE Disposal'
  BY <1>14 DEF PrewarmAdd
<1>15. ASSUME NEW t \in Prewarmers, PrewarmLock(t) PROVE Disposal'
  BY <1>15 DEF PrewarmLock
<1>16. ASSUME NEW t \in Prewarmers, PrewarmReread(t) PROVE Disposal'
  BY <1>16 DEF PrewarmReread
<1>17. ASSUME NEW t \in Prewarmers, PrewarmOpen(t) PROVE Disposal'
  BY <1>17 DEF PrewarmOpen
<1>18. ASSUME NEW t \in Prewarmers, PrewarmExit(t) PROVE Disposal'
  BY <1>18 DEF PrewarmExit
<1>19. ASSUME NEW b \in closers, CloseNext(b) PROVE Disposal'
  BY <1>19 DEF CloseNext
<1>20. ASSUME NEW b \in closers, CloserFinish(b) PROVE Disposal'
  <2>1. UNCHANGED <<dpc, closed, dbatch, pc, engines>> /\ dpc # "done"
    BY <1>20 DEF CloserFinish, SignalClosed
  <2> QED BY <2>1
<1>21. ASSUME NEW h \in Handles, CloseDiscarded(h) PROVE Disposal'
  BY <1>21 DEF CloseDiscarded
<1>22. ASSUME DisposeBegin PROVE Disposal'
  BY <1>22 DEF DisposeBegin
<1>23. ASSUME DisposeDrain PROVE Disposal'
  <2>1. \A k \in Keys : engines'[k] = None
    BY <1>23 DEF DisposeDrain, Retire
  <2> QED BY <1>23, <2>1 DEF DisposeDrain
<1>24. ASSUME dpc = "close", CloseNext(dbatch) PROVE Disposal'
  BY <1>24 DEF CloseNext
<1>25. ASSUME DisposeSignal PROVE Disposal'
  <2> QED BY <1>25 DEF DisposeSignal, SignalClosed
<1>26. ASSUME DisposeReturn PROVE Disposal'
  <2>1. closeWg = 0 /\ IsFiniteSet(closers) /\ IsFiniteSet(Active)
    BY <1>26, FiniteAssumption, FS_Subset DEF DisposeReturn, WaitGroup
  <2>2. Cardinality(closers) = 0 /\ Cardinality(Active) = 0
    BY <2>1, FS_CardinalityType DEF WaitGroup
  <2>3. closers = {} /\ Active = {}
    BY <2>1, <2>2, FS_EmptySet
  <2> QED BY <1>26, <2>3 DEF DisposeReturn
<1>27. ASSUME NEW c \in Configs, Reconfigure(c) PROVE Disposal'
  <2>1. UNCHANGED <<dpc, closed, dbatch, pc>>
    BY <1>27 DEF Reconfigure
  <2>2. CASE dpc \in {"close", "wait", "done"}
    <3>1. Retired(engines, Keys) = {}
      BY <2>2 DEF Retired
    <3>2. closers' = closers /\ \A k \in Keys : engines'[k] = None
      BY <1>27, <2>2, <3>1 DEF Reconfigure, Detach, Retire
    <3> QED BY <2>1, <3>2
  <2>3. CASE dpc \in {"idle", "drain"}
    BY <2>1, <2>3
  <2> QED BY <2>2, <2>3
<1>28. ASSUME UNCHANGED vars PROVE Disposal'
  BY <1>28 DEF vars
<1> QED BY <1>1, <1>2, <1>3, <1>4, <1>5, <1>6, <1>7, <1>8, <1>9, <1>10, <1>11, <1>12, <1>13, <1>14, <1>15, <1>16, <1>17, <1>18, <1>19, <1>20, <1>21, <1>22, <1>23, <1>24, <1>25, <1>26, <1>27, <1>28 DEF Next, Work, ForScopeRuns, PrewarmRuns, CloserRuns, DiscardRuns, DisposeRuns

(* closeWg counts the detached closeEngines runs and the prewarms.  Four    *)
(* kinds of step change it.                                                 *)
LEMMA WaitGroupDetach ==
    ASSUME TypeIntact, Batches, WaitGroup,
           NEW D \in SUBSET Handles, \A h \in D : hst[h] \notin {"doomed", "closed"},
           Detach(D), Active' = Active
    PROVE  WaitGroup'
<1>1. CASE D = {}
  BY <1>1 DEF Detach, WaitGroup
<1>2. CASE D # {}
  <2>1. D \notin closers
    BY <1>2 DEF Batches
  <2>2. closers' = closers \cup {D} /\ closeWg' = closeWg + 1
    BY <1>2 DEF Detach
  <2>3. IsFiniteSet(closers') /\ Cardinality(closers') = Cardinality(closers) + 1
    BY <2>1, <2>2, FS_AddElement DEF WaitGroup
  <2>4. Cardinality(closers) \in Nat /\ Cardinality(Active) \in Nat
    BY FiniteAssumption, FS_Subset, FS_CardinalityType DEF WaitGroup, Active
  <2> QED BY <2>2, <2>3, <2>4 DEF WaitGroup
<1> QED BY <1>1, <1>2

LEMMA WaitGroupSame ==
    ASSUME WaitGroup, UNCHANGED <<closers, closeWg>>,
           \A t \in Prewarmers : pc'[t] \in {"start", "done"} <=> pc[t] \in {"start", "done"}
    PROVE  WaitGroup'
<1>1. Active' = Active
  BY DEF Active
<1> QED BY <1>1 DEF WaitGroup

LEMMA WaitGroupInsert ==
    ASSUME TypeIntact, Control, Table, Batches, WaitGroup, NEW t \in Requests, Insert(t)
    PROVE  WaitGroup'
<1>1. PICK K \in SUBSET Keys : Detach(Retired(Published(t), K))
  BY InsertRetires
<1>2. /\ Retired(Published(t), K) \in SUBSET Handles
      /\ \A h \in Retired(Published(t), K) : PublishedStates(t)[h] = "live"
  BY InsertRetires DEF Retired, Mirror
<1>3. \A h \in Retired(Published(t), K) : hst[h] \notin {"doomed", "closed"}
  BY <1>2, InsertRetires DEF PublishedStates, TypeIntact
<1>4. Active' = Active
  BY ThreadsAssumption DEF Insert, Return, Goto, Active, TypeIntact, Threads
<1> QED BY <1>1, <1>2, <1>3, <1>4, WaitGroupDetach

LEMMA WaitGroupReconfigure ==
    ASSUME TypeIntact, Table, Batches, WaitGroup, NEW c \in Configs, Reconfigure(c)
    PROVE  WaitGroup'
<1>1. UNCHANGED pc
  BY DEF Reconfigure, threadVars
<1>2. Active' = Active
  BY <1>1 DEF Active
<1>3. CASE materialConfigChange(cfg, c)
  <2>1. Detach(Retired(engines, Keys))
    BY <1>3 DEF Reconfigure
  <2>2. Retired(engines, Keys) \in SUBSET Handles
        /\ \A h \in Retired(engines, Keys) : hst[h] \notin {"doomed", "closed"}
    BY DEF Retired, Table, TypeIntact
  <2> QED BY <1>2, <2>1, <2>2, WaitGroupDetach
<1>4. CASE ~materialConfigChange(cfg, c)
  BY <1>1, <1>4, WaitGroupSame DEF Reconfigure, closeVars
<1> QED BY <1>3, <1>4

LEMMA WaitGroupCloser ==
    ASSUME WaitGroup, NEW b \in closers, CloserFinish(b)
    PROVE  WaitGroup'
<1>1. closers' = closers \ {b} /\ closeWg' = closeWg - 1 /\ UNCHANGED pc
  BY DEF CloserFinish, SignalClosed
<1>2. Active' = Active
  BY <1>1 DEF Active
<1>3. IsFiniteSet(closers') /\ Cardinality(closers') = Cardinality(closers) - 1
  BY <1>1, FS_RemoveElement DEF WaitGroup
<1>4. Cardinality(closers) \in Nat /\ Cardinality(Active) \in Nat
  BY FiniteAssumption, FS_Subset, FS_CardinalityType DEF WaitGroup, Active
<1> QED BY <1>1, <1>2, <1>3, <1>4 DEF WaitGroup

LEMMA WaitGroupPrewarm ==
    ASSUME TypeIntact, WaitGroup, NEW t \in Prewarmers, PrewarmAdd(t) \/ PrewarmExit(t)
    PROVE  WaitGroup'
<1>1. IsFiniteSet(Active) /\ Cardinality(closers) \in Nat /\ Cardinality(Active) \in Nat
  BY FiniteAssumption, FS_Subset, FS_CardinalityType DEF WaitGroup, Active
<1>2. CASE PrewarmAdd(t) /\ closed
  <2>1. UNCHANGED <<closers, closeWg>> /\ pc[t] = "start" /\ pc' = [pc EXCEPT ![t] = "done"]
    BY <1>2 DEF PrewarmAdd, Goto
  <2> QED BY <2>1, WaitGroupSame DEF TypeIntact, Threads
<1>3. CASE PrewarmAdd(t) /\ ~closed
  <2>1. UNCHANGED closers /\ closeWg' = closeWg + 1 /\ pc[t] = "start" /\ pc' = [pc EXCEPT ![t] = "add"]
    BY <1>3 DEF PrewarmAdd, Goto
  <2>2. t \notin Active /\ Active' = Active \cup {t}
    BY <2>1 DEF Active, TypeIntact, Threads
  <2>3. Cardinality(Active') = Cardinality(Active) + 1
    BY <1>1, <2>2, FS_AddElement
  <2> QED BY <1>1, <2>1, <2>3 DEF WaitGroup
<1>4. CASE PrewarmExit(t)
  <2>1. /\ UNCHANGED closers /\ closeWg' = closeWg - 1
        /\ pc[t] \in {"reread", "open", "close"} /\ pc' = [pc EXCEPT ![t] = "done"]
    BY <1>4 DEF PrewarmExit, Return, Goto
  <2>2. t \in Active /\ Active' = Active \ {t}
    BY <2>1 DEF Active, TypeIntact, Threads
  <2>3. Cardinality(Active') = Cardinality(Active) - 1
    BY <1>1, <2>2, FS_RemoveElement
  <2> QED BY <1>1, <2>1, <2>3 DEF WaitGroup
<1> QED BY <1>2, <1>3, <1>4

LEMMA WaitGroupStep ==
    ASSUME TypeIntact, Control, Table, Batches, WaitGroup, [Next]_vars
    PROVE  WaitGroup'
<1> USE ThreadsAssumption DEF TypeIntact, Goto, Return, Threads, vars, confVars, tableVars, closeVars, handleVars, threadVars, dispVars
<1>1. ASSUME NEW t \in Requests, Call(t) PROVE WaitGroup'
  BY <1>1, WaitGroupSame DEF Call
<1>2. ASSUME NEW t \in Requests, LockOpenMu(t) PROVE WaitGroup'
  BY <1>2, WaitGroupSame DEF LockOpenMu
<1>3. ASSUME NEW t \in Requests, LookupHit(t) PROVE WaitGroup'
  BY <1>3, WaitGroupSame DEF LookupHit
<1>4. ASSUME NEW t \in Requests, LookupMiss(t) PROVE WaitGroup'
  BY <1>4, WaitGroupSame DEF LookupMiss
<1>5. ASSUME NEW t \in Requests, NoPendingClose(t) PROVE WaitGroup'
  BY <1>5, WaitGroupSame DEF NoPendingClose
<1>6. ASSUME NEW t \in Requests, ReadPendingClose(t) PROVE WaitGroup'
  BY <1>6, WaitGroupSame DEF ReadPendingClose
<1>7. ASSUME NEW t \in Requests, ReceivePendingClose(t) PROVE WaitGroup'
  BY <1>7, WaitGroupSame DEF ReceivePendingClose
<1>8. ASSUME NEW t \in Requests, RecheckHit(t) PROVE WaitGroup'
  BY <1>8, WaitGroupSame DEF RecheckHit
<1>9. ASSUME NEW t \in Requests, RecheckMiss(t) PROVE WaitGroup'
  BY <1>9, WaitGroupSame DEF RecheckMiss
<1>10. ASSUME NEW t \in Requests, OpenEngine(t) PROVE WaitGroup'
  BY <1>10, WaitGroupSame DEF OpenEngine
<1>11. ASSUME NEW t \in Requests, OpenFails(t) PROVE WaitGroup'
  BY <1>11, WaitGroupSame DEF OpenFails
<1>12. ASSUME NEW t \in Requests, Discard(t) PROVE WaitGroup'
  BY <1>12, WaitGroupSame DEF Discard
<1>13. ASSUME NEW t \in Requests, Insert(t) PROVE WaitGroup'
  BY <1>13, WaitGroupInsert
<1>14. ASSUME NEW t \in Prewarmers, PrewarmAdd(t) PROVE WaitGroup'
  BY <1>14, WaitGroupPrewarm
<1>15. ASSUME NEW t \in Prewarmers, PrewarmLock(t) PROVE WaitGroup'
  BY <1>15, WaitGroupSame DEF PrewarmLock
<1>16. ASSUME NEW t \in Prewarmers, PrewarmReread(t) PROVE WaitGroup'
  BY <1>16, WaitGroupSame DEF PrewarmReread
<1>17. ASSUME NEW t \in Prewarmers, PrewarmOpen(t) PROVE WaitGroup'
  BY <1>17, WaitGroupSame DEF PrewarmOpen
<1>18. ASSUME NEW t \in Prewarmers, PrewarmExit(t) PROVE WaitGroup'
  BY <1>18, WaitGroupPrewarm
<1>19. ASSUME NEW b \in closers, CloseNext(b) PROVE WaitGroup'
  BY <1>19, WaitGroupSame DEF CloseNext
<1>20. ASSUME NEW b \in closers, CloserFinish(b) PROVE WaitGroup'
  BY <1>20, WaitGroupCloser
<1>21. ASSUME NEW h \in Handles, CloseDiscarded(h) PROVE WaitGroup'
  BY <1>21, WaitGroupSame DEF CloseDiscarded
<1>22. ASSUME DisposeBegin PROVE WaitGroup'
  BY <1>22, WaitGroupSame DEF DisposeBegin
<1>23. ASSUME DisposeDrain PROVE WaitGroup'
  BY <1>23, WaitGroupSame DEF DisposeDrain
<1>24. ASSUME dpc = "close", CloseNext(dbatch) PROVE WaitGroup'
  BY <1>24, WaitGroupSame DEF CloseNext
<1>25. ASSUME DisposeSignal PROVE WaitGroup'
  BY <1>25, WaitGroupSame DEF DisposeSignal, SignalClosed
<1>26. ASSUME DisposeReturn PROVE WaitGroup'
  BY <1>26, WaitGroupSame DEF DisposeReturn
<1>27. ASSUME NEW c \in Configs, Reconfigure(c) PROVE WaitGroup'
  BY <1>27, WaitGroupReconfigure
<1>28. ASSUME UNCHANGED vars PROVE WaitGroup'
  BY <1>28, WaitGroupSame DEF vars
<1> QED BY <1>1, <1>2, <1>3, <1>4, <1>5, <1>6, <1>7, <1>8, <1>9, <1>10, <1>11, <1>12, <1>13, <1>14, <1>15, <1>16, <1>17, <1>18, <1>19, <1>20, <1>21, <1>22, <1>23, <1>24, <1>25, <1>26, <1>27, <1>28 DEF Next, Work, ForScopeRuns, PrewarmRuns, CloserRuns, DiscardRuns, DisposeRuns

-----------------------------------------------------------------------------
(* One marker for each retired handle, and none beside a table entry. *)
Marked(table, states, marks) ==
    /\ \A h \in Handles : states[h] \in {"doomed", "closed"} => hkey[h] \in Keys /\ marks[hkey[h]] = h
    /\ \A k \in Keys : marks[k] # None => states[marks[k]] \in {"doomed", "closed"} /\ hkey[marks[k]] = k
    /\ \A k \in Keys : table[k] = None \/ marks[k] = None

LEMMA MarkersMarked ==
    ASSUME Markers, Batches, TypeIntact
    PROVE  Marked(engines, hst, closings)
BY DEF Markers, Batches, Marked, TypeIntact

(* Retiring keys adds a marker for each and touches no other. *)
LEMMA RetireMarked ==
    ASSUME NEW table \in [Keys -> Handles \cup {None}], NEW states \in [Handles -> HandleStates],
           NEW K \in SUBSET Keys, HandlesAssumption, TypeIntact,
           Mirror(table, states), Marked(table, states, closings), Retire(table, states, K)
    PROVE  /\ Marked(engines', hst', closings')
           /\ \A k \in Keys : closings[k] # None => closings'[k] = closings[k]
<1>1. \A h \in Handles : h \in Retired(table, K) => hkey[h] \in K /\ table[hkey[h]] = h /\ states[h] = "live"
  BY DEF Retired, Mirror
<1>2. \A k \in K : table[k] # None => table[k] \in Retired(table, K) /\ hkey[table[k]] = k
  BY DEF Retired, Mirror
<1>3. \A k \in Keys : IF k \in K /\ table[k] # None THEN closings'[k] = table[k] ELSE closings'[k] = closings[k]
  BY DEF Retire
<1>4. \A h \in Handles : IF h \in Retired(table, K) THEN hst'[h] = "doomed" ELSE hst'[h] = states[h]
  BY DEF Retire
<1>5. \A k \in Keys : IF k \in K THEN engines'[k] = None ELSE engines'[k] = table[k]
  BY DEF Retire
<1>6. \A k \in Keys : closings[k] # None => closings'[k] = closings[k]
  BY <1>3 DEF Marked
<1>7. \A h \in Handles : hst'[h] \in {"doomed", "closed"} => hkey[h] \in Keys /\ closings'[hkey[h]] = h
  <2>1. ASSUME NEW h \in Handles, h \in Retired(table, K)
        PROVE  hkey[h] \in Keys /\ closings'[hkey[h]] = h
    BY <1>1, <1>3, <2>1, HandlesAssumption
  <2>2. ASSUME NEW h \in Handles, h \notin Retired(table, K), hst'[h] \in {"doomed", "closed"}
        PROVE  hkey[h] \in Keys /\ closings'[hkey[h]] = h
    BY <1>4, <1>6, <2>2, HandlesAssumption DEF Marked
  <2> QED BY <2>1, <2>2
<1>8. \A k \in Keys : closings'[k] # None => hst'[closings'[k]] \in {"doomed", "closed"} /\ hkey[closings'[k]] = k
  <2>1. ASSUME NEW k \in Keys, k \in K, table[k] # None
        PROVE  hst'[closings'[k]] \in {"doomed", "closed"} /\ hkey[closings'[k]] = k
    BY <1>2, <1>3, <1>4, <2>1 DEF TypeIntact
  <2>2. ASSUME NEW k \in Keys, ~(k \in K /\ table[k] # None), closings'[k] # None
        PROVE  hst'[closings'[k]] \in {"doomed", "closed"} /\ hkey[closings'[k]] = k
    <3>1. closings'[k] = closings[k] /\ closings[k] \in Handles
      BY <1>3, <2>2 DEF TypeIntact
    <3>2. states[closings[k]] \in {"doomed", "closed"} /\ hkey[closings[k]] = k
      BY <2>2, <3>1 DEF Marked
    <3> QED BY <1>4, <3>1, <3>2
  <2> QED BY <2>1, <2>2
<1>9. \A k \in Keys : engines'[k] = None \/ closings'[k] = None
  BY <1>3, <1>5 DEF Marked
<1> QED BY <1>6, <1>7, <1>8, <1>9 DEF Marked

(* A closeEngines run takes away its own markers and wakes their waiters. *)
LEMMA SignalMarkers ==
    ASSUME Markers, Batches, TypeIntact, Control, HandlesAssumption,
           NEW b \in SUBSET Handles, SignalClosed(b), UNCHANGED <<cfg, replaced, closed>>
    PROVE  Markers'
<1> DEFINE ks == {hkey[h] : h \in b}
<1>1. /\ \A h \in b : hst[h] = "closed"
      /\ \A t \in Threads : chan'[t] = IF chan[t] \in Retired(closings, ks) THEN None ELSE chan[t]
      /\ \A k \in Keys : closings'[k] = IF k \in ks THEN None ELSE closings[k]
      /\ \A h \in Handles : hst'[h] = IF h \in b THEN "free" ELSE hst[h]
      /\ \A h \in Handles : h \notin b => hkey'[h] = hkey[h]
      /\ UNCHANGED <<engines, pc, key, snap>>
  BY DEF SignalClosed, Finished, Wake, Freed
<1>2. Marked(engines, hst, closings)
  BY MarkersMarked
<1>3. \A h \in Handles : hst'[h] \in {"doomed", "closed"} => closings'[hkey'[h]] = h
  <2> SUFFICES ASSUME NEW h \in Handles, hst'[h] \in {"doomed", "closed"}
               PROVE  closings'[hkey'[h]] = h
    OBVIOUS
  <2>1. h \notin b /\ hst[h] \in {"doomed", "closed"} /\ hkey'[h] = hkey[h]
    BY <1>1
  <2>2. hkey[h] \in Keys /\ closings[hkey[h]] = h
    BY <1>2, <2>1 DEF Marked
  <2>3. \A g \in b : closings[hkey[g]] = g
    BY <1>1, <1>2 DEF Marked
  <2>4. hkey[h] \notin ks
    BY <2>1, <2>2, <2>3
  <2> QED BY <1>1, <2>1, <2>2, <2>4
<1>4. \A k \in Keys : closings'[k] # None => closings'[k] = closings[k] /\ closings[k] \notin b
  BY <1>1, <1>2 DEF Marked, TypeIntact
<1>5. \A k \in Keys : closings'[k] # None => hst'[closings'[k]] \in {"doomed", "closed"} /\ hkey'[closings'[k]] = k
  BY <1>1, <1>2, <1>4 DEF Marked, TypeIntact
<1>6. \A t \in Requests : chan'[t] # None => closings'[key'[t]] = chan'[t]
  <2> SUFFICES ASSUME NEW t \in Requests, chan'[t] # None
               PROVE  closings'[key'[t]] = chan'[t]
    OBVIOUS
  <2>1. chan'[t] = chan[t] /\ chan[t] # None /\ chan[t] \notin Retired(closings, ks)
    BY <1>1 DEF Threads
  <2>2. closings[key[t]] = chan[t]
    BY <2>1 DEF Markers
  <2>3. key[t] \in Keys
    BY <2>1 DEF Control, Threads
  <2>4. key[t] \notin ks
    BY <2>1, <2>2, <2>3 DEF Retired
  <2> QED BY <1>1, <2>1, <2>2, <2>3, <2>4
<1>7. \A k \in Keys : closings[k] = None => closings'[k] = None
  BY <1>1
<1>8. \A t \in Requests : pc'[t] \in {"recheck", "open", "insert"} /\ Publishable(t)' => closings'[key'[t]] = None
  <2> SUFFICES ASSUME NEW t \in Requests, pc'[t] \in {"recheck", "open", "insert"}, Publishable(t)'
               PROVE  closings'[key'[t]] = None
    OBVIOUS
  <2>1. pc[t] \in {"recheck", "open", "insert"} /\ Publishable(t) /\ key'[t] = key[t]
    BY <1>1 DEF Publishable, materialConfigChange, Settings
  <2>2. key[t] \in Keys
    BY <2>1 DEF Control
  <2> QED BY <1>7, <2>1, <2>2 DEF Markers
<1> HIDE DEF ks
<1> QED BY <1>1, <1>3, <1>5, <1>6, <1>7, <1>8 DEF Markers, Settings, TypeIntact, Threads

(* Without a return to replaced settings the markers stay exact. *)
LEMMA MarkersStep ==
    ASSUME TypeIntact, Control, Table, Batches, Disposal, Markers, [FreshNext]_vars
    PROVE  Markers'
<1> USE ThreadsAssumption, KeysAssumption, HandlesAssumption DEF Control, Table, Markers, TypeIntact, Publishable, materialConfigChange, Goto, Return, Opened, Freed, HandleStates, RequestPCs, PrewarmPCs, Threads, vars, confVars, tableVars, closeVars, handleVars, threadVars, dispVars
<1>1. ASSUME NEW t \in Requests, Call(t) PROVE Markers'
  BY <1>1 DEF Call
<1>2. ASSUME NEW t \in Requests, LockOpenMu(t) PROVE Markers'
  BY <1>2 DEF LockOpenMu
<1>3. ASSUME NEW t \in Requests, LookupHit(t) PROVE Markers'
  BY <1>3 DEF LookupHit
<1>4. ASSUME NEW t \in Requests, LookupMiss(t) PROVE Markers'
  BY <1>4 DEF LookupMiss
<1>5. ASSUME NEW t \in Requests, NoPendingClose(t) PROVE Markers'
  BY <1>5 DEF NoPendingClose
<1>6. ASSUME NEW t \in Requests, ReadPendingClose(t) PROVE Markers'
  BY <1>6 DEF ReadPendingClose
<1>7. ASSUME NEW t \in Requests, ReceivePendingClose(t) PROVE Markers'
  BY <1>7 DEF ReceivePendingClose
<1>8. ASSUME NEW t \in Requests, RecheckHit(t) PROVE Markers'
  BY <1>8 DEF RecheckHit
<1>9. ASSUME NEW t \in Requests, RecheckMiss(t) PROVE Markers'
  BY <1>9 DEF RecheckMiss
<1>10. ASSUME NEW t \in Requests, OpenEngine(t) PROVE Markers'
  BY <1>10 DEF OpenEngine
<1>11. ASSUME NEW t \in Requests, OpenFails(t) PROVE Markers'
  BY <1>11 DEF OpenFails
<1>12. ASSUME NEW t \in Requests, Discard(t) PROVE Markers'
  BY <1>12 DEF Discard
<1>13. ASSUME NEW t \in Requests, Insert(t) PROVE Markers'
  <2>1. TypeIntact /\ Control /\ Table /\ Batches /\ Markers
    OBVIOUS
  <2>2. openMu = t /\ pc[t] = "insert" /\ Publishable(t) /\ closings[key[t]] = None
    <3>1. pc[t] = "insert" /\ Publishable(t)
      BY <1>13 DEF Insert
    <3>2. openMu = t
      BY <3>1 DEF Holding
    <3> HIDE DEF Publishable
    <3> QED BY <3>1, <3>2
  <2>3. \A u \in Requests : u # t => pc[u] \notin Holding
    BY <2>2 DEF Holding
  <2>4. \A u \in Requests : pc'[u] \notin Holding
    BY <1>13, <2>3 DEF Insert, Holding
  <2>5. /\ UNCHANGED <<cfg, replaced, closed, hkey, hcfg>>
        /\ \A u \in Requests : pc'[u] \notin {"idle", "lookup"} => pc[u] = pc'[u] /\ snap'[u] = snap[u]
        /\ \A u \in Requests : chan'[u] = None
    BY <1>13, <2>3 DEF Insert, Holding
  <2>6. \A u \in Requests : pc'[u] \notin {"recheck", "open", "insert"}
    BY <2>4 DEF Holding
  <2> HIDE DEF TypeIntact, Control, Table, HandleStates
  <2>7. PICK K \in SUBSET Keys : Retire(Published(t), PublishedStates(t), K)
    BY <1>13, <2>1, InsertRetires
  <2>8. Marked(Published(t), PublishedStates(t), closings)
    <3>1. Marked(engines, hst, closings)
      BY <2>1, MarkersMarked
    <3>2. new[t] \in Handles /\ hst[new[t]] = "opened"
      BY <1>13, <2>1, InsertRetires
    <3> QED BY <2>1, <2>2, <3>1, <3>2, HandlesAssumption DEF Marked, Published, PublishedStates, TypeIntact
  <2>9. Marked(engines', hst', closings')
    <3>1. /\ Published(t) \in [Keys -> Handles \cup {None}]
          /\ PublishedStates(t) \in [Handles -> HandleStates]
          /\ Mirror(Published(t), PublishedStates(t))
      BY <1>13, <2>1, InsertRetires
    <3> QED BY <2>1, <2>7, <2>8, <3>1, RetireMarked
  <2> QED BY <2>5, <2>6, <2>9 DEF Marked, Settings
<1>14. ASSUME NEW t \in Prewarmers, PrewarmAdd(t) PROVE Markers'
  BY <1>14 DEF PrewarmAdd
<1>15. ASSUME NEW t \in Prewarmers, PrewarmLock(t) PROVE Markers'
  BY <1>15 DEF PrewarmLock
<1>16. ASSUME NEW t \in Prewarmers, PrewarmReread(t) PROVE Markers'
  BY <1>16 DEF PrewarmReread
<1>17. ASSUME NEW t \in Prewarmers, PrewarmOpen(t) PROVE Markers'
  BY <1>17 DEF PrewarmOpen
<1>18. ASSUME NEW t \in Prewarmers, PrewarmExit(t) PROVE Markers'
  <2>1. /\ UNCHANGED <<cfg, replaced, closed, engines, closings>>
        /\ pc' = [pc EXCEPT ![t] = "done"] /\ key' = [key EXCEPT ![t] = None]
        /\ snap' = [snap EXCEPT ![t] = InitConfig] /\ chan' = [chan EXCEPT ![t] = None]
    BY <1>18 DEF PrewarmExit
  <2>2. UNCHANGED handleVars \/ (Freed({new[t]}) /\ pc[t] = "close")
    BY <1>18 DEF PrewarmExit
  <2>3. \A h \in Handles : hst[h] \in {"doomed", "closed"} => hst'[h] = hst[h] /\ hkey'[h] = hkey[h]
    BY <2>2
  <2>4. \A h \in Handles : hst'[h] \in {"doomed", "closed"} => hst[h] = hst'[h]
    BY <2>2
  <2> QED BY <2>1, <2>3, <2>4 DEF Settings
<1>19. ASSUME NEW b \in closers, CloseNext(b) PROVE Markers'
  BY <1>19 DEF CloseNext
<1>20. ASSUME NEW b \in closers, CloserFinish(b) PROVE Markers'
  <2>1. SignalClosed(b) /\ UNCHANGED <<cfg, replaced, closed>> /\ b \in SUBSET Handles
    BY <1>20 DEF CloserFinish
  <2>2. Markers /\ Batches /\ TypeIntact /\ Control
    OBVIOUS
  <2> HIDE DEF TypeIntact, Control, Markers
  <2> QED BY <2>1, <2>2, SignalMarkers
<1>21. ASSUME NEW h \in Handles, CloseDiscarded(h) PROVE Markers'
  BY <1>21 DEF CloseDiscarded
<1>22. ASSUME DisposeBegin PROVE Markers'
  BY <1>22 DEF DisposeBegin
<1>23. ASSUME DisposeDrain PROVE Markers'
  <2>1. /\ Retire(engines, hst, Keys) /\ closed
        /\ UNCHANGED <<cfg, replaced, closed, hkey, hcfg, pc, key, snap, chan>>
    BY <1>23 DEF DisposeDrain, Disposal
  <2>2. TypeIntact /\ Batches /\ Markers /\ Mirror(engines, hst)
    BY DEF Mirror
  <2>3. /\ Marked(engines', hst', closings')
        /\ \A k \in Keys : closings[k] # None => closings'[k] = closings[k]
    <3>1. engines \in [Keys -> Handles \cup {None}] /\ hst \in [Handles -> HandleStates]
      OBVIOUS
    <3> HIDE DEF TypeIntact, Control, Table, Markers, HandleStates
    <3> QED BY <2>1, <2>2, <3>1, MarkersMarked, RetireMarked
  <2> QED BY <2>1, <2>3 DEF Marked, Settings
<1>24. ASSUME dpc = "close", CloseNext(dbatch) PROVE Markers'
  BY <1>24 DEF CloseNext
<1>25. ASSUME DisposeSignal PROVE Markers'
  <2>1. SignalClosed(dbatch) /\ UNCHANGED <<cfg, replaced, closed>> /\ dbatch \in SUBSET Handles
    BY <1>25 DEF DisposeSignal
  <2>2. Markers /\ Batches /\ TypeIntact /\ Control
    OBVIOUS
  <2> HIDE DEF TypeIntact, Control, Markers
  <2> QED BY <2>1, <2>2, SignalMarkers
<1>26. ASSUME DisposeReturn PROVE Markers'
  BY <1>26 DEF DisposeReturn
<1>27. ASSUME NEW c \in Configs, Fresh(c), Reconfigure(c) PROVE Markers'
  <2>1. CASE materialConfigChange(cfg, c)
    <3>1. /\ Retire(engines, hst, Keys)
          /\ UNCHANGED <<closed, hkey, hcfg, pc, key, snap, chan>>
          /\ cfg' = c /\ replaced' = replaced \cup {Settings(cfg)}
      BY <1>27, <2>1 DEF Reconfigure
    <3>2. TypeIntact /\ Batches /\ Markers /\ Mirror(engines, hst)
      BY DEF Mirror
    <3>3. /\ Marked(engines', hst', closings')
          /\ \A k \in Keys : closings[k] # None => closings'[k] = closings[k]
      <4>1. engines \in [Keys -> Handles \cup {None}] /\ hst \in [Handles -> HandleStates]
        OBVIOUS
      <4> HIDE DEF TypeIntact, Control, Table, Markers, HandleStates
      <4> QED BY <3>1, <3>2, <4>1, MarkersMarked, RetireMarked
    <3>4. Settings(c) \notin replaced /\ Settings(c) # Settings(cfg)
      BY <1>27, <2>1 DEF Fresh
    <3>5. \A u \in Requests : pc'[u] \in {"recheck", "open", "insert"} => Settings(snap'[u]) # Settings(cfg')
      BY <3>1, <3>4
    <3> QED BY <3>1, <3>3, <3>4, <3>5 DEF Marked, Settings
  <2>2. CASE ~materialConfigChange(cfg, c)
    <3>1. /\ Settings(cfg') = Settings(cfg)
          /\ UNCHANGED <<replaced, closed, engines, closings, hst, hkey, pc, key, snap, chan>>
      BY <1>27, <2>2 DEF Reconfigure
    <3> QED BY <3>1 DEF Settings
  <2> QED BY <2>1, <2>2
<1>28. ASSUME UNCHANGED vars PROVE Markers'
  BY <1>28 DEF vars
<1> QED BY <1>1, <1>2, <1>3, <1>4, <1>5, <1>6, <1>7, <1>8, <1>9, <1>10, <1>11, <1>12, <1>13, <1>14, <1>15, <1>16, <1>17, <1>18, <1>19, <1>20, <1>21, <1>22, <1>23, <1>24, <1>25, <1>26, <1>27, <1>28 DEF FreshNext, Work, ForScopeRuns, PrewarmRuns, CloserRuns, DiscardRuns, DisposeRuns

-----------------------------------------------------------------------------
LEMMA InitIInv == Init => IInv
<1> SUFFICES ASSUME Init PROVE IInv
  OBVIOUS
<1> USE ThreadsAssumption, KeysAssumption, HandlesAssumption, ConfigsAssumption DEF Init
<1>1. TypeIntact
  <2>1. << >> \in Seq(Keys)
    OBVIOUS
  <2>2. pc \in [Threads -> RequestPCs \cup PrewarmPCs] /\ openMu \in Threads \cup {None}
    BY DEF RequestPCs, PrewarmPCs, Threads
  <2>3. /\ engines \in [Keys -> Handles \cup {None}] /\ closings \in [Keys -> Handles \cup {None}]
        /\ hst \in [Handles -> HandleStates]
        /\ hkey \in [Handles -> Keys \cup {PrewarmKey, None}] /\ hcfg \in [Handles -> Configs]
    BY DEF HandleStates
  <2>4. /\ key \in [Threads -> Keys \cup {PrewarmKey, None}] /\ snap \in [Threads -> Configs]
        /\ chan \in [Threads -> Handles \cup {None}] /\ new \in [Threads -> Handles \cup {None}]
    OBVIOUS
  <2>5. /\ cfg \in Configs /\ replaced \subseteq AllSettings /\ closed \in BOOLEAN
        /\ closers \subseteq SUBSET Handles /\ closeWg \in Int
        /\ dpc \in {"idle", "drain", "close", "wait", "done"} /\ dbatch \subseteq Handles
    <3>1. cfg \in Configs
      OBVIOUS
    <3>2. closers \subseteq SUBSET Handles /\ replaced \subseteq AllSettings /\ dbatch \subseteq Handles
      OBVIOUS
    <3>3. closed \in BOOLEAN
      OBVIOUS
    <3>4. closeWg \in Int
      OBVIOUS
    <3>5. dpc \in {"idle", "drain", "close", "wait", "done"}
      OBVIOUS
    <3> QED BY <3>1, <3>2, <3>3, <3>4, <3>5
  <2>6. order \in Seq(Keys)
    BY <2>1
  <2> HIDE DEF Init
  <2> QED BY <2>2, <2>3, <2>4, <2>5, <2>6 DEF TypeIntact
<1>2. Control
  BY DEF Control, Holding, RequestPCs, PrewarmPCs, Threads
<1>3. Table /\ Batches /\ Active = {}
  BY DEF Table, Batches, Active, Threads
<1>4. Disposal /\ WaitGroup
  BY <1>3, FS_EmptySet DEF Disposal, WaitGroup
<1> QED BY <1>1, <1>2, <1>3, <1>4 DEF IInv

LEMMA StepIInv == IInv /\ [Next]_vars => IInv'
BY TypeStep, ControlStep, TableStep, BatchesStep, DisposalStep, WaitGroupStep DEF IInv

LEMMA InvariantIInv == Spec => []IInv
BY InitIInv, StepIInv, PTL DEF Spec

(* The variables keep their types; in particular closeWg never goes below   *)
(* zero, which would panic.                                                 *)
THEOREM TypeCorrect == Spec => []TypeOK
<1>1. IInv => TypeOK
  <2> SUFFICES ASSUME IInv PROVE TypeOK
    OBVIOUS
  <2>1. IsFiniteSet(closers) /\ IsFiniteSet(Active)
    BY FiniteAssumption, FS_Subset DEF IInv, WaitGroup, Active
  <2>2. closeWg \in Nat
    BY <2>1, FS_CardinalityType DEF IInv, WaitGroup
  <2> QED BY <2>2 DEF IInv, TypeIntact, TypeOK
<1> QED BY <1>1, InvariantIInv, PTL

(* An engine in the table always has the material settings in force. *)
THEOREM SettingsAreCurrent == Spec => []CurrentSettings
<1>1. IInv => CurrentSettings
  BY DEF IInv, Table, CurrentSettings
<1> QED BY <1>1, InvariantIInv, PTL

(* Of all the engines opened for a scope at most one is in the table or     *)
(* about to be put there.                                                   *)
THEOREM MissesOpenOnce == Spec => []OneMissOneHandle
<1>1. IInv => OneMissOneHandle
  <2> SUFFICES ASSUME IInv, NEW g \in Handles, NEW h \in Handles,
                      hst[g] \in {"opened", "live"}, hst[h] \in {"opened", "live"}, hkey[g] = hkey[h]
               PROVE  g = h
    BY DEF OneMissOneHandle
  <2>1. CASE hst[g] = "live" /\ hst[h] = "live"
    BY <2>1 DEF IInv, Table
  <2>2. CASE hst[g] = "opened" /\ hst[h] = "opened"
    BY <2>2 DEF IInv, Control
  <2>3. ASSUME NEW a \in Handles, NEW b \in Handles, hst[a] = "opened", hst[b] = "live", hkey[a] = hkey[b]
        PROVE  FALSE
    <3>1. openMu \in Threads /\ new[openMu] = a
      BY <2>3 DEF IInv, Control, TypeIntact
    <3>2. pc[openMu] \in {"insert", "close"} /\ hkey[a] = key[openMu]
      BY <2>3, <3>1, HandlesAssumption DEF IInv, Control
    <3>3. hkey[b] \in Keys /\ engines[hkey[b]] = b
      BY <2>3 DEF IInv, Table
    <3>4. CASE openMu \in Requests
      BY <2>3, <3>2, <3>3, <3>4, HandlesAssumption DEF IInv, Control, Table, RequestPCs
    <3>5. CASE openMu \in Prewarmers
      BY <2>3, <3>2, <3>3, <3>5, KeysAssumption DEF IInv, Control, PrewarmPCs
    <3> QED BY <3>1, <3>4, <3>5 DEF Threads
  <2> QED BY <2>1, <2>2, <2>3
<1> QED BY <1>1, InvariantIInv, PTL

(* When DisposeAll has returned no engine that was ever in the table, and   *)
(* no prewarm, has its file open.                                           *)
THEOREM DisposeAllJoins == Spec => []DisposeJoins
<1>1. IInv => DisposeJoins
  <2> SUFFICES ASSUME IInv, dpc = "done", NEW h \in Handles
               PROVE  /\ hst[h] \notin {"live", "doomed", "closed"}
                      /\ hst[h] = "opened" => hkey[h] \in Keys
    BY DEF DisposeJoins
  <2>1. closers = {} /\ dbatch = {} /\ Active = {} /\ \A k \in Keys : engines[k] = None
    BY DEF IInv, Disposal
  <2>2. hst[h] \notin {"live", "doomed", "closed"}
    BY <2>1, HandlesAssumption DEF IInv, Table, Batches
  <2>3. ASSUME hst[h] = "opened" PROVE hkey[h] \in Keys
    <3>1. openMu \in Threads /\ new[openMu] = h
      BY <2>3 DEF IInv, Control, TypeIntact
    <3>2. pc[openMu] \in {"insert", "close"} /\ hkey[h] = key[openMu]
      BY <2>3, <3>1, HandlesAssumption DEF IInv, Control
    <3>3. openMu \notin Prewarmers
      BY <2>1, <3>2 DEF Active
    <3> QED BY <3>1, <3>2, <3>3 DEF IInv, Control, Threads
  <2> QED BY <2>2, <2>3
<1> QED BY <1>1, InvariantIInv, PTL

(* Once DisposeAll waits for closeWg nothing is added to it. *)
THEOREM NoLateAdd == Spec => NoAddWhileWaiting
<1>1. IInv /\ [Next]_vars => [(dpc \in {"wait", "done"}) => (closeWg' <= closeWg)]_vars
  <2> SUFFICES ASSUME IInv, [Next]_vars, dpc \in {"wait", "done"}
               PROVE  closeWg' <= closeWg
    BY DEF vars
  <2>1. closeWg \in Int /\ closed /\ \A k \in Keys : engines[k] = None
    BY DEF IInv, TypeIntact, Disposal
  <2>2. ASSUME NEW t \in Requests, Call(t) \/ LockOpenMu(t) \/ ForScopeRuns(t) PROVE closeWg' = closeWg
    <3>1. CASE Insert(t)
      BY <2>1, <3>1 DEF Insert, Publishable
    <3> QED BY <2>2, <3>1 DEF Call, LockOpenMu, ForScopeRuns, LookupHit, LookupMiss, NoPendingClose,
                ReadPendingClose, ReceivePendingClose, RecheckHit, RecheckMiss, OpenEngine, OpenFails,
                Discard, closeVars
  <2>3. ASSUME NEW t \in Prewarmers, PrewarmAdd(t) \/ PrewarmLock(t) \/ PrewarmRuns(t) PROVE closeWg' <= closeWg
    BY <2>1, <2>3 DEF PrewarmAdd, PrewarmLock, PrewarmRuns, PrewarmReread, PrewarmOpen, PrewarmExit, closeVars
  <2>4. ASSUME NEW c \in Configs, Reconfigure(c) PROVE closeWg' = closeWg
    <3>1. Retired(engines, Keys) = {}
      BY <2>1 DEF Retired
    <3> QED BY <2>4, <3>1 DEF Reconfigure, Detach, closeVars
  <2>5. CASE CloserRuns \/ DiscardRuns \/ DisposeBegin \/ DisposeRuns \/ UNCHANGED vars
    <3>1. CASE CloserRuns
      <4>1. PICK b \in closers : CloseNext(b) \/ CloserFinish(b)
        BY <3>1 DEF CloserRuns
      <4>2. CASE CloseNext(b)
        BY <2>1, <4>2 DEF CloseNext, closeVars
      <4>3. CASE CloserFinish(b)
        BY <2>1, <4>3 DEF CloserFinish
      <4> QED BY <4>1, <4>2, <4>3
    <3>2. CASE DiscardRuns
      BY <2>1, <3>2 DEF DiscardRuns, CloseDiscarded, closeVars
    <3>3. CASE DisposeBegin \/ DisposeRuns
      BY <2>1, <3>3 DEF DisposeBegin, DisposeRuns, CloseNext, DisposeDrain, DisposeSignal, DisposeReturn, closeVars
    <3>4. CASE UNCHANGED vars
      BY <2>1, <3>4 DEF vars, closeVars
    <3> QED BY <2>5, <3>1, <3>2, <3>3, <3>4
  <2> QED BY <2>1, <2>2, <2>3, <2>4, <2>5 DEF Next, Work
<1> QED BY <1>1, InvariantIInv, PTL DEF Spec, NoAddWhileWaiting
-----------------------------------------------------------------------------
(* order lists the keys of the table, each once, within the limit. *)
OrderExact ==
    /\ Distinct(order)
    /\ InOrder(order) = {k \in Keys : engines[k] # None}
    /\ Len(order) <= MaxEngines

(* A hit moves its key to the recent end. *)
LEMMA HitOrder ==
    ASSUME IInv, OrderExact, NEW t \in Requests, LookupHit(t)
    PROVE  OrderExact'
<1> DEFINE k == key[t]
           w == Without(order, k)
<1>1. /\ k \in Keys /\ engines[k] # None
      /\ engines' = engines /\ order' = Append(w, k)
  BY ThreadsAssumption DEF LookupHit, Return, Goto, IInv, Control, Threads
<1>2. order \in Seq(Keys) /\ Distinct(order) /\ k \in InOrder(order) /\ Len(order) \in Nat
  BY <1>1 DEF IInv, TypeIntact, OrderExact
<1>3. /\ w \in Seq(Keys) /\ Distinct(w) /\ InOrder(w) = InOrder(order) \ {k}
      /\ Len(w) = Len(order) - 1
  BY <1>2, WithoutIs
<1> HIDE DEF w, k
<1>4. /\ Distinct(order') /\ InOrder(order') = InOrder(w) \cup {k} /\ Len(order') = Len(w) + 1
  BY <1>1, <1>3, AppendIs
<1>5. InOrder(order') = InOrder(order)
  BY <1>2, <1>3, <1>4
<1> QED BY <1>1, <1>2, <1>3, <1>4, <1>5, MaxEnginesAssumption DEF OrderExact

(* An insert appends its key, which was not in the table, and takes the     *)
(* evicted ones out of both.                                                *)
LEMMA InsertOrder ==
    ASSUME IInv, OrderExact, NEW t \in Requests, Insert(t)
    PROVE  OrderExact'
<1> DEFINE k       == key[t]
           order1  == Append(order, k)
           excess  == IF Len(order1) > MaxEngines THEN Len(order1) - MaxEngines ELSE 0
           evicted == {order1[i] : i \in 1..excess}
<1>1. /\ k \in Keys /\ new[t] \in Handles /\ engines[k] = None
      /\ order \in Seq(Keys) /\ engines \in [Keys -> Handles \cup {None}]
  BY InsertRetires DEF IInv, TypeIntact
<1>2. /\ order1 \in Seq(Keys) /\ Distinct(order1) /\ InOrder(order1) = InOrder(order) \cup {k}
  BY <1>1, AppendIs DEF OrderExact
<1>3. Len(order1) \in Nat /\ excess \in 0..Len(order1) /\ Len(order1) - excess <= MaxEngines
  BY <1>2, MaxEnginesAssumption
<1> HIDE DEF order1, excess, evicted, k
<1>4. /\ order' = SubSeq(order1, excess + 1, Len(order1))
      /\ Retire([engines EXCEPT ![k] = new[t]], [hst EXCEPT ![new[t]] = "live"], evicted)
  BY DEF Insert, order1, excess, evicted, k
<1>5. /\ Distinct(order') /\ InOrder(order') = InOrder(order1) \ evicted
      /\ Len(order') = Len(order1) - excess
  BY <1>2, <1>3, <1>4, SuffixIs DEF evicted
<1>6. InOrder(order') = {j \in Keys : engines'[j] # None}
  <2>1. \A j \in Keys : engines'[j] = IF j \in evicted THEN None ELSE IF j = k THEN new[t] ELSE engines[j]
    BY <1>1, <1>4 DEF Retire
  <2>2. InOrder(order') = ({j \in Keys : engines[j] # None} \cup {k}) \ evicted
    BY <1>2, <1>5 DEF OrderExact
  <2> QED BY <1>1, <2>1, <2>2, HandlesAssumption
<1> QED BY <1>3, <1>5, <1>6 DEF OrderExact

(* A drain empties both. *)
LEMMA DrainOrder ==
    ASSUME NEW states, order' = << >>, Retire(engines, states, Keys)
    PROVE  OrderExact'
<1>1. {k \in Keys : engines'[k] # None} = {}
  BY DEF Retire
<1> QED BY <1>1, EmptyIs, MaxEnginesAssumption DEF OrderExact

LEMMA OrderStep == IInv /\ OrderExact /\ [Next]_vars => OrderExact'
<1> SUFFICES ASSUME IInv, OrderExact, [Next]_vars PROVE OrderExact'
  OBVIOUS
<1>1. ASSUME order' = order, engines' = engines PROVE OrderExact'
  BY <1>1 DEF OrderExact
<1>2. ASSUME NEW t \in Requests, Call(t) \/ LockOpenMu(t) \/ ForScopeRuns(t) PROVE OrderExact'
  <2>1. CASE LookupHit(t)
    BY <2>1, HitOrder
  <2>2. CASE Insert(t)
    BY <2>2, InsertOrder
  <2> QED BY <1>1, <1>2, <2>1, <2>2 DEF Call, LockOpenMu, ForScopeRuns, LookupMiss, NoPendingClose,
              ReadPendingClose, ReceivePendingClose, RecheckHit, RecheckMiss, OpenEngine, OpenFails,
              Discard, tableVars
<1>3. ASSUME NEW t \in Prewarmers, PrewarmAdd(t) \/ PrewarmLock(t) \/ PrewarmRuns(t) PROVE OrderExact'
  BY <1>1, <1>3 DEF PrewarmAdd, PrewarmLock, PrewarmRuns, PrewarmReread, PrewarmOpen, PrewarmExit, tableVars
<1>4. ASSUME NEW c \in Configs, Reconfigure(c) PROVE OrderExact'
  BY <1>1, <1>4, DrainOrder DEF Reconfigure
<1>5. ASSUME NEW b, CloseNext(b) \/ CloserFinish(b) PROVE OrderExact'
  BY <1>1, <1>5 DEF CloseNext, CloserFinish, SignalClosed, tableVars
<1>6. CASE DisposeRuns
  BY <1>1, <1>5, <1>6, DrainOrder DEF DisposeRuns, DisposeDrain, DisposeSignal, SignalClosed, DisposeReturn, tableVars
<1>7. CASE DiscardRuns \/ DisposeBegin \/ UNCHANGED vars
  BY <1>1, <1>7 DEF DiscardRuns, CloseDiscarded, DisposeBegin, tableVars, vars
<1> QED BY <1>2, <1>3, <1>4, <1>5, <1>6, <1>7 DEF Next, Work, CloserRuns

LEMMA InitOrder == Init => OrderExact
BY EmptyIs, MaxEnginesAssumption DEF Init, OrderExact

(* The table and the live handles are each other's mirror, and the LRU      *)
(* order counts every open scope once, never more than maxEngines.          *)
THEOREM TableIsExact == Spec => []TableExact
<1>1. IInv /\ OrderExact => TableExact
  <2> SUFFICES ASSUME IInv, OrderExact PROVE TableExact
    OBVIOUS
  <2>1. ASSUME NEW h \in Handles
        PROVE  hst[h] = "live" <=> \E k \in Keys : engines[k] = h /\ hkey[h] = k
    BY HandlesAssumption DEF IInv, Table
  <2>2. ASSUME NEW k \in Keys
        PROVE  Cardinality({i \in 1..Len(order) : order[i] = k}) = IF engines[k] = None THEN 0 ELSE 1
    BY CountIs DEF IInv, TypeIntact, OrderExact
  <2> QED BY <2>1, <2>2 DEF TableExact, OrderExact
<1>2. Spec => [](IInv /\ OrderExact)
  BY InitIInv, StepIInv, InitOrder, OrderStep, PTL DEF Spec
<1> QED BY <1>1, <1>2, PTL

-----------------------------------------------------------------------------
(***************************************************************************)
(* The engine table implements ScopeLease as long as no reconfiguration    *)
(* restores material settings that an earlier one replaced (FreshSpec).    *)
(* The invariant behind it is FreshIInv: the markers in closings are       *)
(* exactly the retired handles, and none stands beside an engine or before *)
(* an insert.                                                              *)
(***************************************************************************)

LEMMA InitFresh == Init => FreshIInv
<1> SUFFICES ASSUME Init PROVE Markers
  BY InitIInv DEF FreshIInv
<1>1. /\ \A h \in Handles : hst[h] = "free"
      /\ \A k \in Keys : engines[k] = None /\ closings[k] = None
      /\ \A t \in Requests : pc[t] = "idle" /\ chan[t] = None
      /\ replaced = {}
  BY DEF Init, Threads
<1> QED BY <1>1 DEF Markers

LEMMA FreshStep == [FreshNext]_vars => [Next]_vars
BY DEF FreshNext, Next

LEMMA StepFresh == FreshIInv /\ [FreshNext]_vars => FreshIInv'
BY FreshStep, StepIInv, MarkersStep DEF FreshIInv, IInv

(* The markers stay exact under every behaviour of a store that is never    *)
(* reconfigured back.                                                       *)
THEOREM FreshInvariant == FreshSpec => []FreshIInv
BY InitFresh, StepFresh, PTL DEF FreshSpec

(* No engine is published while a retired engine of its scope is closing.   *)
THEOREM ClosedBeforePublished == FreshSpec => []PublishedAfterClose
<1>1. FreshIInv => PublishedAfterClose
  <2> SUFFICES ASSUME FreshIInv, NEW g \in Handles, NEW h \in Handles,
                      hst[g] = "live", hst[h] = "doomed", hkey[g] = hkey[h]
               PROVE  FALSE
    BY DEF PublishedAfterClose
  <2>1. hkey[g] \in Keys /\ engines[hkey[g]] = g
    BY DEF FreshIInv, IInv, Table
  <2>2. closings[hkey[g]] = h
    BY DEF FreshIInv, Markers
  <2> QED BY <2>1, <2>2, HandlesAssumption DEF FreshIInv, Markers
<1> QED BY <1>1, FreshInvariant, PTL

(* A request waits only for channels that some closeEngines run will close. *)
THEOREM EveryWaiterIsSignalled == FreshSpec => []WaitersAreSignalled
<1>1. FreshIInv => WaitersAreSignalled
  <2> SUFFICES ASSUME FreshIInv, NEW t \in Requests, chan[t] # None
               PROVE  Closer(chan[t]) /\ closings[key[t]] = chan[t]
    BY DEF WaitersAreSignalled
  <2>1. closings[key[t]] = chan[t] /\ chan[t] \in Handles /\ key[t] \in Keys
    BY DEF FreshIInv, Markers, IInv, TypeIntact, Control, Threads
  <2>2. hst[chan[t]] \in {"doomed", "closed"}
    BY <2>1 DEF FreshIInv, Markers
  <2>3. chan[t] \in dbatch \/ \E b \in closers : chan[t] \in b
    BY <2>1, <2>2 DEF FreshIInv, IInv, Batches
  <2> QED BY <2>1, <2>3 DEF Closer, FreshIInv, IInv, Disposal
<1> QED BY <1>1, FreshInvariant, PTL

(* The promises of ScopeLease hold of the table: at most one handle reads a *)
(* scope's file, and none once DisposeAll has returned.                     *)
THEOREM LeasesAreSafe == FreshSpec => []LeaseSafe
<1>1. FreshIInv => LeaseSafe
  <2> SUFFICES ASSUME FreshIInv PROVE LeaseSafe
    OBVIOUS
  <2>1. \A k \in Keys : engines[k] = None \/ closings[k] = None
    BY DEF FreshIInv, Markers
  <2>2. ASSUME NEW h \in Handles, hst[h] \in {"live", "doomed"}
        PROVE  \E k \in Keys : h \in {engines[k], closings[k]}
    <3>1. CASE hst[h] = "live"
      BY <3>1 DEF FreshIInv, IInv, Table
    <3>2. CASE hst[h] = "doomed"
      <4>1. hkey[h] \in Keys
        BY <3>2 DEF FreshIInv, IInv, Batches
      <4>2. closings[hkey[h]] = h
        BY <3>2 DEF FreshIInv, Markers
      <4> QED BY <4>1, <4>2
    <3> QED BY <2>2, <3>1, <3>2
  <2>3. ASSUME dpc = "done", NEW h \in Handles PROVE hst[h] \notin {"live", "doomed"}
    <3>1. closers = {} /\ dbatch = {} /\ \A k \in Keys : engines[k] = None
      BY <2>3 DEF FreshIInv, IInv, Disposal
    <3> QED BY <3>1, HandlesAssumption DEF FreshIInv, IInv, Table, Batches
  <2>4. dpc \in {"idle", "drain", "close", "wait", "done"}
    BY DEF FreshIInv, IInv, TypeIntact
  <2> QED BY <2>1, <2>2, <2>3, <2>4 DEF LeaseSafe, Lease!LeaseSafe
<1> QED BY <1>1, FreshInvariant, PTL

-----------------------------------------------------------------------------
(* Every step of the store maps to a step of ScopeLease or leaves the lease *)
(* as it is.  Most are of the second kind.                                  *)
Reading(states) == {h \in Handles : states[h] \in {"live", "doomed"}}

LEMMA SameLease ==
    ASSUME UNCHANGED <<engines, closings, dpc>>,
           \A h \in Handles : hst'[h] \in {"live", "doomed"} <=> hst[h] \in {"live", "doomed"}
    PROVE  UNCHANGED Lease!leaseVars
BY DEF Lease!leaseVars

(* Retiring keys revokes the leases of those that are in the table. *)
LEMMA RetireRevokes ==
    ASSUME NEW table \in [Keys -> Handles \cup {None}], NEW states, NEW K \in SUBSET Keys,
           HandlesAssumption, Marked(table, states, closings), Retire(table, states, K)
    PROVE  Lease!Revoke(table, K \cap Lease!Leased(table))
<1>1. \A k \in K \cap Lease!Leased(table) : closings[k] = None
  BY DEF Marked, Lease!Leased
<1>2. engines' = [k \in Keys |-> IF k \in K \cap Lease!Leased(table) THEN None ELSE table[k]]
  BY DEF Retire, Lease!Leased
<1>3. closings' = [k \in Keys |-> IF k \in K \cap Lease!Leased(table) THEN table[k] ELSE closings[k]]
  BY DEF Retire, Lease!Leased
<1>4. K \cap Lease!Leased(table) \subseteq Lease!Leased(table)
  OBVIOUS
<1> QED BY <1>1, <1>2, <1>3, <1>4 DEF Lease!Revoke

(* Retired handles keep their files open. *)
LEMMA RetireReads ==
    ASSUME NEW table \in [Keys -> Handles \cup {None}], NEW states \in [Handles -> HandleStates],
           NEW K \in SUBSET Keys, HandlesAssumption, Mirror(table, states), Retire(table, states, K)
    PROVE  Reading(hst') = Reading(states)
<1>1. \A h \in Retired(table, K) : states[h] = "live"
  BY DEF Mirror, Retired
<1>2. \A h \in Handles : hst'[h] = IF h \in Retired(table, K) THEN "doomed" ELSE states[h]
  BY DEF Retire
<1> QED BY <1>1, <1>2 DEF Reading

(* Publishing a handle grants it the scope and revokes the evicted leases. *)
LEMMA InsertGrants ==
    ASSUME FreshIInv, NEW t \in Requests, Insert(t)
    PROVE  \E k \in Keys, h \in Handles, K \in SUBSET Keys : Lease!Grant(k, h, K)
<1>1. TypeIntact /\ Control /\ Table /\ Batches /\ Disposal /\ Markers
  BY DEF FreshIInv, IInv
<1>2. /\ key[t] \in Keys /\ new[t] \in Handles /\ hst[new[t]] = "opened" /\ engines[key[t]] = None
      /\ Published(t) \in [Keys -> Handles \cup {None}]
      /\ PublishedStates(t) \in [Handles -> HandleStates]
      /\ Mirror(Published(t), PublishedStates(t))
  BY <1>1, InsertRetires
<1>3. PICK K \in SUBSET Keys : Retire(Published(t), PublishedStates(t), K)
  BY <1>1, InsertRetires
<1>4. closings[key[t]] = None /\ dpc = "idle" /\ dpc' = dpc
  <2>1. pc[t] = "insert" /\ Publishable(t) /\ dpc' = dpc
    BY DEF Insert, Return, Goto, dispVars
  <2>2. ~closed
    BY <2>1 DEF Publishable
  <2> QED BY <1>1, <2>1, <2>2 DEF Markers, Disposal
<1>5. Marked(Published(t), PublishedStates(t), closings)
  <2>1. Marked(engines, hst, closings)
    BY <1>1, MarkersMarked
  <2> QED BY <1>1, <1>2, <1>4, <2>1, HandlesAssumption DEF Marked, Published, PublishedStates, TypeIntact
<1>6. Lease!Revoke(Published(t), K \cap Lease!Leased(Published(t)))
  BY <1>2, <1>3, <1>5, RetireRevokes, HandlesAssumption
<1>7. Reading(hst') = Reading(hst) \cup {new[t]} /\ new[t] \notin Reading(hst)
  <2>1. Reading(hst') = Reading(PublishedStates(t))
    BY <1>2, <1>3, RetireReads, HandlesAssumption
  <2>2. Reading(PublishedStates(t)) = Reading(hst) \cup {new[t]}
    BY <1>1, <1>2 DEF Reading, PublishedStates, TypeIntact
  <2> QED BY <1>2, <2>1, <2>2 DEF Reading
<1>8. PICK k \in Keys, h \in Handles, lost \in SUBSET Keys :
           k = key[t] /\ h = new[t] /\ lost = K \cap Lease!Leased(Published(t))
  BY <1>2
<1>9. Lease!Grant(k, h, lost)
  BY <1>2, <1>4, <1>6, <1>7, <1>8 DEF Lease!Grant, Published, Reading
<1> QED BY <1>9

(* Draining the table revokes every lease. *)
LEMMA DrainRevokes ==
    ASSUME FreshIInv, Retire(engines, hst, Keys),
           \/ dpc' = dpc
           \/ dpc = "drain" /\ dpc' = "close"
    PROVE  Lease!RevokeAll
<1>1. TypeIntact /\ Table /\ Batches /\ Markers
  BY DEF FreshIInv, IInv
<1>2. /\ engines \in [Keys -> Handles \cup {None}] /\ hst \in [Handles -> HandleStates]
      /\ Mirror(engines, hst) /\ Marked(engines, hst, closings)
  BY <1>1, MarkersMarked DEF TypeIntact, Table, Mirror
<1>3. Lease!Revoke(engines, Keys \cap Lease!Leased(engines))
  BY <1>2, RetireRevokes, HandlesAssumption
<1>4. Keys \cap Lease!Leased(engines) = Lease!Leased(engines)
  BY DEF Lease!Leased
<1>5. Reading(hst') = Reading(hst)
  BY <1>2, RetireReads, HandlesAssumption
<1> QED BY <1>3, <1>4, <1>5 DEF Lease!RevokeAll, Reading

(* A finished closeEngines run ends the leases of its handles. *)
LEMMA SignalEnds ==
    ASSUME FreshIInv, NEW b \in SUBSET Handles, SignalClosed(b),
           \/ dpc' = dpc
           \/ dpc = "close" /\ dpc' = "wait"
    PROVE  \E K \in SUBSET Keys : Lease!End(K)
<1> DEFINE ks == {hkey[h] : h \in b}
<1>1. \A h \in b : hst[h] = "closed" /\ hkey[h] \in Keys /\ closings[hkey[h]] = h
  BY DEF SignalClosed, Finished, FreshIInv, IInv, Batches, Markers
<1>2. ks \in SUBSET Keys
  BY <1>1
<1>3. \A k \in ks : closings[k] # None /\ closings[k] \notin Reading(hst)
  BY <1>1, HandlesAssumption DEF Reading
<1>4. Reading(hst') = Reading(hst)
  BY <1>1 DEF SignalClosed, Freed, Reading
<1>5. closings' = [k \in Keys |-> IF k \in ks THEN None ELSE closings[k]] /\ engines' = engines
  BY DEF SignalClosed
<1>6. Lease!End(ks)
  BY <1>3, <1>4, <1>5 DEF Lease!End, Reading
<1> QED BY <1>2, <1>6

(* A closing handle ends its reading. *)
LEMMA CloseCloses ==
    ASSUME FreshIInv, NEW b \in SUBSET Handles, CloseNext(b)
    PROVE  \E k \in Keys : Lease!Close(k)
<1>1. PICK h \in b : hst[h] = "doomed" /\ hst' = [hst EXCEPT ![h] = "closed"]
  BY DEF CloseNext
<1>2. hkey[h] \in Keys /\ closings[hkey[h]] = h
  BY <1>1 DEF FreshIInv, IInv, Batches, Markers
<1>3. h \in Reading(hst) /\ Reading(hst') = Reading(hst) \ {h}
  BY <1>1 DEF Reading, FreshIInv, IInv, TypeIntact
<1>4. UNCHANGED <<engines, closings, dpc>>
  BY DEF CloseNext, tableVars, dispVars
<1>5. PICK k \in Keys : k = hkey[h]
  BY <1>2
<1>6. Lease!Close(k)
  BY <1>2, <1>3, <1>4, <1>5 DEF Lease!Close, Reading
<1> QED BY <1>6

(* Every step, one by one. *)
LEMMA LeaseStep ==
    ASSUME FreshIInv, [FreshNext]_vars
    PROVE  [Lease!LeaseNext]_(Lease!leaseVars)
<1> DEFINE Stutter == UNCHANGED Lease!leaseVars
           Step    == Lease!LeaseNext \/ Stutter
<1> USE DEF tableVars, handleVars, dispVars
<1>1. ASSUME NEW t \in Requests, Call(t) \/ LockOpenMu(t) PROVE Stutter
  BY <1>1, SameLease DEF Call, LockOpenMu
<1>2. ASSUME NEW t \in Requests, LookupHit(t) \/ LookupMiss(t) \/ NoPendingClose(t) \/ ReadPendingClose(t) PROVE Stutter
  BY <1>2, SameLease DEF LookupHit, LookupMiss, NoPendingClose, ReadPendingClose
<1>3. ASSUME NEW t \in Requests, ReceivePendingClose(t) \/ RecheckHit(t) \/ RecheckMiss(t) \/ OpenFails(t) PROVE Stutter
  BY <1>3, SameLease DEF ReceivePendingClose, RecheckHit, RecheckMiss, OpenFails
<1>4. ASSUME NEW t \in Threads, Opened(t), UNCHANGED <<engines, closings, dpc>> PROVE Stutter
  <2>1. PICK h \in Handles : hst[h] = "free" /\ hst' = [hst EXCEPT ![h] = "opened"]
    BY <1>4 DEF Opened
  <2>2. hst \in [Handles -> HandleStates]
    BY DEF FreshIInv, IInv, TypeIntact
  <2> QED BY <1>4, <2>1, <2>2, SameLease
<1>5. ASSUME NEW t \in Requests, OpenEngine(t) PROVE Stutter
  BY <1>4, <1>5 DEF OpenEngine, Threads
<1>6. ASSUME NEW t \in Requests, Discard(t) PROVE Stutter
  <2>1. new[t] \in Handles /\ hst[new[t]] = "opened"
    BY <1>6 DEF Discard, Return, Goto, FreshIInv, IInv, Control, Threads
  <2>2. hst \in [Handles -> HandleStates] /\ hst' = [hst EXCEPT ![new[t]] = "discarded"]
    BY <1>6 DEF Discard, FreshIInv, IInv, TypeIntact
  <2>3. UNCHANGED <<engines, closings, dpc>>
    BY <1>6 DEF Discard
  <2> QED BY <2>1, <2>2, <2>3, SameLease
<1>7. ASSUME NEW t \in Requests, Insert(t) PROVE Step
  BY <1>7, InsertGrants DEF Lease!LeaseNext
<1>8. ASSUME NEW t \in Prewarmers, PrewarmAdd(t) \/ PrewarmLock(t) \/ PrewarmReread(t) PROVE Stutter
  BY <1>8, SameLease DEF PrewarmAdd, PrewarmLock, PrewarmReread
<1>9. ASSUME NEW t \in Prewarmers, PrewarmOpen(t) PROVE Stutter
  BY <1>4, <1>9 DEF PrewarmOpen, Threads
<1>10. ASSUME NEW t \in Prewarmers, PrewarmExit(t) PROVE Stutter
  <2>1. UNCHANGED <<engines, closings, dpc>>
    BY <1>10 DEF PrewarmExit
  <2>2. UNCHANGED hst \/ (pc[t] = "close" /\ Freed({new[t]}))
    BY <1>10 DEF PrewarmExit, Return, Goto
  <2>3. pc[t] = "close" => new[t] \in Handles /\ hst[new[t]] = "opened"
    BY DEF FreshIInv, IInv, Control, Threads
  <2>4. \A h \in Handles : hst'[h] \in {"live", "doomed"} <=> hst[h] \in {"live", "doomed"}
    BY <2>2, <2>3 DEF Freed
  <2> QED BY <2>1, <2>4, SameLease
<1>11. ASSUME NEW b \in closers, CloseNext(b) PROVE Step
  BY <1>11, CloseCloses DEF Lease!LeaseNext, FreshIInv, IInv, TypeIntact
<1>12. ASSUME NEW b \in closers, CloserFinish(b) PROVE Step
  <2>1. b \in SUBSET Handles /\ SignalClosed(b) /\ dpc' = dpc
    BY <1>12 DEF CloserFinish, FreshIInv, IInv, TypeIntact
  <2> QED BY <2>1, SignalEnds DEF Lease!LeaseNext
<1>13. ASSUME NEW h \in Handles, CloseDiscarded(h) PROVE Stutter
  <2>1. UNCHANGED <<engines, closings, dpc>> /\ hst[h] = "discarded" /\ Freed({h})
    BY <1>13 DEF CloseDiscarded
  <2> QED BY <2>1, SameLease DEF Freed
<1>14. ASSUME DisposeBegin PROVE Stutter
  <2>1. dpc = "idle" /\ dpc' = "drain" /\ UNCHANGED <<engines, closings, hst>>
    BY <1>14 DEF DisposeBegin
  <2> QED BY <2>1 DEF Lease!leaseVars
<1>15. ASSUME DisposeDrain PROVE Step
  BY <1>15, DrainRevokes DEF DisposeDrain, Lease!LeaseNext
<1>16. ASSUME dpc = "close", CloseNext(dbatch) PROVE Step
  BY <1>16, CloseCloses DEF Lease!LeaseNext, FreshIInv, IInv, TypeIntact
<1>17. ASSUME DisposeSignal PROVE Step
  <2>1. dbatch \in SUBSET Handles /\ SignalClosed(dbatch) /\ dpc = "close" /\ dpc' = "wait"
    BY <1>17 DEF DisposeSignal, FreshIInv, IInv, TypeIntact
  <2> QED BY <2>1, SignalEnds DEF Lease!LeaseNext
<1>18. ASSUME DisposeReturn PROVE Step
  <2>1. dpc = "wait" /\ dpc' = "done" /\ closeWg = 0 /\ UNCHANGED <<engines, closings, hst>>
    BY <1>18 DEF DisposeReturn
  <2>2. IsFiniteSet(closers) /\ IsFiniteSet(Active) /\ closeWg = Cardinality(closers) + Cardinality(Active)
    BY FiniteAssumption, FS_Subset DEF FreshIInv, IInv, WaitGroup, Active
  <2>3. Cardinality(closers) = 0
    BY <2>1, <2>2, FS_CardinalityType
  <2>4. closers = {} /\ dbatch = {} /\ \A k \in Keys : engines[k] = None
    BY <2>1, <2>2, <2>3, FS_EmptySet DEF FreshIInv, IInv, Disposal
  <2>5. \A h \in Handles : hst[h] \notin {"live", "doomed"}
    BY <2>4, HandlesAssumption DEF FreshIInv, IInv, Table, Batches
  <2>6. Lease!Stopped
    BY <2>1, <2>5 DEF Lease!Stopped
  <2> QED BY <2>6 DEF Lease!LeaseNext
<1>19. ASSUME NEW c \in Configs, Reconfigure(c) PROVE Step
  <2>1. CASE materialConfigChange(cfg, c)
    BY <1>19, <2>1, DrainRevokes DEF Reconfigure, Lease!LeaseNext
  <2>2. CASE ~materialConfigChange(cfg, c)
    BY <1>19, <2>2, SameLease DEF Reconfigure
  <2> QED BY <2>1, <2>2
<1>20. ASSUME UNCHANGED vars PROVE Stutter
  BY <1>20, SameLease DEF vars
<1> HIDE DEF Stutter
<1>21. Step
  BY <1>1, <1>2, <1>3, <1>5, <1>6, <1>7, <1>8, <1>9, <1>10, <1>11, <1>12, <1>13, <1>14, <1>15, <1>16, <1>17, <1>18, <1>19, <1>20
     DEF FreshNext, Work, ForScopeRuns, PrewarmRuns, CloserRuns, DiscardRuns, DisposeRuns
<1> QED BY <1>21 DEF Stutter

LEMMA LeaseStart == Init => Lease!LeaseInit
<1> SUFFICES ASSUME Init PROVE Lease!LeaseInit
  OBVIOUS
<1>1. \A h \in Handles : hst[h] = "free"
  BY DEF Init
<1> QED BY <1>1 DEF Init, Lease!LeaseInit

(* The store implements the lease of scopes. *)
THEOREM StoreImplementsLease == FreshSpec => ImplementsLease
BY FreshInvariant, LeaseStart, LeaseStep, PTL DEF FreshSpec, ImplementsLease, Lease!LeaseSpec
=============================================================================
