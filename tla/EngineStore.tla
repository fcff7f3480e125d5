---------------------------- MODULE EngineStore ----------------------------
(***************************************************************************)
(* The engine table of plugin/store.go: at most MaxEngines open engines,   *)
(* one per scope key, opened lazily by ForScope, retired by LRU eviction,  *)
(* by a material Reconfigure or by DisposeAll, and closed by goroutines    *)
(* detached from the request path.                                         *)
(*                                                                         *)
(* A section between s.mu.Lock and s.mu.Unlock is one step.  openMu is a   *)
(* variable, because a ForScope miss holds it across many steps: waiting   *)
(* for a pending close, opening the file, inserting.                       *)
(*                                                                         *)
(* A Handle names one Engine value returned by openEngine; its name is     *)
(* free for another engine once it is closed and nothing refers to it.     *)
(* The done-channel the code makes when it retires an engine is named by   *)
(* that engine's handle: closings[k] = h says that s.closings[k] is the    *)
(* channel made when h was retired.  Closing a channel releases its        *)
(* receivers: chan[t] becomes None.                                        *)
(***************************************************************************)
EXTENDS Recency, FiniteSets

CONSTANTS
    Requests,    \* goroutines of interceptors calling ForScope
    Prewarmers,  \* goroutines started by configure to run Prewarm
    Keys,        \* scope keys requests ask for
    PrewarmKey,  \* the throwaway store ".prewarm", never a scope key
    Handles,     \* engine handles; openEngine fails when none is left
    Configs,     \* PluginConfig values: dir, knobs (the other material
                 \* fields), auto (auto_consolidate: not material)
    InitConfig,  \* the configuration of NewStore
    MaxEngines,  \* maxEngines
    None

Threads == Requests \cup Prewarmers

ASSUME ThreadsAssumption ==
    /\ Requests \cap Prewarmers = {}
    /\ None \notin Threads
ASSUME KeysAssumption == PrewarmKey \notin Keys /\ None \notin Keys
ASSUME HandlesAssumption == None \notin Handles
ASSUME FiniteAssumption == IsFiniteSet(Handles) /\ IsFiniteSet(Prewarmers)
ASSUME ConfigsAssumption ==
    /\ InitConfig \in Configs
    /\ \A c \in Configs : {"dir", "knobs"} \subseteq DOMAIN c
ASSUME MaxEnginesAssumption == MaxEngines \in Nat \ {0}

VARIABLES
    cfg,        \* s.cfg
    replaced,   \* history: material settings some Reconfigure has replaced
    closed,     \* s.closed
    openMu,     \* the thread holding s.openMu, or None
    engines,    \* s.engines: key -> handle, None when absent
    order,      \* s.order: LRU order, oldest first
    closings,   \* s.closings: key -> channel (named by its handle)
    closers,    \* detached closeEngines runs, each the set of handles it owns
    closeWg,    \* counter of s.closeWg
    hst,        \* handle -> where it is in its life
    hkey,       \* handle -> scope key it was opened for
    hcfg,       \* handle -> configuration it was opened with
    pc,         \* thread -> next step
    key,        \* request -> key it asks ForScope for
    snap,       \* thread -> its snapshot of s.cfg
    chan,       \* request -> channel it is receiving from, None once closed
    new,        \* thread -> handle it has opened and not published
    dpc,        \* next step of DisposeAll
    dbatch      \* handles DisposeAll drained and closes itself

confVars   == <<cfg, replaced, closed>>
tableVars  == <<engines, order, closings>>
closeVars  == <<closers, closeWg>>
handleVars == <<hst, hkey, hcfg>>
threadVars == <<pc, key, snap, chan, new>>
dispVars   == <<dpc, dbatch>>
vars == <<confVars, openMu, tableVars, closeVars, handleVars, threadVars, dispVars>>

-----------------------------------------------------------------------------
(* The fields materialConfigChange compares.  Two settings with the same   *)
(* dir and knobs need no reopening.                                        *)
Settings(c) == <<c.dir, c.knobs>>

materialConfigChange(old, c) == Settings(old) # Settings(c)

AllSettings == {Settings(c) : c \in Configs}

HandleStates ==
    {"free",      \* not opened yet
     "opened",    \* returned by openEngine, not in the table
     "live",      \* in s.engines
     "doomed",    \* drained or evicted, close pending, marker in s.closings
     "discarded", \* opened but never published, closed by a bare goroutine
     "closed"}    \* closed, its closeEngines run not finished

RequestPCs == {"idle", "lookup", "lock", "pend", "recv", "recheck", "open", "insert"}
PrewarmPCs == {"start", "add", "reread", "open", "close", "done"}

(* The steps at which a thread holds openMu. *)
Holding == {"pend", "recv", "recheck", "reread", "open", "insert", "close"}

Open(h) == hst[h] \in {"opened", "live", "doomed", "discarded"}

(* The file a handle has open: dataDir/key.sqlite. *)
FileOf(h) == <<hcfg[h].dir, hkey[h]>>

TypeOK ==
    /\ cfg \in Configs
    /\ replaced \subseteq AllSettings
    /\ closed \in BOOLEAN
    /\ openMu \in Threads \cup {None}
    /\ engines \in [Keys -> Handles \cup {None}]
    /\ order \in Seq(Keys)
    /\ closings \in [Keys -> Handles \cup {None}]
    /\ closers \subseteq SUBSET Handles
    /\ closeWg \in Nat
    /\ hst \in [Handles -> HandleStates]
    /\ hkey \in [Handles -> Keys \cup {PrewarmKey, None}]
    /\ hcfg \in [Handles -> Configs]
    /\ pc \in [Threads -> RequestPCs \cup PrewarmPCs]
    /\ key \in [Threads -> Keys \cup {PrewarmKey, None}]
    /\ snap \in [Threads -> Configs]
    /\ chan \in [Threads -> Handles \cup {None}]
    /\ new \in [Threads -> Handles \cup {None}]
    /\ dpc \in {"idle", "drain", "close", "wait", "done"}
    /\ dbatch \subseteq Handles

Init ==
    /\ cfg = InitConfig
    /\ replaced = {}
    /\ closed = FALSE
    /\ openMu = None
    /\ engines = [k \in Keys |-> None]
    /\ order = << >>
    /\ closings = [k \in Keys |-> None]
    /\ closers = {}
    /\ closeWg = 0
    /\ hst = [h \in Handles |-> "free"]
    /\ hkey = [h \in Handles |-> None]
    /\ hcfg = [h \in Handles |-> InitConfig]
    /\ pc = [t \in Threads |-> IF t \in Requests THEN "idle" ELSE "start"]
    /\ key = [t \in Threads |-> None]
    /\ snap = [t \in Threads |-> InitConfig]
    /\ chan = [t \in Threads |-> None]
    /\ new = [t \in Threads |-> None]
    /\ dpc = "idle"
    /\ dbatch = {}

-----------------------------------------------------------------------------
Goto(t, from, to) ==
    /\ pc[t] = from
    /\ pc' = [pc EXCEPT ![t] = to]

(* A thread leaving ForScope or Prewarm forgets its locals. *)
Return(t, from, to) ==
    /\ Goto(t, from, to)
    /\ key' = [key EXCEPT ![t] = None]
    /\ snap' = [snap EXCEPT ![t] = InitConfig]
    /\ chan' = [chan EXCEPT ![t] = None]
    /\ new' = [new EXCEPT ![t] = None]

(* ForScope is called, and reads s.closed before taking s.mu. *)
Call(t) ==
    /\ Goto(t, "idle", "lookup")
    /\ ~closed
    /\ \E k \in Keys : key' = [key EXCEPT ![t] = k]
    /\ UNCHANGED <<confVars, openMu, tableVars, closeVars, handleVars, snap, chan, new, dispVars>>

(* The engine is open: move its key to the recent end of order, return it. *)
LookupHit(t) ==
    /\ Return(t, "lookup", "idle")
    /\ engines[key[t]] # None
    /\ order' = Append(Without(order, key[t]), key[t])
    /\ UNCHANGED <<confVars, openMu, engines, closings, closeVars, handleVars, dispVars>>

(* The miss path begins with a snapshot of the configuration. *)
LookupMiss(t) ==
    /\ Goto(t, "lookup", "lock")
    /\ engines[key[t]] = None
    /\ snap' = [snap EXCEPT ![t] = cfg]
    /\ UNCHANGED <<confVars, openMu, tableVars, closeVars, handleVars, key, chan, new, dispVars>>

(* Fault: opens are not serialized. *)
LockOpenMuNoMutex(t) ==
    /\ Goto(t, "lock", "pend")
    /\ openMu' = t
    /\ UNCHANGED <<confVars, tableVars, closeVars, handleVars, key, snap, chan, new, dispVars>>

LockOpenMu(t) ==
    /\ Goto(t, "lock", "pend")
    /\ openMu = None
    /\ openMu' = t
    /\ UNCHANGED <<confVars, tableVars, closeVars, handleVars, key, snap, chan, new, dispVars>>

(* Fault: the miss path does not look for a pending close. *)
NoPendingCloseUnchecked(t) ==
    /\ Goto(t, "pend", "recheck")
    /\ UNCHANGED <<confVars, openMu, tableVars, closeVars, handleVars, key, snap, chan, new, dispVars>>

(* waitPendingClose reads the marker of the key: none, go on; else receive *)
(* from the channel it read and read again.                                *)
NoPendingClose(t) ==
    /\ Goto(t, "pend", "recheck")
    /\ closings[key[t]] = None
    /\ UNCHANGED <<confVars, openMu, tableVars, closeVars, handleVars, key, snap, chan, new, dispVars>>

ReadPendingClose(t) ==
    /\ Goto(t, "pend", "recv")
    /\ closings[key[t]] # None
    /\ chan' = [chan EXCEPT ![t] = closings[key[t]]]
    /\ UNCHANGED <<confVars, openMu, tableVars, closeVars, handleVars, key, snap, new, dispVars>>

ReceivePendingClose(t) ==
    /\ Goto(t, "recv", "pend")
    /\ chan[t] = None
    /\ UNCHANGED <<confVars, openMu, tableVars, closeVars, handleVars, key, snap, chan, new, dispVars>>

(* Another miss opened the scope while this one waited for openMu.  The    *)
(* second lookup does not touch order.                                     *)
RecheckHit(t) ==
    /\ Return(t, "recheck", "idle")
    /\ engines[key[t]] # None
    /\ openMu' = None
    /\ UNCHANGED <<confVars, tableVars, closeVars, handleVars, dispVars>>

RecheckMiss(t) ==
    /\ Goto(t, "recheck", "open")
    /\ engines[key[t]] = None
    /\ UNCHANGED <<confVars, openMu, tableVars, closeVars, handleVars, key, snap, chan, new, dispVars>>

(* openEngine succeeds with the thread's key and configuration. *)
Opened(t) ==
    \E h \in Handles :
        /\ hst[h] = "free"
        /\ \A u \in Threads : chan[u] # h
        /\ hst' = [hst EXCEPT ![h] = "opened"]
        /\ hkey' = [hkey EXCEPT ![h] = key[t]]
        /\ hcfg' = [hcfg EXCEPT ![h] = snap[t]]
        /\ new' = [new EXCEPT ![t] = h]

(* The names of the handles in H are free again. *)
Freed(H) ==
    /\ hst' = [h \in Handles |-> IF h \in H THEN "free" ELSE hst[h]]
    /\ hkey' = [h \in Handles |-> IF h \in H THEN None ELSE hkey[h]]
    /\ hcfg' = [h \in Handles |-> IF h \in H THEN InitConfig ELSE hcfg[h]]

(* The engine is opened with the snapshot taken before the wait. *)
OpenEngine(t) ==
    /\ t \in Requests
    /\ Goto(t, "open", "insert")
    /\ Opened(t)
    /\ UNCHANGED <<confVars, openMu, tableVars, closeVars, key, snap, chan, dispVars>>

(* MkdirAll, Chmod or openEngine fails. *)
OpenFails(t) ==
    /\ t \in Requests
    /\ Return(t, "open", "idle")
    /\ openMu' = None
    /\ UNCHANGED <<confVars, tableVars, closeVars, handleVars, dispVars>>

(* Fault: the check after the open does not look at the settings. *)
PublishableOldSettings(t) == ~closed

(* No DisposeAll and no material Reconfigure landed during the open. *)
Publishable(t) == ~closed /\ ~materialConfigChange(snap[t], cfg)

(* One did: the handle is closed by a goroutine nobody tracks (no marker,  *)
(* no closeWg).                                                            *)
Discard(t) ==
    /\ Return(t, "insert", "idle")
    /\ ~Publishable(t)
    /\ hst' = [hst EXCEPT ![new[t]] = "discarded"]
    /\ openMu' = None
    /\ UNCHANGED <<confVars, tableVars, closeVars, hkey, hcfg, dispVars>>

(* Retire the engines of the keys in K: out of the table, a pending-close  *)
(* marker for each, and their handles doomed.                              *)
Retired(table, K) == {table[k] : k \in {j \in K : table[j] # None}}

Retire(table, states, K) ==
    /\ engines' = [k \in Keys |-> IF k \in K THEN None ELSE table[k]]
    /\ closings' = [k \in Keys |-> IF k \in K /\ table[k] # None
                                   THEN table[k] ELSE closings[k]]
    /\ hst' = [h \in Handles |-> IF h \in Retired(table, K) THEN "doomed" ELSE states[h]]

(* Fault: the doomed engines are forgotten. *)
DetachNothing(doomed) == UNCHANGED closeVars

(* A detached closeEngines run, counted in closeWg, unless there is        *)
(* nothing to close.                                                       *)
Detach(doomed) ==
    IF doomed = {}
    THEN UNCHANGED <<closers, closeWg>>
    ELSE /\ closers' = closers \cup {doomed}
         /\ closeWg' = closeWg + 1

(* Publish the handle and evict from the oldest end of order down to the   *)
(* limit; then release openMu.                                             *)
Insert(t) ==
    /\ Return(t, "insert", "idle")
    /\ Publishable(t)
    /\ LET k       == key[t]
           table   == [engines EXCEPT ![k] = new[t]]
           states  == [hst EXCEPT ![new[t]] = "live"]
           order1  == Append(order, k)
           excess  == IF Len(order1) > MaxEngines THEN Len(order1) - MaxEngines ELSE 0
           evicted == {order1[i] : i \in 1..excess}
       IN  /\ order' = SubSeq(order1, excess + 1, Len(order1))
           /\ Retire(table, states, evicted)
           /\ Detach(Retired(table, evicted))
    /\ openMu' = None
    /\ UNCHANGED <<confVars, hkey, hcfg, dispVars>>

-----------------------------------------------------------------------------
(* Reconfigure: a material change drains every engine. *)
Reconfigure(c) ==
    /\ cfg' = c
    /\ IF materialConfigChange(cfg, c)
       THEN /\ replaced' = replaced \cup {Settings(cfg)}
            /\ order' = << >>
            /\ Retire(engines, hst, Keys)
            /\ Detach(Retired(engines, Keys))
       ELSE UNCHANGED <<replaced, order, engines, closings, hst, closeVars>>
    /\ UNCHANGED <<closed, openMu, hkey, hcfg, threadVars, dispVars>>

(* closeEngines of the batch b: consolidate, flush and close each handle,  *)
(* one after the other, in no particular order (drains iterate a map).     *)
CloseNext(b) ==
    /\ \E h \in b :
          /\ hst[h] = "doomed"
          /\ hst' = [hst EXCEPT ![h] = "closed"]
    /\ UNCHANGED <<confVars, openMu, tableVars, closeVars, hkey, hcfg, threadVars, dispVars>>

(* Fault: the run signals before it has closed its handles. *)
FinishedEarly(b) == TRUE

Finished(b) == \A h \in b : hst[h] = "closed"

(* Fault: the marker is deleted and its channel left open. *)
WakeNobody(channels) == UNCHANGED chan

Wake(channels) ==
    chan' = [t \in Threads |-> IF chan[t] \in channels THEN None ELSE chan[t]]

(* ... then, with all of them closed, remove and close whatever channel is *)
(* registered under each key.                                              *)
SignalClosed(b) ==
    /\ Finished(b)
    /\ LET ks == {hkey[h] : h \in b}
       IN  /\ Wake(Retired(closings, ks))
           /\ closings' = [k \in Keys |-> IF k \in ks THEN None ELSE closings[k]]
    /\ Freed(b)
    /\ UNCHANGED <<engines, order, pc, key, snap, new>>

(* Fault: a detached run ends without closeWg.Done. *)
CloserFinishNoDone(b) ==
    /\ SignalClosed(b)
    /\ closers' = closers \ {b}
    /\ UNCHANGED <<confVars, openMu, closeWg, dispVars>>

CloserFinish(b) ==
    /\ SignalClosed(b)
    /\ closers' = closers \ {b}
    /\ closeWg' = closeWg - 1
    /\ UNCHANGED <<confVars, openMu, dispVars>>

(* The goroutine of Discard closes its handle. *)
CloseDiscarded(h) ==
    /\ hst[h] = "discarded"
    /\ Freed({h})
    /\ UNCHANGED <<confVars, openMu, tableVars, closeVars, threadVars, dispVars>>

-----------------------------------------------------------------------------
(* DisposeAll: set closed; then drain under s.mu; then close the drained   *)
(* engines on this goroutine; then wait for closeWg.                       *)
DisposeBegin ==
    /\ dpc = "idle"
    /\ dpc' = "drain"
    /\ closed' = TRUE
    /\ UNCHANGED <<cfg, replaced, openMu, tableVars, closeVars, handleVars, threadVars, dbatch>>

DisposeDrain ==
    /\ dpc = "drain"
    /\ dpc' = "close"
    /\ dbatch' = Retired(engines, Keys)
    /\ order' = << >>
    /\ Retire(engines, hst, Keys)
    /\ UNCHANGED <<confVars, openMu, closeVars, hkey, hcfg, threadVars>>

DisposeSignal ==
    /\ dpc = "close"
    /\ dpc' = "wait"
    /\ dbatch' = {}
    /\ SignalClosed(dbatch)
    /\ UNCHANGED <<confVars, openMu, closeVars>>

(* Fault: DisposeAll does not join the detached closes. *)
DisposeReturnEarly ==
    /\ dpc = "wait"
    /\ dpc' = "done"
    /\ UNCHANGED <<confVars, openMu, tableVars, closeVars, handleVars, threadVars, dbatch>>

DisposeReturn ==
    /\ dpc = "wait"
    /\ dpc' = "done"
    /\ closeWg = 0
    /\ UNCHANGED <<confVars, openMu, tableVars, closeVars, handleVars, threadVars, dbatch>>

-----------------------------------------------------------------------------
(* Prewarm: counted in closeWg, holds openMu across the open and the close *)
(* of a throwaway engine.                                                  *)
(* Fault: Done without an Add. *)
PrewarmAddNothing(t) ==
    /\ Goto(t, "start", IF closed THEN "done" ELSE "add")
    /\ UNCHANGED <<confVars, openMu, tableVars, closeVars, handleVars, key, snap, chan, new, dispVars>>

(* Fault: the Add is not guarded by the closed check. *)
PrewarmAddLate(t) ==
    /\ Goto(t, "start", "add")
    /\ closeWg' = closeWg + 1
    /\ UNCHANGED <<confVars, openMu, tableVars, closers, handleVars, key, snap, chan, new, dispVars>>

PrewarmAdd(t) ==
    /\ Goto(t, "start", IF closed THEN "done" ELSE "add")
    /\ closeWg' = IF closed THEN closeWg ELSE closeWg + 1
    /\ UNCHANGED <<confVars, openMu, tableVars, closers, handleVars, key, snap, chan, new, dispVars>>

PrewarmLock(t) ==
    /\ Goto(t, "add", "reread")
    /\ openMu = None
    /\ openMu' = t
    /\ UNCHANGED <<confVars, tableVars, closeVars, handleVars, key, snap, chan, new, dispVars>>

(* The second closed check and the second read of the configuration. *)
PrewarmReread(t) ==
    /\ Goto(t, "reread", "open")
    /\ ~closed
    /\ key' = [key EXCEPT ![t] = PrewarmKey]
    /\ snap' = [snap EXCEPT ![t] = cfg]
    /\ UNCHANGED <<confVars, openMu, tableVars, closeVars, handleVars, chan, new, dispVars>>

PrewarmOpen(t) ==
    /\ t \in Prewarmers
    /\ Goto(t, "open", "close")
    /\ Opened(t)
    /\ UNCHANGED <<confVars, openMu, tableVars, closeVars, key, snap, chan, dispVars>>

(* Every way out of Prewarm once counted: closed meanwhile, the open       *)
(* failed, or the throwaway engine closed; deferred unlock and Done.       *)
PrewarmExit(t) ==
    /\ t \in Prewarmers
    /\ \/ Return(t, "reread", "done") /\ closed /\ UNCHANGED handleVars
       \/ Return(t, "open", "done") /\ UNCHANGED handleVars
       \/ Return(t, "close", "done") /\ Freed({new[t]})
    /\ openMu' = None
    /\ closeWg' = closeWg - 1
    /\ UNCHANGED <<confVars, tableVars, closers, dispVars>>

-----------------------------------------------------------------------------
ForScopeRuns(t) ==
    \/ LookupHit(t) \/ LookupMiss(t)
    \/ NoPendingClose(t) \/ ReadPendingClose(t) \/ ReceivePendingClose(t)
    \/ RecheckHit(t) \/ RecheckMiss(t)
    \/ OpenEngine(t) \/ OpenFails(t)
    \/ Discard(t) \/ Insert(t)

PrewarmRuns(t) == PrewarmReread(t) \/ PrewarmOpen(t) \/ PrewarmExit(t)

CloserRuns   == \E b \in closers : CloseNext(b) \/ CloserFinish(b)
DiscardRuns  == \E h \in Handles : CloseDiscarded(h)
DisposeRuns  == DisposeDrain \/ (dpc = "close" /\ CloseNext(dbatch)) \/ DisposeSignal \/ DisposeReturn

(* Everything but a reconfiguration. *)
Work ==
    \/ \E t \in Requests : Call(t) \/ LockOpenMu(t) \/ ForScopeRuns(t)
    \/ \E t \in Prewarmers : PrewarmAdd(t) \/ PrewarmLock(t) \/ PrewarmRuns(t)
    \/ CloserRuns
    \/ DiscardRuns
    \/ DisposeBegin
    \/ DisposeRuns

Next == Work \/ \E c \in Configs : Reconfigure(c)

Spec == Init /\ [][Next]_vars

(* A configuration whose material settings are those in force, or were     *)
(* never in force before.  FreshNext is the store of an operator who never *)
(* reconfigures back to settings that a reconfiguration has replaced.      *)
Fresh(c) == Settings(c) \notin replaced

FreshNext == Work \/ \E c \in Configs : Fresh(c) /\ Reconfigure(c)

FreshSpec == Init /\ [][FreshNext]_vars

(* Goroutines keep running, and a sync.Mutex does not starve a waiter: Go  *)
(* hands it to the first in line after 1 ms.  There are finitely many      *)
(* handles, so fairness of the closers together is fairness of each.       *)
(* Nothing obliges a request, a reconfiguration or a shutdown to arrive.   *)
Fairness ==
    /\ \A t \in Requests : WF_vars(ForScopeRuns(t)) /\ SF_vars(LockOpenMu(t))
    /\ \A t \in Prewarmers : WF_vars(PrewarmRuns(t)) /\ SF_vars(PrewarmLock(t))
    /\ WF_vars(CloserRuns)
    /\ WF_vars(DisposeRuns)

FairSpec      == Spec /\ Fairness
FreshFairSpec == FreshSpec /\ Fairness

-----------------------------------------------------------------------------
(* The table leaks nothing and overwrites nothing: a handle is live exactly *)
(* when the table maps its key to it (ForScope's insert, store.go:374), and *)
(* order lists each open scope once, at most MaxEngines of them.            *)
TableExact ==
    /\ \A h \in Handles :
          hst[h] = "live" <=> \E k \in Keys : engines[k] = h /\ hkey[h] = k
    /\ Len(order) <= MaxEngines
    /\ \A k \in Keys : Cardinality({i \in 1..Len(order) : order[i] = k}) = IF engines[k] = None THEN 0 ELSE 1

(* An engine in the table was opened with the material settings now in      *)
(* force, although its open began under a snapshot that any number of       *)
(* reconfigurations may have overtaken (store.go:364).                      *)
CurrentSettings ==
    \A k \in Keys : engines[k] # None => Settings(hcfg[engines[k]]) = Settings(cfg)

(* At most one handle of a scope's file is open or opening under openMu:    *)
(* two misses never open the same scope twice (store.go:318-322).           *)
OneMissOneHandle ==
    \A g, h \in Handles :
        /\ hst[g] \in {"opened", "live"}
        /\ hst[h] \in {"opened", "live"}
        /\ hkey[g] = hkey[h]
        => g = h

(* A published handle never shares its scope with a retired one that is     *)
(* still being closed (store.go:68-71).                                     *)
PublishedAfterClose ==
    \A g, h \in Handles :
        hst[g] = "live" /\ hst[h] = "doomed" => hkey[g] # hkey[h]

(* No marker is orphaned: the channel a scope's reopen waits for belongs to *)
(* a closeEngines run that has yet to signal it (store.go:659-661), so a    *)
(* waiter never receives from a channel nobody will close.                  *)
Closer(h) == \/ \E b \in closers : h \in b
             \/ dpc = "close" /\ h \in dbatch

WaitersAreSignalled ==
    \A t \in Requests :
        chan[t] # None => Closer(chan[t]) /\ closings[key[t]] = chan[t]

(* DisposeAll joins: once it has returned, every handle that was ever       *)
(* published or prewarmed is closed (store.go:622-625).                     *)
DisposeJoins ==
    dpc = "done" => \A h \in Handles :
        /\ hst[h] \notin {"live", "doomed", "closed"}
        /\ hst[h] = "opened" => hkey[h] \in Keys

(* The WaitGroup is never counted up once DisposeAll waits for it: an Add   *)
(* from zero would race the Wait (store.go:124, 388).                       *)
NoAddWhileWaiting == [][(dpc \in {"wait", "done"}) => (closeWg' <= closeWg)]_vars

(* No open, published or not, while another handle has the same file open   *)
(* (store.go:68-71: "ForScope waits for the pending close before reopening  *)
(* the same SQLite file").                                                  *)
OneHandlePerFile ==
    \A g, h \in Handles :
        Open(g) /\ Open(h) /\ FileOf(g) = FileOf(h) => g = h

(* Every ForScope call returns, whatever is being closed or reconfigured    *)
(* around it.                                                               *)
ForScopeReturns == \A t \in Requests : pc[t] = "lookup" ~> pc[t] = "idle"

(* DisposeAll returns. *)
DisposeReturns == (dpc = "drain") ~> (dpc = "done")

-----------------------------------------------------------------------------
(* The store implements ScopeLease: the table holds the leases, the markers *)
(* the revoked ones, and a handle reads its file while live or doomed.      *)
(* DisposeAll stops leases where it drains.                                 *)
Lease == INSTANCE ScopeLease WITH
    holder  <- engines,
    revoked <- closings,
    reading <- {h \in Handles : hst[h] \in {"live", "doomed"}},
    phase   <- CASE dpc \in {"idle", "drain"} -> "up"
                 [] dpc \in {"close", "wait"} -> "stopping"
                 [] dpc = "done" -> "stopped"

ImplementsLease == Lease!LeaseSpec
LeaseSafe == Lease!LeaseSafe
=============================================================================
