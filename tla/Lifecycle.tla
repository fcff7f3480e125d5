------------------------------- MODULE Lifecycle -------------------------------
(***************************************************************************)
(* The plugin's life in its host (plugin/main.go): the host registers,     *)
(* reconfigures and shuts the plugin down while its other threads call the *)
(* interceptors.  serviceMu guards the one Service; a shutdown holds it    *)
(* while the Service's Store closes its engines, and the next register     *)
(* makes a fresh Store on the same files.                                  *)
(*                                                                         *)
(* Of a Store (plugin/store.go) this is what its life depends on: whether  *)
(* it is closed, the engine of one scope in its table, and who has that    *)
(* scope's file open.  Its locks and markers in detail, evictions and the  *)
(* return to earlier settings are those of EngineStore.                    *)
(***************************************************************************)
EXTENDS Integers, FiniteSets

CONSTANTS
    Threads,        \* threads of the host
    MaxConfigures,  \* bound: registers and reconfigures
    None

ASSUME BoundAssumption == MaxConfigures \in Nat

Stores   == 1..MaxConfigures   \* in the order in which they are made
Prewarms == 1..MaxConfigures   \* the goroutine of the n-th configure

ASSUME NoneAssumption == None \notin Threads \cup Prewarms

VARIABLES
    serviceMu,    \* the thread that holds it from one step to the next, or None
    service,      \* the Store of the Service, 0 for nil
    serviceUp,
    serviceDown,
    configures,   \* calls of configure so far
    created,      \* Stores made so far
    store,        \* Store -> its fields and handles
    prewarm,      \* configure -> the goroutine that it started
    pc,           \* thread -> where its call stands
    svc,          \* thread -> the Store that its call works on
    cfg           \* thread -> the settings that its lookup read
vars == <<serviceMu, service, serviceUp, serviceDown, configures, created, store, prewarm, pc, svc, cfg>>

hostVars   == <<serviceMu, service, serviceUp, serviceDown, configures, created>>
threadVars == <<pc, svc, cfg>>

(* A Store: Store.cfg by the number of the configure that brought it, Store. *)
(* closed, openMu and closeWg, and the handles on the scope's file: that in  *)
(* the table, that which DisposeAll closes itself, those which a detached    *)
(* goroutine closes, and those which were opened in vain.                    *)
NewStore(n) ==
    [cfg |-> n, closed |-> FALSE, openMu |-> None, closeWg |-> 0,
     table |-> FALSE, doomed |-> FALSE, closing |-> 0, discarded |-> 0]

Init ==
    /\ serviceMu = None
    /\ service = 0
    /\ serviceUp = FALSE
    /\ serviceDown = FALSE
    /\ configures = 0
    /\ created = 0
    /\ store = [g \in Stores |-> NewStore(0)]
    /\ prewarm = [n \in Prewarms |-> [pc |-> "none", store |-> 0]]
    /\ pc = [t \in Threads |-> "idle"]
    /\ svc = [t \in Threads |-> 0]
    /\ cfg = [t \in Threads |-> 0]

-----------------------------------------------------------------------------
(* The host calls. *)
Call(t, method) ==
    /\ pc[t] = "idle"
    /\ method = "configure" => configures + Cardinality({u \in Threads : pc[u] = "configure"}) < MaxConfigures
    /\ pc' = [pc EXCEPT ![t] = method]
    /\ UNCHANGED <<hostVars, store, prewarm, svc, cfg>>

Goto(t, label) == pc' = [pc EXCEPT ![t] = label]

Return(t) ==
    /\ Goto(t, "idle")
    /\ svc' = [svc EXCEPT ![t] = 0]
    /\ cfg' = [cfg EXCEPT ![t] = 0]

StartPrewarm(g) == prewarm' = [prewarm EXCEPT ![configures'] = [pc |-> "start", store |-> g]]

(* What every configure does under serviceMu, and what it starts after it. *)
Configured(t) ==
    /\ serviceMu = None
    /\ configures < MaxConfigures
    /\ serviceDown' = FALSE
    /\ serviceUp' = TRUE
    /\ configures' = configures + 1
    /\ StartPrewarm(service')
    /\ Return(t)
    /\ UNCHANGED serviceMu

(* configure without a service. *)
Register(t) ==
    /\ pc[t] = "configure"
    /\ service = 0
    /\ created' = created + 1
    /\ service' = created'
    /\ store' = [store EXCEPT ![created'] = NewStore(configures + 1)]
    /\ Configured(t)

(* A material change takes the engine out; a goroutine closes it. *)
Drained(s, n) ==
    LET drained == IF s.table THEN 1 ELSE 0
    IN  [s EXCEPT !.cfg = n, !.table = FALSE, !.closing = @ + drained, !.closeWg = @ + drained]

(* configure with one. *)
Reconfigure(t) ==
    /\ pc[t] = "configure"
    /\ service # 0
    /\ \/ UNCHANGED store
       \/ store' = [store EXCEPT ![service] = Drained(@, configures + 1)]
    /\ UNCHANGED <<service, created>>
    /\ Configured(t)

CloserCloses(g) ==
    /\ store[g].closing > 0
    /\ store' = [store EXCEPT ![g].closing = @ - 1, ![g].closeWg = @ - 1]
    /\ UNCHANGED <<hostVars, prewarm, threadVars>>

-----------------------------------------------------------------------------
(* currentService returns nil: the interceptor passes the call through. *)
Serving == service # 0 /\ serviceUp /\ ~serviceDown

PassThrough(t) ==
    /\ pc[t] = "intercept"
    /\ serviceMu = None
    /\ ~Serving
    /\ Return(t)
    /\ UNCHANGED <<hostVars, store, prewarm>>

(* Or a service, which the call keeps. *)
Admit(t) ==
    /\ pc[t] = "intercept"
    /\ serviceMu = None
    /\ Serving
    /\ svc' = [svc EXCEPT ![t] = service]
    /\ Goto(t, "entry")
    /\ UNCHANGED <<hostVars, store, prewarm, cfg>>

(* Store.ForScope. *)
RefuseClosed(t) ==
    /\ pc[t] = "entry"
    /\ store[svc[t]].closed
    /\ Return(t)
    /\ UNCHANGED <<hostVars, store, prewarm>>

EnterForScope(t) ==
    /\ pc[t] = "entry"
    /\ ~store[svc[t]].closed
    /\ Goto(t, "lookup")
    /\ UNCHANGED <<hostVars, store, prewarm, svc, cfg>>

Lookup(t) ==
    /\ pc[t] = "lookup"
    /\ Goto(t, IF store[svc[t]].table THEN "use" ELSE "miss")
    /\ cfg' = [cfg EXCEPT ![t] = store[svc[t]].cfg]
    /\ UNCHANGED <<hostVars, store, prewarm, svc>>

LockOpenMu(t) ==
    /\ pc[t] = "miss"
    /\ store[svc[t]].openMu = None
    /\ store' = [store EXCEPT ![svc[t]].openMu = t]
    /\ Goto(t, "wait")
    /\ UNCHANGED <<hostVars, prewarm, svc, cfg>>

(* waitPendingClose: a detached close, or that of DisposeAll. *)
NoPendingClose(g) == store[g].closing = 0 /\ ~store[g].doomed

WaitPendingClose(t) ==
    /\ pc[t] = "wait"
    /\ NoPendingClose(svc[t])
    /\ Goto(t, "recheck")
    /\ UNCHANGED <<hostVars, store, prewarm, svc, cfg>>

RecheckHit(t) ==
    /\ pc[t] = "recheck"
    /\ store[svc[t]].table
    /\ store' = [store EXCEPT ![svc[t]].openMu = None]
    /\ Goto(t, "use")
    /\ UNCHANGED <<hostVars, prewarm, svc, cfg>>

OpenEngine(t) ==
    /\ pc[t] = "recheck"
    /\ ~store[svc[t]].table
    /\ Goto(t, "opened")
    /\ UNCHANGED <<hostVars, store, prewarm, svc, cfg>>

OpenFails(t) ==
    /\ pc[t] = "recheck"
    /\ ~store[svc[t]].table
    /\ store' = [store EXCEPT ![svc[t]].openMu = None]
    /\ Return(t)
    /\ UNCHANGED <<hostVars, prewarm>>

(* Fault: the insert does not look whether the Store was closed meanwhile. *)
InVainUnlessChanged(t) == cfg[t] # store[svc[t]].cfg

InVain(t) == store[svc[t]].closed \/ cfg[t] # store[svc[t]].cfg

Insert(t) ==
    /\ pc[t] = "opened"
    /\ ~InVain(t)
    /\ store' = [store EXCEPT ![svc[t]].table = TRUE, ![svc[t]].openMu = None]
    /\ Goto(t, "use")
    /\ UNCHANGED <<hostVars, prewarm, svc, cfg>>

(* A bare goroutine closes what was opened in vain. *)
Discard(t) ==
    /\ pc[t] = "opened"
    /\ InVain(t)
    /\ store' = [store EXCEPT ![svc[t]].discarded = @ + 1, ![svc[t]].openMu = None]
    /\ Return(t)
    /\ UNCHANGED <<hostVars, prewarm>>

CloseDiscarded(g) ==
    /\ store[g].discarded > 0
    /\ store' = [store EXCEPT ![g].discarded = @ - 1]
    /\ UNCHANGED <<hostVars, prewarm, threadVars>>

(* The rest of the handler; of an engine that is closed it gets an error. *)
Use(t) ==
    /\ pc[t] = "use"
    /\ Return(t)
    /\ UNCHANGED <<hostVars, store, prewarm>>

-----------------------------------------------------------------------------
(* Store.Prewarm. *)
PrewarmGoto(n, label) == prewarm' = [prewarm EXCEPT ![n].pc = label]

(* Fault: nobody waits for a prewarm. *)
PrewarmAddNothing(n) ==
    /\ prewarm[n].pc = "start"
    /\ PrewarmGoto(n, IF store[prewarm[n].store].closed THEN "none" ELSE "lock")
    /\ UNCHANGED <<hostVars, store, threadVars>>

PrewarmAdd(n) ==
    /\ prewarm[n].pc = "start"
    /\ IF store[prewarm[n].store].closed
       THEN PrewarmGoto(n, "none") /\ UNCHANGED store
       ELSE /\ PrewarmGoto(n, "lock")
            /\ store' = [store EXCEPT ![prewarm[n].store].closeWg = @ + 1]
    /\ UNCHANGED <<hostVars, threadVars>>

PrewarmLock(n) ==
    /\ prewarm[n].pc = "lock"
    /\ store[prewarm[n].store].openMu = None
    /\ store' = [store EXCEPT ![prewarm[n].store].openMu = n]
    /\ PrewarmGoto(n, "locked")
    /\ UNCHANGED <<hostVars, threadVars>>

PrewarmOpen(n) ==
    /\ prewarm[n].pc = "locked"
    /\ ~store[prewarm[n].store].closed
    /\ PrewarmGoto(n, "opened")
    /\ UNCHANGED <<hostVars, store, threadVars>>

(* Fault: the early returns leave closeWg as it is. *)
PrewarmExitNoDone(n) ==
    /\ \/ prewarm[n].pc = "opened"
       \/ prewarm[n].pc = "locked"
    /\ PrewarmGoto(n, "none")
    /\ store' = [store EXCEPT ![prewarm[n].store].openMu = None]
    /\ UNCHANGED <<hostVars, threadVars>>

(* Its engine closed; or closed, or failing to open, before it had one. *)
PrewarmExit(n) ==
    /\ prewarm[n].pc \in {"locked", "opened"}
    /\ PrewarmGoto(n, "none")
    /\ store' = [store EXCEPT ![prewarm[n].store].openMu = None,
                              ![prewarm[n].store].closeWg = @ - 1]
    /\ UNCHANGED <<hostVars, threadVars>>

-----------------------------------------------------------------------------
(* cliproxyPluginShutdown. *)
ShutdownNothing(t) ==
    /\ pc[t] = "shutdown"
    /\ serviceMu = None
    /\ service = 0
    /\ serviceDown' = TRUE
    /\ Return(t)
    /\ UNCHANGED <<serviceMu, service, serviceUp, configures, created, store, prewarm>>

(* Store.DisposeAll, with serviceMu held. *)
ShutdownBegin(t) ==
    /\ pc[t] = "shutdown"
    /\ serviceMu = None
    /\ service # 0
    /\ serviceMu' = t
    /\ svc' = [svc EXCEPT ![t] = service]
    /\ store' = [store EXCEPT ![service].closed = TRUE]
    /\ Goto(t, "drain")
    /\ UNCHANGED <<service, serviceUp, serviceDown, configures, created, prewarm, cfg>>

Drain(t) ==
    /\ pc[t] = "drain"
    /\ store' = [store EXCEPT ![svc[t]].doomed = store[svc[t]].table, ![svc[t]].table = FALSE]
    /\ Goto(t, "close")
    /\ UNCHANGED <<hostVars, prewarm, svc, cfg>>

CloseDoomed(t) ==
    /\ pc[t] = "close"
    /\ store' = [store EXCEPT ![svc[t]].doomed = FALSE]
    /\ Goto(t, "join")
    /\ UNCHANGED <<hostVars, prewarm, svc, cfg>>

(* Fault: the closes are not waited for. *)
JoinedAtOnce(g) == TRUE

Joined(g) == store[g].closeWg = 0

ShutdownEnd(t) ==
    /\ pc[t] = "join"
    /\ Joined(svc[t])
    /\ serviceMu' = None
    /\ service' = 0
    /\ serviceDown' = TRUE
    /\ Return(t)
    /\ UNCHANGED <<serviceUp, configures, created, store, prewarm>>

-----------------------------------------------------------------------------
(* What a thread does once it has been called: where it locks a mutex, and   *)
(* the rest.                                                                 *)
LockServiceMu(t) ==
    Register(t) \/ Reconfigure(t) \/ PassThrough(t) \/ Admit(t) \/ ShutdownNothing(t) \/ ShutdownBegin(t)

Proceed(t) ==
    \/ RefuseClosed(t) \/ EnterForScope(t) \/ Lookup(t)
    \/ WaitPendingClose(t) \/ RecheckHit(t) \/ OpenEngine(t) \/ OpenFails(t)
    \/ Insert(t) \/ Discard(t) \/ Use(t)
    \/ Drain(t) \/ CloseDoomed(t) \/ ShutdownEnd(t)

PrewarmProceeds(n) == PrewarmAdd(n) \/ PrewarmOpen(n) \/ PrewarmExit(n)

Next ==
    \/ \E t \in Threads :
          \/ \E method \in {"configure", "intercept", "shutdown"} : Call(t, method)
          \/ LockServiceMu(t) \/ LockOpenMu(t) \/ Proceed(t)
    \/ \E n \in Prewarms : PrewarmLock(n) \/ PrewarmProceeds(n)
    \/ \E g \in Stores : CloserCloses(g) \/ CloseDiscarded(g)

Spec == Init /\ [][Next]_vars

(* Goroutines run, an engine's open and close return, and a mutex of Go is   *)
(* handed to whoever has waited long (its starvation mode).                  *)
Fairness ==
    /\ \A t \in Threads :
          WF_vars(Proceed(t)) /\ SF_vars(LockServiceMu(t)) /\ SF_vars(LockOpenMu(t))
    /\ \A n \in Prewarms : WF_vars(PrewarmProceeds(n)) /\ SF_vars(PrewarmLock(n))
    /\ \A g \in Stores : WF_vars(CloserCloses(g)) /\ WF_vars(CloseDiscarded(g))

FairSpec == Spec /\ Fairness

-----------------------------------------------------------------------------
StoreType ==
    [cfg : 0..MaxConfigures, closed : BOOLEAN, openMu : Threads \cup Prewarms \cup {None}, closeWg : Nat,
     table : BOOLEAN, doomed : BOOLEAN, closing : Nat, discarded : Nat]

ThreadLabels ==
    {"idle", "configure", "intercept", "shutdown", "entry", "lookup", "miss", "wait", "recheck", "opened",
     "use", "drain", "close", "join"}

TypeOK ==
    /\ serviceMu \in Threads \cup {None}
    /\ service \in 0..MaxConfigures
    /\ serviceUp \in BOOLEAN
    /\ serviceDown \in BOOLEAN
    /\ configures \in 0..MaxConfigures
    /\ created \in 0..MaxConfigures
    /\ store \in [Stores -> StoreType]
    /\ prewarm \in [Prewarms -> [pc : {"none", "start", "lock", "locked", "opened"}, store : 0..MaxConfigures]]
    /\ pc \in [Threads -> ThreadLabels]
    /\ svc \in [Threads -> 0..MaxConfigures]
    /\ cfg \in [Threads -> 0..MaxConfigures]

(* The handles of a Store that were in its table, and its prewarms. *)
Tracked(g) ==
    \/ store[g].table \/ store[g].doomed \/ store[g].closing > 0
    \/ \E n \in Prewarms : prewarm[n].pc = "opened" /\ prewarm[n].store = g

(* Those that no one waits for. *)
Untracked(g) ==
    \/ store[g].discarded > 0
    \/ \E t \in Threads : pc[t] = "opened" /\ svc[t] = g

(* Every engine that was ever published, and every prewarm, is closed by the *)
(* time its Service is gone: no later Store is made beside it, and nothing   *)
(* of a Store is left open after the shutdown (main.go:133-144,              *)
(* store.go:611-626).                                                        *)
StoresApart == \A g \in Stores : Tracked(g) => g = service

(* The host is told that the plugin is down, and calls pass through, only    *)
(* when every Store is closed: none is left on its own by a register that    *)
(* races a shutdown (main.go:133-144, 177-184).                              *)
NoStoreLeft == \A g \in 1..created : g # service => store[g].closed /\ store[g].closeWg = 0

(* "a concurrent configure must not open scope files on a fresh Store while  *)
(* this Store's closes are in flight" (main.go:137-138).                     *)
FreshStoreAlone ==
    \A g \in Stores : store[g].closing > 0 \/ store[g].discarded > 0 \/ store[g].doomed =>
        \A h \in Stores \ {g} : ~store[h].table /\ ~\E t \in Threads : pc[t] = "opened" /\ svc[t] = h

(* An interceptor, a configure and a shutdown return, also when they meet:   *)
(* the shutdown holds serviceMu while it waits for closes and prewarms, and  *)
(* these wait for opens and for closes in turn (main.go:133-144).            *)
CallsReturn == \A t \in Threads : pc[t] # "idle" ~> pc[t] = "idle"

(* Every handle that was opened is closed, or stays in the table of the      *)
(* Service: also that of a call whom a shutdown overtook.                    *)
HandlesAreClosed ==
    \A g \in Stores : g # service /\ g <= created /\ (Tracked(g) \/ Untracked(g)) ~> ~Tracked(g) /\ ~Untracked(g)
=============================================================================
