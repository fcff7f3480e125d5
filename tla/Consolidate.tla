----------------------------- MODULE Consolidate -----------------------------
(***************************************************************************)
(* Background consolidation of one scope in plugin/store.go and            *)
(* intercept.go: every durable ingest counts a write, now and then one is  *)
(* due, and a goroutine runs Engine.Consolidate, one at a time per record  *)
(* of s.consol.                                                            *)
(*                                                                         *)
(* The scope's engine is retired by evictions and drains, together with    *)
(* the counters and the record; ingests and loops that are under way keep  *)
(* the engine and the record they have.  The scope is opened again once    *)
(* the retired engine is closed (EngineStore).  auto_consolidate is on,    *)
(* without it no step here is taken, and consolidate_every is constant.    *)
(*                                                                         *)
(* A new engine, record or goroutine takes a name that nothing refers to.  *)
(***************************************************************************)
EXTENDS Integers, FiniteSets

CONSTANTS
    Threads,            \* goroutines of interceptors that ingest
    Handles,            \* engines
    Records,            \* consolState values
    Runners,            \* goroutines for consolidateLoop (a bound)
    ConsolidateEvery,   \* consolidate_every
    MaxWrites,          \* bound on writesTotal
    None

ASSUME EveryAssumption == ConsolidateEvery \in Nat \ {0}
ASSUME MaxWritesAssumption == MaxWrites \in Nat
ASSUME NoneAssumption == None \notin Handles \cup Records \cup Nat

VARIABLES
    engine,           \* the scope's engine in s.engines, or None
    hst,              \* handle -> "closed", "live" or "retired"
    writes,           \* s.writes of the scope: the cadence counter
    writesTotal,      \* s.writesTotal of the scope
    lastConsolidate,  \* s.lastConsolidate of the scope, None when absent
    consol,           \* s.consol of the scope, None when absent
    rec,              \* record -> its fields running and pending
    pc,               \* thread -> next step
    held,             \* thread -> the engine it ingests into
    loop,             \* runner -> next step of its consolidateLoop, "none" without one
    state,            \* runner -> its st
    eng,              \* runner -> its eng
    due               \* history: engines of which a loop owes a run

engineVars == <<engine, hst>>
countVars  == <<writes, writesTotal, lastConsolidate>>
recVars    == <<consol, rec>>
threadVars == <<pc, held>>
loopVars   == <<loop, state, eng>>
vars == <<engineVars, countVars, recVars, threadVars, loopVars, due>>

-----------------------------------------------------------------------------
(* maybeConsolidate: one attempt per gap writes. *)
Gap == IF ConsolidateEvery \div 5 < 1 THEN 1 ELSE ConsolidateEvery \div 5

NewRecord == [running |-> FALSE, pending |-> FALSE]

TypeOK ==
    /\ engine \in Handles \cup {None}
    /\ hst \in [Handles -> {"closed", "live", "retired"}]
    /\ \A h \in Handles : hst[h] = "live" <=> engine = h
    /\ writes \in 0..ConsolidateEvery - 1
    /\ writesTotal \in 0..MaxWrites
    /\ lastConsolidate \in 0..writesTotal \cup {None}
    /\ consol \in Records \cup {None}
    /\ rec \in [Records -> [running : BOOLEAN, pending : BOOLEAN]]
    /\ pc \in [Threads -> {"idle", "process", "note", "allow", "schedule"}]
    /\ held \in [Threads -> Handles \cup {None}]
    /\ \A t \in Threads : held[t] = None <=> pc[t] = "idle"
    /\ loop \in [Runners -> {"none", "start", "busy", "check"}]
    /\ state \in [Runners -> Records \cup {None}]
    /\ eng \in [Runners -> Handles \cup {None}]
    /\ \A r \in Runners : /\ state[r] = None <=> loop[r] = "none"
                          /\ eng[r] = None <=> loop[r] = "none"
    /\ due \subseteq Handles

Init ==
    /\ engine = None
    /\ hst = [h \in Handles |-> "closed"]
    /\ writes = 0
    /\ writesTotal = 0
    /\ lastConsolidate = None
    /\ consol = None
    /\ rec = [c \in Records |-> NewRecord]
    /\ pc = [t \in Threads |-> "idle"]
    /\ held = [t \in Threads |-> None]
    /\ loop = [r \in Runners |-> "none"]
    /\ state = [r \in Runners |-> None]
    /\ eng = [r \in Runners |-> None]
    /\ due = {}

-----------------------------------------------------------------------------
FreeHandles == {h \in Handles : /\ \A t \in Threads : held[t] # h
                                /\ \A r \in Runners : eng[r] # h}
FreeRecords == {c \in Records \ {consol} : \A r \in Runners : state[r] # c}
FreeRunners == {r \in Runners : loop[r] = "none"}

AnyOf(S) == CHOOSE x \in S : TRUE

(* ForScope opens the scope, after any pending close of its file. *)
Open ==
    /\ engine = None
    /\ \A h \in Handles : hst[h] = "closed"
    /\ FreeHandles # {}
    /\ engine' = AnyOf(FreeHandles)
    /\ hst' = [hst EXCEPT ![engine'] = "live"]
    /\ due' = due \ {engine'}
    /\ UNCHANGED <<countVars, recVars, threadVars, loopVars>>

(* The scope is forgotten.  Nothing reads a dropped record's fields again. *)
ForgetScope ==
    /\ writes' = 0
    /\ writesTotal' = 0
    /\ lastConsolidate' = None
    /\ consol' = None
    /\ rec' = IF consol = None THEN rec ELSE [rec EXCEPT ![consol] = NewRecord]

(* An LRU eviction (ForScope) or a drain (Reconfigure, DisposeAll) takes    *)
(* the engine; a drain forgets the scope even if it has none.               *)
Retire ==
    /\ engine # None
    /\ engine' = None
    /\ hst' = [hst EXCEPT ![engine] = "retired"]
    /\ ForgetScope
    /\ UNCHANGED <<threadVars, loopVars, due>>

DrainWithoutEngine ==
    /\ engine = None
    /\ ForgetScope
    /\ UNCHANGED <<engineVars, threadVars, loopVars, due>>

(* closeEngines; the engine's own lock keeps Close out of a Consolidate. *)
Close(h) ==
    /\ hst[h] = "retired"
    /\ \A r \in Runners : eng[r] = h => loop[r] # "busy"
    /\ hst' = [hst EXCEPT ![h] = "closed"]
    /\ UNCHANGED <<engine, countVars, recVars, threadVars, loopVars, due>>

-----------------------------------------------------------------------------
Goto(t, from, to) ==
    /\ pc[t] = from
    /\ pc' = [pc EXCEPT ![t] = to]

Return(t, from) ==
    /\ Goto(t, from, "idle")
    /\ held' = [held EXCEPT ![t] = None]

(* An ingest has its engine from ForScope. *)
Begin(t) ==
    /\ Goto(t, "idle", "process")
    /\ engine # None
    /\ held' = [held EXCEPT ![t] = engine]
    /\ UNCHANGED <<engineVars, countVars, recVars, loopVars, due>>

ProcessText(t) ==
    /\ Goto(t, "process", "note")
    /\ hst[held[t]] # "closed"
    /\ UNCHANGED <<engineVars, countVars, recVars, held, loopVars, due>>

(* The engine is closed.  Other failures are as if the ingest had not begun. *)
ProcessFails(t) ==
    /\ Return(t, "process")
    /\ hst[held[t]] = "closed"
    /\ UNCHANGED <<engineVars, countVars, recVars, loopVars, due>>

(* Fault: a due does not start the counter anew. *)
NoteDurableIngestNoReset(t, hint) ==
    /\ writesTotal < MaxWrites
    /\ writesTotal' = writesTotal + 1
    /\ writes' = IF hint THEN 0 ELSE writes + 1
    /\ IF hint \/ writes + 1 >= ConsolidateEvery
       THEN Goto(t, "note", "allow") /\ UNCHANGED held
       ELSE Return(t, "note")
    /\ UNCHANGED <<engineVars, lastConsolidate, recVars, loopVars, due>>

(* The write is counted; it is due when the engine asks for consolidation   *)
(* or at every ConsolidateEvery-th, and either starts the counter anew.     *)
NoteDurableIngest(t, hint) ==
    LET n   == writes + 1
        now == hint \/ n >= ConsolidateEvery
    IN  /\ writesTotal < MaxWrites
        /\ writesTotal' = writesTotal + 1
        /\ writes' = IF now THEN 0 ELSE n
        /\ IF now
           THEN Goto(t, "note", "allow") /\ UNCHANGED held
           ELSE Return(t, "note")
        /\ UNCHANGED <<engineVars, lastConsolidate, recVars, loopVars, due>>

(* Fault: the gap is one write longer. *)
ThrottledLonger == lastConsolidate # None /\ writesTotal - lastConsolidate <= Gap

(* AllowConsolidateAttempt: not again within Gap writes. *)
Throttled == lastConsolidate # None /\ writesTotal - lastConsolidate < Gap

Throttle(t) ==
    /\ Return(t, "allow")
    /\ Throttled
    /\ UNCHANGED <<engineVars, countVars, recVars, loopVars, due>>

Allow(t) ==
    /\ Goto(t, "allow", "schedule")
    /\ ~Throttled
    /\ lastConsolidate' = writesTotal
    /\ UNCHANGED <<engineVars, writes, writesTotal, recVars, held, loopVars, due>>

-----------------------------------------------------------------------------
(* Fault: a loop is started although one is running. *)
ScheduleRunAlways(t) ==
    LET c == IF consol = None THEN AnyOf(FreeRecords) ELSE consol
        r == AnyOf(FreeRunners)
    IN  /\ Return(t, "schedule")
        /\ FreeRunners # {} /\ (consol = None => FreeRecords # {})
        /\ consol' = c
        /\ rec' = [rec EXCEPT ![c].running = TRUE]
        /\ loop' = [loop EXCEPT ![r] = "start"]
        /\ state' = [state EXCEPT ![r] = c]
        /\ eng' = [eng EXCEPT ![r] = held[t]]
        /\ due' = due \cup {held[t]}
        /\ UNCHANGED <<engineVars, countVars>>

(* scheduleConsolidate: without a record make one; start a loop unless the  *)
(* record says that one is running, ...                                     *)
ScheduleRun(t) ==
    LET c == IF consol = None THEN AnyOf(FreeRecords) ELSE consol
        r == AnyOf(FreeRunners)
    IN  /\ Return(t, "schedule")
        /\ FreeRunners # {} /\ (consol = None => FreeRecords # {})
        /\ ~rec[c].running
        /\ consol' = c
        /\ rec' = [rec EXCEPT ![c].running = TRUE]
        /\ loop' = [loop EXCEPT ![r] = "start"]
        /\ state' = [state EXCEPT ![r] = c]
        /\ eng' = [eng EXCEPT ![r] = held[t]]
        /\ due' = due \cup {held[t]}
        /\ UNCHANGED <<engineVars, countVars>>

(* Fault: a due in mid-run is dropped. *)
ScheduleMidRunDropped(t) ==
    /\ consol # None
    /\ rec[consol].running
    /\ Return(t, "schedule")
    /\ due' = due \cup {held[t] : r \in {r \in Runners : state[r] = consol /\ eng[r] = held[t]}}
    /\ UNCHANGED <<engineVars, countVars, recVars, loopVars>>

(* ... for which the due is left pending.  That loop runs its own engine    *)
(* again, which is another when it was scheduled by an ingest that held a   *)
(* retired engine: then nothing is due to the one the due came from.        *)
ScheduleMidRun(t) ==
    /\ consol # None
    /\ rec[consol].running
    /\ Return(t, "schedule")
    /\ rec' = [rec EXCEPT ![consol].pending = TRUE]
    /\ due' = due \cup {held[t] : r \in {r \in Runners : state[r] = consol /\ eng[r] = held[t]}}
    /\ UNCHANGED <<engineVars, countVars, consol, loopVars>>

-----------------------------------------------------------------------------
Step(r, from, to) ==
    /\ loop[r] = from
    /\ loop' = [loop EXCEPT ![r] = to]

Exit(r, from) ==
    /\ Step(r, from, "none")
    /\ state' = [state EXCEPT ![r] = None]
    /\ eng' = [eng EXCEPT ![r] = None]

(* Consolidate takes the engine's lock; on a closed one it does nothing. *)
RunBegins(r) ==
    /\ Step(r, "start", IF hst[eng[r]] = "closed" THEN "check" ELSE "busy")
    /\ \A s \in Runners : eng[s] = eng[r] => loop[s] # "busy"
    /\ due' = due \ {eng[r]}
    /\ UNCHANGED <<engineVars, countVars, recVars, threadVars, state, eng>>

RunEnds(r) ==
    /\ Step(r, "busy", "check")
    /\ UNCHANGED <<engineVars, countVars, recVars, threadVars, state, eng, due>>

(* The record was dropped or replaced meanwhile. *)
LoopStale(r) ==
    /\ Exit(r, "check")
    /\ consol # state[r]
    /\ UNCHANGED <<engineVars, countVars, recVars, threadVars, due>>

LoopAgain(r) ==
    /\ Step(r, "check", "start")
    /\ consol = state[r]
    /\ rec[consol].pending
    /\ rec' = [rec EXCEPT ![consol].pending = FALSE]
    /\ UNCHANGED <<engineVars, countVars, consol, threadVars, state, eng, due>>

(* Fault: a loop clears the flag of the record that is there, its own or not. *)
LoopEndsAny(r) ==
    /\ Exit(r, "check")
    /\ consol # None
    /\ ~rec[consol].pending
    /\ rec' = [rec EXCEPT ![consol].running = FALSE]
    /\ UNCHANGED <<engineVars, countVars, consol, threadVars, due>>

LoopEnds(r) ==
    /\ Exit(r, "check")
    /\ consol = state[r]
    /\ ~rec[consol].pending
    /\ rec' = [rec EXCEPT ![consol].running = FALSE]
    /\ UNCHANGED <<engineVars, countVars, consol, threadVars, due>>

-----------------------------------------------------------------------------
ThreadRuns(t) ==
    \/ ProcessText(t) \/ ProcessFails(t)
    \/ \E hint \in BOOLEAN : NoteDurableIngest(t, hint)
    \/ Throttle(t) \/ Allow(t)
    \/ ScheduleRun(t) \/ ScheduleMidRun(t)

LoopRuns(r) ==
    \/ RunBegins(r) \/ RunEnds(r)
    \/ LoopStale(r) \/ LoopAgain(r) \/ LoopEnds(r)

Next ==
    \/ Open \/ Retire \/ DrainWithoutEngine
    \/ \E h \in Handles : Close(h)
    \/ \E t \in Threads : Begin(t) \/ ThreadRuns(t)
    \/ \E r \in Runners : LoopRuns(r)

Spec == Init /\ [][Next]_vars

(* Goroutines keep running and a Consolidate returns; the engine's lock is a *)
(* sync.Mutex, which starves nobody.                                         *)
Fairness ==
    /\ \A t \in Threads : WF_vars(ThreadRuns(t))
    /\ \A r \in Runners : SF_vars(RunBegins(r)) /\ WF_vars(LoopRuns(r))

FairSpec == Spec /\ Fairness

-----------------------------------------------------------------------------
Looping == {r \in Runners : loop[r] # "none"}

(* The record in the store tells the truth: it is running exactly when a     *)
(* loop has it, and no record ever has two loops, whatever stale loops of    *)
(* dropped records still do (store.go:568-570, 594-599).                     *)
SingleFlight ==
    /\ \A r, s \in Looping : state[r] = state[s] => r = s
    /\ consol # None => (rec[consol].running <=> \E r \in Looping : state[r] = consol)

(* At most one loop ever works on the engine in the table: the stale loops   *)
(* of dropped records have retired engines.                                  *)
LiveEngineOneLoop ==
    \A r, s \in Looping : eng[r] = engine /\ eng[s] = engine => r = s

(* Unless an attempt is being decided on, the last one is fewer than         *)
(* ConsolidateEvery + Gap - 1 writes ago: hints that were throttled put the  *)
(* cadence off once, not again and again (intercept.go:818-837).             *)
CadenceBound ==
    (\A t \in Threads : pc[t] # "allow") =>
        writesTotal - (IF lastConsolidate = None THEN 0 ELSE lastConsolidate)
            <= ConsolidateEvery + Gap - 2

(* A due is followed by a run of its engine, also when it arrives in mid-run *)
(* of it (store.go:568-570), unless the engine is retired.                   *)
DueIsServed == engine \in due ~> engine \notin due
=============================================================================
