-------------------------- MODULE Consolidate_proofs --------------------------
(***************************************************************************)
(* Consolidation of a scope is single-flight, for any number of ingests,   *)
(* engines and loops and any cadence.                                      *)
(***************************************************************************)
EXTENDS Consolidate, TLAPS

(* A loop that has the engine in the table has the record in the store: a  *)
(* stale loop has a retired engine.                                        *)
StaleLoopsRetired == \A r \in Looping : eng[r] = engine => state[r] = consol

IInv == TypeOK /\ SingleFlight /\ StaleLoopsRetired

(* What AnyOf takes from a set is in it.                                   *)
LEMMA AnyOfIsIn == ASSUME NEW S, S # {} PROVE AnyOf(S) \in S
  BY DEF AnyOf

RecordType == [running : BOOLEAN, pending : BOOLEAN]

(* Setting a flag of a record keeps the table of records one.             *)
LEMMA FlagIsSet ==
  ASSUME NEW R \in [Records -> RecordType], NEW c \in Records, NEW b \in BOOLEAN
  PROVE  /\ [R EXCEPT ![c].running = b] \in [Records -> RecordType]
         /\ [R EXCEPT ![c].pending = b] \in [Records -> RecordType]
  <1>1. R[c] \in RecordType
    OBVIOUS
  <1>2. [R[c] EXCEPT !.running = b] \in RecordType /\ [R[c] EXCEPT !.pending = b] \in RecordType
    BY <1>1 DEF RecordType
  <1> QED BY <1>2

(* Initially there is neither a record nor a loop.                         *)
LEMMA InitIInv == Init => IInv
  BY EveryAssumption, MaxWritesAssumption, NoneAssumption
     DEF Init, IInv, TypeOK, SingleFlight, StaleLoopsRetired, Looping, NewRecord

(* Opening, retiring and closing the scope's engine (ForScope, drains).    *)
LEMMA EngineSteps ==
  ASSUME IInv, Open \/ Retire \/ DrainWithoutEngine \/ (\E h \in Handles : Close(h))
  PROVE  IInv'
  <1> USE EveryAssumption, MaxWritesAssumption, NoneAssumption
  <1>1. CASE Open
    <2>1. engine' \in FreeHandles
      BY <1>1, AnyOfIsIn DEF Open
    <2>2. TypeOK'
      BY <1>1, <2>1 DEF Open, IInv, TypeOK, FreeHandles, countVars, recVars, threadVars, loopVars
    <2>3. SingleFlight'
      BY <1>1 DEF Open, IInv, SingleFlight, Looping, recVars, loopVars
    <2>4. StaleLoopsRetired'
      BY <1>1, <2>1 DEF Open, StaleLoopsRetired, FreeHandles, Looping, loopVars
    <2> QED BY <2>2, <2>3, <2>4 DEF IInv
  <1>2. CASE Retire
    <2>1. TypeOK'
      BY <1>2 DEF Retire, ForgetScope, NewRecord, IInv, TypeOK, threadVars, loopVars
    <2>2. SingleFlight'
      BY <1>2 DEF Retire, ForgetScope, IInv, SingleFlight, Looping, loopVars
    <2>3. StaleLoopsRetired'
      BY <1>2 DEF Retire, IInv, TypeOK, StaleLoopsRetired, Looping, loopVars
    <2> QED BY <2>1, <2>2, <2>3 DEF IInv
  <1>3. CASE DrainWithoutEngine
    <2>1. TypeOK'
      BY <1>3 DEF DrainWithoutEngine, ForgetScope, NewRecord, IInv, TypeOK, engineVars, threadVars, loopVars
    <2>2. SingleFlight'
      BY <1>3 DEF DrainWithoutEngine, ForgetScope, IInv, SingleFlight, Looping, loopVars
    <2>3. StaleLoopsRetired'
      BY <1>3 DEF DrainWithoutEngine, IInv, TypeOK, StaleLoopsRetired, Looping, engineVars, loopVars
    <2> QED BY <2>1, <2>2, <2>3 DEF IInv
  <1>4. ASSUME NEW h \in Handles, Close(h) PROVE IInv'
    BY <1>4 DEF Close, IInv, TypeOK, SingleFlight, StaleLoopsRetired, Looping, countVars, recVars, threadVars, loopVars
  <1> QED BY <1>1, <1>2, <1>3, <1>4

(* What an ingest does up to its decision to consolidate touches neither    *)
(* records nor loops.                                                       *)
LEMMA CountSteps ==
  ASSUME IInv, NEW t \in Threads,
         \/ Begin(t) \/ ProcessText(t) \/ ProcessFails(t)
         \/ \E hint \in BOOLEAN : NoteDurableIngest(t, hint)
         \/ Throttle(t) \/ Allow(t)
  PROVE  IInv'
  <1> USE EveryAssumption, MaxWritesAssumption, NoneAssumption
  <1>1. UNCHANGED <<engine, recVars, loopVars>>
    BY DEF Begin, ProcessText, ProcessFails, NoteDurableIngest, Throttle, Allow, engineVars
  <1>2. TypeOK'
    <2>1. CASE Begin(t)
      BY <2>1 DEF Begin, Goto, IInv, TypeOK, engineVars, countVars, recVars, loopVars
    <2>2. CASE ProcessText(t) \/ ProcessFails(t) \/ Throttle(t)
      BY <2>2 DEF ProcessText, ProcessFails, Throttle, Goto, Return, IInv, TypeOK, engineVars, countVars, recVars, loopVars
    <2>3. ASSUME NEW hint \in BOOLEAN, NoteDurableIngest(t, hint) PROVE TypeOK'
      <3>1. writes' \in 0..ConsolidateEvery - 1 /\ writesTotal' \in 0..MaxWrites /\ lastConsolidate' \in 0..writesTotal' \cup {None}
        BY <2>3 DEF NoteDurableIngest, IInv, TypeOK
      <3> QED BY <2>3, <3>1 DEF NoteDurableIngest, Goto, Return, IInv, TypeOK, engineVars, recVars, loopVars
    <2>4. CASE Allow(t)
      BY <2>4 DEF Allow, Goto, IInv, TypeOK, engineVars, recVars, loopVars
    <2> QED BY <2>1, <2>2, <2>3, <2>4
  <1>3. SingleFlight' /\ StaleLoopsRetired'
    BY <1>1 DEF IInv, SingleFlight, StaleLoopsRetired, Looping, recVars, loopVars
  <1> QED BY <1>2, <1>3 DEF IInv

(* A loop is started only with a record that has none.                      *)
LEMMA ScheduleRunStep ==
  ASSUME IInv, NEW t \in Threads, ScheduleRun(t)
  PROVE  IInv'
  <1> USE NoneAssumption
  <1> DEFINE c == IF consol = None THEN AnyOf(FreeRecords) ELSE consol
             r == AnyOf(FreeRunners)
  <1>1. r \in FreeRunners
    BY AnyOfIsIn DEF ScheduleRun
  <1>2. r \in Runners /\ loop[r] = "none"
    BY <1>1 DEF FreeRunners
  <1>3. c \in Records /\ (consol = None => c \in FreeRecords)
    <2>1. CASE consol = None
      <3>1. c \in FreeRecords
        BY <2>1, AnyOfIsIn DEF ScheduleRun
      <3> QED BY <3>1 DEF FreeRecords
    <2>2. CASE consol # None
      BY <2>2 DEF IInv, TypeOK
    <2> QED BY <2>1, <2>2
  <1>4. \A s \in Looping : state[s] # c
    <2>1. CASE consol = None
      BY <2>1, <1>3 DEF FreeRecords, Looping
    <2>2. CASE consol # None
      BY <2>2 DEF ScheduleRun, IInv, SingleFlight
    <2> QED BY <2>1, <2>2
  <1>5. held[t] \in Handles
    BY DEF ScheduleRun, Return, Goto, IInv, TypeOK
  <1>6. /\ consol' = c
        /\ rec' = [rec EXCEPT ![c].running = TRUE]
        /\ loop' = [loop EXCEPT ![r] = "start"]
        /\ state' = [state EXCEPT ![r] = c]
        /\ eng' = [eng EXCEPT ![r] = held[t]]
        /\ engine' = engine
    BY DEF ScheduleRun, engineVars
  <1>7. TypeOK'
    <2>1. consol' \in Records /\ rec' \in [Records -> [running : BOOLEAN, pending : BOOLEAN]]
      <3>1. rec \in [Records -> RecordType]
        BY DEF IInv, TypeOK, RecordType
      <3> QED BY <3>1, <1>3, <1>6, FlagIsSet DEF RecordType
    <2>2. /\ loop' \in [Runners -> {"none", "start", "busy", "check"}]
          /\ state' \in [Runners -> Records \cup {None}]
          /\ eng' \in [Runners -> Handles \cup {None}]
          /\ \A s \in Runners : /\ state'[s] = None <=> loop'[s] = "none"
                                /\ eng'[s] = None <=> loop'[s] = "none"
      BY <1>2, <1>3, <1>5, <1>6 DEF IInv, TypeOK
    <2>3. /\ pc' \in [Threads -> {"idle", "process", "note", "allow", "schedule"}]
          /\ held' \in [Threads -> Handles \cup {None}]
          /\ \A u \in Threads : held'[u] = None <=> pc'[u] = "idle"
      BY DEF ScheduleRun, Return, Goto, IInv, TypeOK
    <2>4. due' \subseteq Handles
      BY <1>5 DEF ScheduleRun, IInv, TypeOK
    <2>5. UNCHANGED <<engineVars, countVars>>
      BY DEF ScheduleRun
    <2> QED BY <2>1, <2>2, <2>3, <2>4, <2>5 DEF IInv, TypeOK, engineVars, countVars
  <1>8. Looping' = Looping \cup {r} /\ r \notin Looping
    BY <1>2, <1>6 DEF Looping, IInv, TypeOK
  <1>9. /\ state'[r] = c /\ eng'[r] = held[t]
        /\ \A s \in Looping : state'[s] = state[s] /\ eng'[s] = eng[s]
    BY <1>2, <1>6, <1>8 DEF Looping, IInv, TypeOK
  <1>10. SingleFlight'
    <2>1. \A s, u \in Looping' : state'[s] = state'[u] => s = u
      BY <1>4, <1>8, <1>9 DEF IInv, SingleFlight
    <2>2. rec'[c].running
      BY <1>3, <1>6 DEF IInv, TypeOK
    <2> HIDE DEF c, r
    <2> QED BY <2>1, <2>2, <1>6, <1>8, <1>9 DEF SingleFlight
  <1>11. StaleLoopsRetired'
    <2> SUFFICES ASSUME NEW s \in Looping', eng'[s] = engine' PROVE state'[s] = consol'
      BY DEF StaleLoopsRetired
    <2>1. CASE s = r
      BY <2>1, <1>6, <1>9
    <2>2. CASE s \in Looping
      <3>1. state[s] = consol
        BY <2>2, <1>6, <1>9 DEF IInv, StaleLoopsRetired
      <3>2. consol # None
        BY <2>2, <3>1 DEF Looping, IInv, TypeOK
      <3> QED BY <2>2, <3>1, <3>2, <1>6, <1>9
    <2> QED BY <2>1, <2>2, <1>8
  <1> QED BY <1>7, <1>10, <1>11 DEF IInv

(* A due in mid-run sets a flag nobody's loop is told by.                   *)
LEMMA ScheduleMidRunStep ==
  ASSUME IInv, NEW t \in Threads, ScheduleMidRun(t)
  PROVE  IInv'
  <1> USE NoneAssumption
  <1>1. consol \in Records /\ held[t] \in Handles
    BY DEF ScheduleMidRun, Return, Goto, IInv, TypeOK
  <1>2. TypeOK'
    <2>1. rec' \in [Records -> [running : BOOLEAN, pending : BOOLEAN]]
      <3>1. rec \in [Records -> RecordType]
        BY DEF IInv, TypeOK, RecordType
      <3> QED BY <3>1, <1>1, FlagIsSet DEF ScheduleMidRun, RecordType
    <2>2. due' \subseteq Handles
      BY <1>1 DEF ScheduleMidRun, IInv, TypeOK
    <2>3. /\ pc' \in [Threads -> {"idle", "process", "note", "allow", "schedule"}]
          /\ held' \in [Threads -> Handles \cup {None}]
          /\ \A u \in Threads : held'[u] = None <=> pc'[u] = "idle"
      BY DEF ScheduleMidRun, Return, Goto, IInv, TypeOK
    <2> QED BY <2>1, <2>2, <2>3 DEF ScheduleMidRun, IInv, TypeOK, engineVars, countVars, loopVars
  <1>3. \A c \in Records : rec'[c].running = rec[c].running
    BY <1>1 DEF ScheduleMidRun, IInv, TypeOK
  <1>4. SingleFlight'
    BY <1>1, <1>3 DEF ScheduleMidRun, IInv, SingleFlight, Looping, loopVars
  <1>5. StaleLoopsRetired'
    BY DEF ScheduleMidRun, IInv, StaleLoopsRetired, Looping, engineVars, loopVars
  <1> QED BY <1>2, <1>4, <1>5 DEF IInv

(* A loop clears the flag of its own record only, and exits then.           *)
LEMMA LoopSteps ==
  ASSUME IInv, NEW r \in Runners, LoopRuns(r)
  PROVE  IInv'
  <1> USE NoneAssumption
  <1>1. CASE RunBegins(r) \/ RunEnds(r)
    <2>1. Looping' = Looping /\ UNCHANGED <<engine, consol, rec, state, eng>>
      BY <1>1 DEF RunBegins, RunEnds, Step, Looping, IInv, TypeOK, engineVars, recVars
    <2>2. TypeOK'
      BY <1>1 DEF RunBegins, RunEnds, Step, IInv, TypeOK, engineVars, countVars, recVars, threadVars
    <2>3. SingleFlight' /\ StaleLoopsRetired'
      BY <2>1 DEF IInv, SingleFlight, StaleLoopsRetired
    <2> QED BY <2>2, <2>3 DEF IInv
  <1>2. CASE LoopAgain(r)
    <2>1. consol \in Records
      BY <1>2 DEF LoopAgain, Step, IInv, TypeOK
    <2>2. Looping' = Looping /\ UNCHANGED <<engine, consol, state, eng>>
      BY <1>2 DEF LoopAgain, Step, Looping, IInv, TypeOK, engineVars
    <2>3. rec'[consol].running = rec[consol].running
      BY <1>2, <2>1 DEF LoopAgain, IInv, TypeOK
    <2>4. TypeOK'
      <3>1. rec \in [Records -> RecordType]
        BY DEF IInv, TypeOK, RecordType
      <3>2. rec' \in [Records -> [running : BOOLEAN, pending : BOOLEAN]]
        BY <3>1, <1>2, <2>1, FlagIsSet DEF LoopAgain, RecordType
      <3>3. loop' \in [Runners -> {"none", "start", "busy", "check"}] /\ \A s \in Runners : loop'[s] = "none" <=> loop[s] = "none"
        BY <1>2 DEF LoopAgain, Step, IInv, TypeOK
      <3> QED BY <3>2, <3>3, <2>2, <1>2 DEF LoopAgain, IInv, TypeOK, engineVars, countVars, threadVars
    <2>5. SingleFlight' /\ StaleLoopsRetired'
      BY <2>2, <2>3 DEF IInv, SingleFlight, StaleLoopsRetired
    <2> QED BY <2>4, <2>5 DEF IInv
  <1>3. CASE LoopStale(r) \/ LoopEnds(r)
    <2>1. /\ r \in Looping
          /\ Looping' = Looping \ {r}
          /\ \A s \in Looping' : state'[s] = state[s] /\ eng'[s] = eng[s]
          /\ UNCHANGED <<engine, consol>>
      BY <1>3 DEF LoopStale, LoopEnds, Exit, Step, Looping, IInv, TypeOK, engineVars, recVars
    <2>2. TypeOK'
      <3>1. rec \in [Records -> RecordType]
        BY DEF IInv, TypeOK, RecordType
      <3>3. rec' \in [Records -> [running : BOOLEAN, pending : BOOLEAN]]
        <4>1. CASE LoopStale(r)
          BY <4>1, <3>1 DEF LoopStale, recVars, RecordType
        <4>2. CASE LoopEnds(r)
          <5>1. consol \in Records
            BY <4>2, <2>1 DEF LoopEnds, Looping, IInv, TypeOK
          <5>2. rec' = [rec EXCEPT ![consol].running = FALSE]
            BY <4>2 DEF LoopEnds
          <5> QED BY <3>1, <5>1, <5>2, FlagIsSet DEF RecordType
        <4> QED BY <1>3, <4>1, <4>2
      <3>4. /\ loop' \in [Runners -> {"none", "start", "busy", "check"}]
            /\ state' \in [Runners -> Records \cup {None}]
            /\ eng' \in [Runners -> Handles \cup {None}]
            /\ \A s \in Runners : /\ state'[s] = None <=> loop'[s] = "none"
                                  /\ eng'[s] = None <=> loop'[s] = "none"
        BY <1>3 DEF LoopStale, LoopEnds, Exit, Step, IInv, TypeOK
      <3>5. UNCHANGED <<engineVars, countVars, consol, threadVars, due>>
        BY <1>3 DEF LoopStale, LoopEnds, recVars
      <3> QED BY <3>3, <3>4, <3>5 DEF IInv, TypeOK, engineVars, countVars, threadVars
    <2>3. StaleLoopsRetired'
      BY <2>1 DEF IInv, StaleLoopsRetired
    <2>4. SingleFlight'
      <3>1. CASE LoopStale(r)
        BY <3>1, <2>1 DEF LoopStale, IInv, SingleFlight, recVars
      <3>2. CASE LoopEnds(r)
        <4>1. consol = state[r] /\ consol \in Records
          BY <3>2, <2>1 DEF LoopEnds, Looping, IInv, TypeOK
        <4>2. ~rec'[consol].running
          BY <3>2, <4>1 DEF LoopEnds, IInv, TypeOK
        <4> QED BY <4>1, <4>2, <2>1 DEF IInv, SingleFlight
      <3> QED BY <1>3, <3>1, <3>2
    <2> QED BY <2>2, <2>3, <2>4 DEF IInv
  <1> QED BY <1>1, <1>2, <1>3 DEF LoopRuns

(* IInv is inductive.                                                       *)
LEMMA StepIInv == IInv /\ [Next]_vars => IInv'
  <1> SUFFICES ASSUME IInv, [Next]_vars PROVE IInv'
    OBVIOUS
  <1>1. CASE Open \/ Retire \/ DrainWithoutEngine \/ (\E h \in Handles : Close(h))
    BY <1>1, EngineSteps
  <1>2. ASSUME NEW t \in Threads, Begin(t) \/ ThreadRuns(t) PROVE IInv'
    BY <1>2, CountSteps, ScheduleRunStep, ScheduleMidRunStep DEF ThreadRuns
  <1>3. ASSUME NEW r \in Runners, LoopRuns(r) PROVE IInv'
    BY <1>3, LoopSteps
  <1>4. CASE UNCHANGED vars
    BY <1>4 DEF vars, engineVars, countVars, recVars, threadVars, loopVars,
               IInv, TypeOK, SingleFlight, StaleLoopsRetired, Looping
  <1> QED BY <1>1, <1>2, <1>3, <1>4 DEF Next

LEMMA AlwaysIInv == Spec => []IInv
  BY InitIInv, StepIInv, PTL DEF Spec

-----------------------------------------------------------------------------
(* The counters keep their ranges, for any consolidate_every                *)
(* (NoteDurableIngest, AllowConsolidateAttempt).                            *)
THEOREM TypeCorrect == Spec => []TypeOK
  BY AlwaysIInv, PTL DEF IInv

(* A record is marked as running exactly when one loop has it               *)
(* (scheduleConsolidate, consolidateLoop).                                  *)
THEOREM FlightIsSingle == Spec => []SingleFlight
  BY AlwaysIInv, PTL DEF IInv

(* No two loops ever work on the engine in the table, although stale loops  *)
(* of evicted records go on (consolidateLoop, store.go:594-599).            *)
THEOREM LiveEngineHasOneLoop == Spec => []LiveEngineOneLoop
  <1>1. IInv => LiveEngineOneLoop
    BY DEF IInv, SingleFlight, StaleLoopsRetired, LiveEngineOneLoop
  <1> QED BY <1>1, AlwaysIInv, PTL

-----------------------------------------------------------------------------
(* The write of the last attempt, 0 before the first.                       *)
LastAttempt == IF lastConsolidate = None THEN 0 ELSE lastConsolidate

(* The cadence counter lags behind the writes since the last attempt by     *)
(* less than the gap: it was started anew without an attempt only where the *)
(* attempt was throttled.                                                   *)
CounterKeepsUp ==
    (\A t \in Threads : pc[t] # "allow") => writesTotal - LastAttempt - writes < Gap

(* There is a gap, if only of one write.                                    *)
LEMMA GapIsPositive == Gap \in Nat /\ Gap >= 1
  BY EveryAssumption DEF Gap

(* The counters are numbers.                                                *)
LEMMA CountersAreNumbers ==
  ASSUME TypeOK
  PROVE  writes \in Nat /\ writesTotal \in Nat /\ LastAttempt \in Nat
  BY EveryAssumption, MaxWritesAssumption DEF TypeOK, LastAttempt

(* A step that leaves the counters alone, and that decides on no attempt.   *)
LEMMA CountersStay ==
  ASSUME CounterKeepsUp, UNCHANGED countVars,
         \A t \in Threads : pc'[t] # "allow" => pc[t] # "allow"
  PROVE  CounterKeepsUp'
  BY DEF CounterKeepsUp, LastAttempt, countVars

(* A write that is not due counts twice; one that is due is decided on.     *)
LEMMA WriteIsCounted ==
  ASSUME IInv, CounterKeepsUp, NEW t \in Threads, NEW hint \in BOOLEAN, NoteDurableIngest(t, hint)
  PROVE  CounterKeepsUp'
  <1>1. pc \in [Threads -> {"idle", "process", "note", "allow", "schedule"}]
    BY DEF IInv, TypeOK
  <1>2. CASE hint \/ writes + 1 >= ConsolidateEvery
    <2>1. pc'[t] = "allow"
      BY <1>1, <1>2 DEF NoteDurableIngest, Goto
    <2> QED BY <2>1 DEF CounterKeepsUp
  <1>3. CASE ~(hint \/ writes + 1 >= ConsolidateEvery)
    <2>1. writes' = writes + 1 /\ writesTotal' = writesTotal + 1 /\ LastAttempt' = LastAttempt
      BY <1>3 DEF NoteDurableIngest, LastAttempt
    <2>2. \A u \in Threads : pc'[u] # "allow" => pc[u] # "allow"
      BY <1>1, <1>3 DEF NoteDurableIngest, Return, Goto
    <2>3. writesTotal' - LastAttempt' - writes' = writesTotal - LastAttempt - writes
      BY <2>1, CountersAreNumbers DEF IInv
    <2> QED BY <2>2, <2>3 DEF CounterKeepsUp, Gap
  <1> QED BY <1>2, <1>3

(* An attempt is made, or the last one is less than a gap ago.              *)
LEMMA AttemptIsDecided ==
  ASSUME IInv, CounterKeepsUp, NEW t \in Threads, Throttle(t) \/ Allow(t)
  PROVE  CounterKeepsUp'
  <1> USE GapIsPositive, CountersAreNumbers, NoneAssumption DEF IInv
  <1>1. CASE Throttle(t)
    <2>1. writesTotal - LastAttempt < Gap
      BY <1>1 DEF Throttle, Throttled, LastAttempt
    <2>2. writesTotal - LastAttempt - writes < Gap
      BY <2>1
    <2> QED BY <1>1, <2>2 DEF CounterKeepsUp, Throttle, LastAttempt, countVars
  <1>2. CASE Allow(t)
    <2>1. LastAttempt' = writesTotal /\ writesTotal' = writesTotal /\ writes' = writes
      BY <1>2 DEF Allow, LastAttempt
    <2>2. writesTotal' - LastAttempt' - writes' < Gap
      BY <2>1
    <2> QED BY <2>2 DEF CounterKeepsUp, Gap
  <1> QED BY <1>1, <1>2

(* The counters start at nothing, and a retirement forgets them together.   *)
LEMMA CounterKeepsUpStep == IInv /\ CounterKeepsUp /\ [Next]_vars => CounterKeepsUp'
  <1> SUFFICES ASSUME IInv, CounterKeepsUp, [Next]_vars PROVE CounterKeepsUp'
    OBVIOUS
  <1>1. pc \in [Threads -> {"idle", "process", "note", "allow", "schedule"}]
    BY DEF IInv, TypeOK
  <1>2. CASE Retire \/ DrainWithoutEngine
    <2>1. writes' = 0 /\ writesTotal' = 0 /\ LastAttempt' = 0
      BY <1>2 DEF Retire, DrainWithoutEngine, ForgetScope, LastAttempt
    <2> QED BY <2>1, GapIsPositive DEF CounterKeepsUp, Gap
  <1>3. CASE Open \/ (\E h \in Handles : Close(h))
    BY <1>3, CountersStay DEF Open, Close, threadVars
  <1>4. ASSUME NEW t \in Threads, Begin(t) \/ ThreadRuns(t) PROVE CounterKeepsUp'
    <2>1. CASE Throttle(t) \/ Allow(t)
      BY <2>1, AttemptIsDecided
    <2>2. CASE \E hint \in BOOLEAN : NoteDurableIngest(t, hint)
      BY <2>2, WriteIsCounted
    <2>3. CASE Begin(t) \/ ProcessText(t) \/ ProcessFails(t) \/ ScheduleRun(t) \/ ScheduleMidRun(t)
      <3>1. UNCHANGED countVars
        BY <2>3 DEF Begin, ProcessText, ProcessFails, ScheduleRun, ScheduleMidRun
      <3>2. pc[t] # "allow"
        BY <2>3 DEF Begin, ProcessText, ProcessFails, ScheduleRun, ScheduleMidRun, Return, Goto
      <3>3. \A u \in Threads \ {t} : pc'[u] = pc[u]
        BY <1>1, <2>3 DEF Begin, ProcessText, ProcessFails, ScheduleRun, ScheduleMidRun, Return, Goto
      <3> QED BY <3>1, <3>2, <3>3, CountersStay
    <2> QED BY <1>4, <2>1, <2>2, <2>3 DEF ThreadRuns
  <1>5. ASSUME NEW r \in Runners, LoopRuns(r) PROVE CounterKeepsUp'
    BY <1>5, CountersStay DEF LoopRuns, RunBegins, RunEnds, LoopStale, LoopAgain, LoopEnds, threadVars
  <1>6. CASE UNCHANGED vars
    BY <1>6, CountersStay DEF vars, threadVars
  <1> QED BY <1>2, <1>3, <1>4, <1>5, <1>6 DEF Next

(* Throttled hints put the cadence off once, not again and again, for any   *)
(* consolidate_every and any order of ingests and retirements               *)
(* (maybeConsolidate, AllowConsolidateAttempt, intercept.go:818-837).       *)
THEOREM CadenceIsBounded == Spec => []CadenceBound
  <1>1. Init => CounterKeepsUp
    BY GapIsPositive DEF Init, CounterKeepsUp, LastAttempt, Gap
  <1>2. IInv /\ CounterKeepsUp => CadenceBound
    <2> SUFFICES ASSUME IInv, CounterKeepsUp, \A t \in Threads : pc[t] # "allow" PROVE CadenceBound
      BY DEF CadenceBound
    <2>1. writesTotal - LastAttempt - writes < Gap
      BY DEF CounterKeepsUp
    <2>2. writes <= ConsolidateEvery - 1 /\ ConsolidateEvery \in Nat
      BY EveryAssumption DEF IInv, TypeOK
    <2> QED BY <2>1, <2>2, GapIsPositive, CountersAreNumbers DEF CadenceBound, LastAttempt, IInv
  <1> QED BY <1>1, <1>2, AlwaysIInv, CounterKeepsUpStep, PTL DEF Spec
=============================================================================
