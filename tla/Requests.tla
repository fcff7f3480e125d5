------------------------------ MODULE Requests ------------------------------
(***************************************************************************)
(* Requests of one scope in plugin/intercept.go: HandleRequestBeforeAuth   *)
(* takes what the interrupt gate has staged (plugin/bus.go), ingests the   *)
(* resent history, recalls for the query, ingests it, and injects what was *)
(* staged and recalled; durableIngest; and what an eviction, a drain or a  *)
(* shutdown in the meantime does to the dedupe set and the bus.            *)
(*                                                                         *)
(* The scope's engine is opened, retired and closed as EngineStore allows; *)
(* its engines share one file (evictions, and reconfigurations that keep   *)
(* data_dir).  Requests keep the engine they have.  A text stands for its  *)
(* own hash, and a block staged by the gate is a unit: the cap on staged   *)
(* bytes is one on blocks.                                                 *)
(***************************************************************************)
EXTENDS SeenSet, FiniteSets

CONSTANTS
    Threads,    \* goroutines of interceptors
    Handles,    \* engines
    Texts,
    Blocks,     \* what gates stage
    Inputs,     \* requests: [todo: history to ingest, query: text or None]
    MaxBlocks,  \* maxBusBlock
    None

ASSUME InputsAssumption ==
    \A in \in Inputs : in.todo \in Seq(Texts) /\ in.query \in Texts \cup {None}
ASSUME MaxBlocksAssumption == MaxBlocks \in Nat \ {0}
ASSUME NoneAssumption == None \notin Texts \cup Handles

VARIABLES
    engine,    \* the scope's engine in s.engines, or None
    hst,       \* handle -> "closed", "live" or "retired"
    closed,    \* s.closed
    seen,      \* the scope's dedupe set
    rows,      \* texts in the scope's file
    staged,    \* bus.staged of the scope
    pc,        \* thread -> next step
    held,      \* thread -> its engine
    todo,      \* thread -> texts it has still to ingest
    query,     \* thread -> its query, until it is ingested
    recalled,  \* thread -> recall has found something
    mine,      \* thread -> the blocks it has taken
    own,       \* history: thread -> its claim is in the present set
    copies,    \* history: text -> times stored on a claim in the present set
    loose,     \* history: texts whose mark somebody else has removed from it
    issued,    \* history: blocks the gates have staged
    injected,  \* history: blocks injected
    dropped    \* history: blocks the bus gave up, or that a window showed

engineVars  == <<engine, hst, closed>>
seenVars    == <<seen, own, copies, loose>>
blockVars   == <<staged, issued, injected, dropped>>
requestVars == <<held, todo, query, recalled, mine>>
vars == <<engineVars, seenVars, rows, blockVars, pc, requestVars>>

-----------------------------------------------------------------------------
InOrder(s) == {s[i] : i \in DOMAIN s}

TypeOK ==
    /\ engine \in Handles \cup {None}
    /\ hst \in [Handles -> {"closed", "live", "retired"}]
    /\ closed \in BOOLEAN /\ (closed => engine = None)
    /\ seen.marks \subseteq InOrder(seen.order) /\ Len(seen.order) <= MaxSeen
    /\ rows \subseteq Texts
    /\ InOrder(staged) \subseteq Blocks /\ Len(staged) <= MaxBlocks
    /\ pc \in [Threads -> {"idle", "open", "ingest", "process", "recall", "inject"}]
    /\ \A t \in Threads :
          /\ held[t] \in Handles \cup {None}
          /\ InOrder(todo[t]) \subseteq Texts
          /\ query[t] \in Texts \cup {None}
          /\ pc[t] = "process" => todo[t] # << >>
          /\ pc[t] \in {"ingest", "process", "recall"} => held[t] # None
          /\ pc[t] = "idle" => mine[t] = << >>

Init ==
    /\ engine = None
    /\ hst = [h \in Handles |-> "closed"]
    /\ closed = FALSE
    /\ seen = NoneSeen
    /\ rows = {}
    /\ staged = << >>
    /\ pc = [t \in Threads |-> "idle"]
    /\ held = [t \in Threads |-> None]
    /\ todo = [t \in Threads |-> << >>]
    /\ query = [t \in Threads |-> None]
    /\ recalled = [t \in Threads |-> FALSE]
    /\ mine = [t \in Threads |-> << >>]
    /\ own = [t \in Threads |-> FALSE]
    /\ copies = [x \in Texts |-> 0]
    /\ loose = {}
    /\ issued = {}
    /\ injected = {}
    /\ dropped = {}

-----------------------------------------------------------------------------
(* Fault: nothing is cut from what is staged. *)
StageAll(blocks) ==
    /\ staged' = staged \o blocks
    /\ UNCHANGED dropped

(* Stage appends; beyond the cap the oldest go. *)
Stage(blocks) ==
    LET all    == staged \o blocks
        excess == IF Len(all) > MaxBlocks THEN Len(all) - MaxBlocks ELSE 0
    IN  /\ staged' = SubSeq(all, excess + 1, Len(all))
        /\ dropped' = dropped \cup {all[i] : i \in 1..excess}

Drop ==
    /\ staged' = << >>
    /\ dropped' = dropped \cup InOrder(staged)

(* The gate of some stream of the scope stages a block. *)
GateStages ==
    /\ \E b \in Blocks \ issued :
          /\ Stage(<<b>>)
          /\ issued' = issued \cup {b}
    /\ UNCHANGED <<engineVars, seenVars, rows, injected, pc, requestVars>>

(* More than maxBusScopes scopes have staged: this one may have to go.      *)
BusOverflows ==
    /\ staged # << >>
    /\ Drop
    /\ UNCHANGED <<engineVars, seenVars, rows, issued, injected, pc, requestVars>>

-----------------------------------------------------------------------------
(* The dedupe set is replaced by an empty one. *)
ForgetSeen ==
    /\ seen' = NoneSeen
    /\ own' = [t \in Threads |-> FALSE]
    /\ copies' = [x \in Texts |-> 0]
    /\ loose' = {}

FreeHandles == {h \in Handles : \A t \in Threads : held[t] # h}

(* ForScope opens the scope, after any pending close of its file.  (An open  *)
(* handle's name is used again when nothing refers to it.)                   *)
Open(h) ==
    /\ engine = None
    /\ ~closed
    /\ \A g \in Handles : hst[g] = "closed"
    /\ h \in FreeHandles
    /\ engine' = h
    /\ hst' = [hst EXCEPT ![h] = "live"]
    /\ UNCHANGED <<closed, seenVars, rows, blockVars, pc, requestVars>>

(* An LRU eviction or a material Reconfigure takes the engine, the dedupe    *)
(* set and what is staged; a Reconfigure the dedupe set even when the scope  *)
(* has no engine, and then leaves what is staged.                            *)
Retire ==
    /\ engine # None
    /\ engine' = None
    /\ hst' = [hst EXCEPT ![engine] = "retired"]
    /\ ForgetSeen
    /\ Drop
    /\ UNCHANGED <<closed, rows, issued, injected, pc, requestVars>>

DrainWithoutEngine ==
    /\ engine = None
    /\ ForgetSeen
    /\ UNCHANGED <<engineVars, rows, blockVars, pc, requestVars>>

(* DisposeAll. *)
Dispose ==
    /\ ~closed
    /\ closed' = TRUE
    /\ engine' = None
    /\ hst' = [h \in Handles |-> IF h = engine THEN "retired" ELSE hst[h]]
    /\ ForgetSeen
    /\ Drop
    /\ UNCHANGED <<rows, issued, injected, pc, requestVars>>

Close(h) ==
    /\ hst[h] = "retired"
    /\ hst' = [hst EXCEPT ![h] = "closed"]
    /\ UNCHANGED <<engine, closed, seenVars, rows, blockVars, pc, requestVars>>

-----------------------------------------------------------------------------
Goto(t, from, to) ==
    /\ pc[t] = from
    /\ pc' = [pc EXCEPT ![t] = to]

Return(t, from) ==
    /\ Goto(t, from, "idle")
    /\ held' = [held EXCEPT ![t] = None]
    /\ todo' = [todo EXCEPT ![t] = << >>]
    /\ query' = [query EXCEPT ![t] = None]
    /\ recalled' = [recalled EXCEPT ![t] = FALSE]
    /\ mine' = [mine EXCEPT ![t] = << >>]

(* A request arrives and takes what is staged.  Without a query and without  *)
(* history it needs no engine.                                               *)
Begin(t, in) ==
    /\ Goto(t, "idle", IF in.query = None /\ in.todo = << >> THEN "inject" ELSE "open")
    /\ todo' = [todo EXCEPT ![t] = in.todo]
    /\ query' = [query EXCEPT ![t] = in.query]
    /\ mine' = [mine EXCEPT ![t] = staged]
    /\ staged' = << >>
    /\ UNCHANGED <<engineVars, seenVars, rows, issued, injected, dropped, held, recalled>>

ForScope(t) ==
    /\ Goto(t, "open", "ingest")
    /\ engine # None
    /\ held' = [held EXCEPT ![t] = engine]
    /\ UNCHANGED <<engineVars, seenVars, rows, blockVars, todo, query, recalled, mine>>

(* Fault: what was staged is not staged again. *)
ForScopeFailsNoRestage(t) ==
    /\ Return(t, "open")
    /\ UNCHANGED <<engineVars, seenVars, rows, blockVars>>

(* No engine: what was taken is staged again, and the request passes. *)
ForScopeFails(t) ==
    /\ Return(t, "open")
    /\ Stage(mine[t])
    /\ UNCHANGED <<engineVars, seenVars, rows, issued, injected>>

-----------------------------------------------------------------------------
(* Fault: the dedupe set is not asked. *)
ClaimWonUnasked(t) ==
    /\ Goto(t, "ingest", "process")
    /\ todo[t] # << >>
    /\ seen' = Claimed(seen, Head(todo[t]))
    /\ own' = [own EXCEPT ![t] = TRUE]
    /\ loose' = loose \cup (seen.marks \ seen'.marks)
    /\ UNCHANGED <<engineVars, rows, copies, blockVars, requestVars>>

(* durableIngest: claim, ... *)
ClaimWon(t) ==
    LET x == Head(todo[t])
    IN  /\ Goto(t, "ingest", "process")
        /\ todo[t] # << >>
        /\ x \notin seen.marks
        /\ seen' = Claimed(seen, x)
        /\ own' = [own EXCEPT ![t] = TRUE]
        /\ loose' = loose \cup ((seen.marks \cup {x}) \ seen'.marks)
        /\ UNCHANGED <<engineVars, rows, copies, blockVars, requestVars>>

Pop(t) == todo' = [todo EXCEPT ![t] = Tail(@)]

ClaimLost(t) ==
    /\ pc[t] = "ingest"
    /\ todo[t] # << >>
    /\ Head(todo[t]) \in seen.marks
    /\ Pop(t)
    /\ UNCHANGED <<engineVars, seenVars, rows, blockVars, pc, held, query, recalled, mine>>

(* ... store, ... *)
ProcessText(t) ==
    LET x == Head(todo[t])
    IN  /\ Goto(t, "process", "ingest")
        /\ hst[held[t]] # "closed"
        /\ rows' = rows \cup {x}
        /\ copies' = IF own[t] /\ copies[x] < 2 THEN [copies EXCEPT ![x] = @ + 1] ELSE copies
        /\ own' = [own EXCEPT ![t] = FALSE]
        /\ Pop(t)
        /\ UNCHANGED <<engineVars, seen, loose, blockVars, held, query, recalled, mine>>

(* Fault: the claim outlives the failure. *)
ProcessFailsKeepsMark(t) ==
    /\ Goto(t, "process", "ingest")
    /\ own' = [own EXCEPT ![t] = FALSE]
    /\ Pop(t)
    /\ UNCHANGED <<engineVars, seen, loose, rows, copies, blockVars, held, query, recalled, mine>>

(* ... or release the claim: the engine is closed, or fails.  The mark goes  *)
(* whoever set it.                                                           *)
ProcessFails(t) ==
    LET x == Head(todo[t])
    IN  /\ Goto(t, "process", "ingest")
        /\ seen' = Unmarked(seen, x)
        /\ loose' = IF own[t] THEN loose ELSE loose \cup ({x} \cap seen.marks)
        /\ own' = [own EXCEPT ![t] = FALSE]
        /\ Pop(t)
        /\ UNCHANGED <<engineVars, rows, copies, blockVars, held, query, recalled, mine>>

(* The history is ingested: recall for the query, if there is one. *)
Ingested(t) ==
    /\ todo[t] = << >>
    /\ Goto(t, "ingest", IF query[t] # None THEN "recall" ELSE "inject")
    /\ UNCHANGED <<engineVars, seenVars, rows, blockVars, requestVars>>

(* Recall finds something to inject only on an engine that is open.  Then    *)
(* the query is ingested.                                                    *)
Recall(t) ==
    /\ Goto(t, "recall", "ingest")
    /\ \E found \in BOOLEAN :
          /\ found => hst[held[t]] # "closed"
          /\ recalled' = [recalled EXCEPT ![t] = found]
    /\ todo' = [todo EXCEPT ![t] = <<query[t]>>]
    /\ query' = [query EXCEPT ![t] = None]
    /\ UNCHANGED <<engineVars, seenVars, rows, blockVars, held, mine>>

(* What the window shows already is left out; when nothing is left to inject *)
(* the request passes.                                                       *)
NothingToInject(t) ==
    /\ Return(t, "inject")
    /\ ~recalled[t]
    /\ dropped' = dropped \cup InOrder(mine[t])
    /\ UNCHANGED <<engineVars, seenVars, rows, staged, issued, injected>>

Inject(t) ==
    /\ Return(t, "inject")
    /\ \E visible \in SUBSET InOrder(mine[t]) :
          /\ recalled[t] \/ visible # InOrder(mine[t])
          /\ injected' = injected \cup (InOrder(mine[t]) \ visible)
          /\ dropped' = dropped \cup visible
    /\ UNCHANGED <<engineVars, seenVars, rows, staged, issued>>

(* Injection fails, or finds no place in the body: what was taken is staged  *)
(* again.                                                                    *)
InjectFails(t) ==
    /\ Return(t, "inject")
    /\ recalled[t] \/ mine[t] # << >>
    /\ Stage(mine[t])
    /\ UNCHANGED <<engineVars, seenVars, rows, issued, injected>>

-----------------------------------------------------------------------------
RequestRuns(t) ==
    \/ ForScope(t) \/ ForScopeFails(t)
    \/ ClaimWon(t) \/ ClaimLost(t) \/ ProcessText(t) \/ ProcessFails(t)
    \/ Ingested(t) \/ Recall(t)
    \/ NothingToInject(t) \/ Inject(t) \/ InjectFails(t)

Next ==
    \/ GateStages \/ BusOverflows
    \/ Retire \/ DrainWithoutEngine \/ Dispose
    \/ \E h \in Handles : Open(h) \/ Close(h)
    \/ \E t \in Threads : (\E in \in Inputs : Begin(t, in)) \/ RequestRuns(t)

Spec == Init /\ [][Next]_vars

-----------------------------------------------------------------------------
(* A mark in the dedupe set is backed by a stored text or by an ingest that  *)
(* will store it or remove the mark (store.go:478-483, engine.go:8-12),      *)
(* although sets are replaced and engines closed under the ingests.          *)
ClaimBacked ==
    \A x \in seen.marks :
        x \in rows \/ \E t \in Threads : pc[t] = "process" /\ Head(todo[t]) = x

(* Of the ingests of a text that claim it in the same set one stores it      *)
(* (store.go:478-483), unless the set let go of a mark or an ingest whose    *)
(* own set has been replaced released it.                                    *)
StoredOnce == \A x \in Texts \ loose : copies[x] <= 1

(* A block that a gate staged is in one place: on the bus, with one request,   *)
(* injected, or given up by a rule: it is neither lost with a request that    *)
(* passes nor injected twice (intercept.go:85, 98-101, 144-156).              *)
Count(b, blocks) == Cardinality({i \in DOMAIN blocks : blocks[i] = b})

BlocksInOnePlace ==
    \A b \in issued :
        Count(b, staged)
          + Cardinality({p \in Threads \X (1..MaxBlocks) : p[2] \in DOMAIN mine[p[1]] /\ mine[p[1]][p[2]] = b})
          + (IF b \in injected THEN 1 ELSE 0)
          + (IF b \in dropped THEN 1 ELSE 0) = 1
=============================================================================
