---------------------------- MODULE Requests_proofs ----------------------------
(***************************************************************************)
(* Proofs about the requests of a scope (plugin/intercept.go) and its      *)
(* dedupe set (plugin/store.go), for any number of requests, texts, blocks *)
(* and engines.                                                            *)
(***************************************************************************)
EXTENDS Requests, FiniteSetTheorems, SequenceTheorems, TLAPS

(* TypeOK, and the domains that it leaves out. *)
Labels == {"idle", "open", "ingest", "process", "recall", "inject"}

EngineType ==
    /\ engine \in Handles \cup {None}
    /\ hst \in [Handles -> {"closed", "live", "retired"}]
    /\ closed \in BOOLEAN /\ (closed => engine = None)

SeenIntact ==
    {s \in [marks : SUBSET Texts, order : Seq(Texts)] : s.marks \subseteq InOrder(s.order) /\ Len(s.order) <= MaxSeen}

SeenType == seen \in SeenIntact
FileType == rows \subseteq Texts
BusType  == staged \in Seq(Blocks) /\ Len(staged) <= MaxBlocks

ThreadType ==
    /\ pc \in [Threads -> Labels]
    /\ held \in [Threads -> Handles \cup {None}]
    /\ todo \in [Threads -> Seq(Texts)]
    /\ query \in [Threads -> Texts \cup {None}]
    /\ mine \in [Threads -> Seq(Blocks)]

(* What a request has at each step. *)
Control ==
    \A t \in Threads :
        /\ pc[t] = "process" => todo[t] # << >>
        /\ pc[t] \in {"ingest", "process", "recall"} => held[t] # None
        /\ pc[t] = "recall" => query[t] # None
        /\ pc[t] = "idle" => mine[t] = << >>

HistoryType ==
    /\ own \in [Threads -> BOOLEAN]
    /\ copies \in [Texts -> {0, 1, 2}]

TypeIntact == EngineType /\ SeenType /\ FileType /\ BusType /\ ThreadType /\ HistoryType

(* A text that was stored on a claim, or is about to be, is marked, and      *)
(* nobody else holds a claim on it.                                          *)
Claims(t, x) == own[t] /\ Head(todo[t]) = x

Sole(x) ==
    /\ copies[x] # 2
    /\ copies[x] = 1 => x \in seen.marks /\ \A t \in Threads : ~Claims(t, x)
    /\ \A t \in Threads :
          Claims(t, x) => x \in seen.marks /\ copies[x] = 0 /\ \A u \in Threads : Claims(u, x) => u = t

SoleClaims ==
    /\ \A t \in Threads : own[t] => pc[t] = "process"
    /\ \A x \in Texts \ loose : Sole(x)

Inv == TypeIntact /\ Control /\ ClaimBacked /\ SoleClaims

-----------------------------------------------------------------------------
(* The dedupe set. *)
LEMMA NoneSeenIntact == NoneSeen \in SeenIntact
<1>1. << >> \in Seq(Texts) /\ Len(<< >>) = 0
  BY EmptySeq
<1> QED BY <1>1, MaxSeenAssumption DEF NoneSeen, SeenIntact

(* A claim keeps the set within its bound and its marks within its order,    *)
(* whatever it forgets.                                                      *)
LEMMA ClaimedIntact ==
    ASSUME NEW s \in SeenIntact, NEW x \in Texts
    PROVE  Claimed(s, x) \in SeenIntact /\ Claimed(s, x).marks \subseteq s.marks \cup {x}
<1> DEFINE order == Append(s.order, x)
           drop  == IF Len(order) > MaxSeen THEN Len(order) - MaxSeen + MaxSeen \div 4 ELSE 0
           rest  == SubSeq(order, drop + 1, Len(order))
           marks == (s.marks \cup {x}) \ {order[i] : i \in 1..drop}
<1>1. s.marks \subseteq Texts /\ s.order \in Seq(Texts) /\ s.marks \subseteq InOrder(s.order) /\ Len(s.order) <= MaxSeen
  BY DEF SeenIntact
<1>2. /\ order \in Seq(Texts) /\ Len(order) = Len(s.order) + 1 /\ Len(s.order) \in Nat
      /\ \A i \in 1..Len(s.order) : order[i] = s.order[i]
      /\ order[Len(s.order) + 1] = x
  BY <1>1, AppendProperties, LenProperties
<1>3. DOMAIN s.order = 1..Len(s.order)
  BY <1>1, LenProperties
<1> HIDE DEF order
<1>4. MaxSeen \in Nat /\ MaxSeen \div 4 \in Nat /\ MaxSeen \div 4 <= MaxSeen
  BY MaxSeenAssumption
<1>5. drop \in 0..Len(order) /\ Len(order) - drop <= MaxSeen
  <2> DEFINE n == Len(order)
             q == MaxSeen \div 4
  <2>1. n \in Nat /\ n <= MaxSeen + 1 /\ MaxSeen \in Nat \ {0} /\ q \in Nat /\ q <= MaxSeen
    BY <1>1, <1>2, <1>4, MaxSeenAssumption
  <2>2. drop = IF n > MaxSeen THEN n - MaxSeen + q ELSE 0
    OBVIOUS
  <2> HIDE DEF n, q, drop
  <2>3. drop \in 0..n /\ n - drop <= MaxSeen
    BY <2>1, <2>2
  <2> QED BY <2>3 DEF n
<1> HIDE DEF drop
<1>6. /\ rest \in Seq(Texts) /\ Len(rest) = Len(order) - drop
      /\ \A i \in 1..(Len(order) - drop) : rest[i] = order[drop + i]
  <2>1. \A i \in (drop + 1)..Len(order) : order[i] \in Texts
    BY <1>2, <1>5, ElementOfSeq
  <2>2. drop + 1 \in Int /\ Len(order) \in Int
    BY <1>2, <1>5
  <2>3. /\ rest \in Seq(Texts)
        /\ Len(rest) = IF drop + 1 <= Len(order) THEN Len(order) - (drop + 1) + 1 ELSE 0
        /\ \A i \in 1..(Len(order) - (drop + 1) + 1) : rest[i] = order[(drop + 1) + i - 1]
    BY <2>1, <2>2, SubSeqProperties
  <2> HIDE DEF rest
  <2>4. Len(rest) = Len(order) - drop
    BY <1>2, <1>5, <2>3
  <2>5. ASSUME NEW i \in 1..(Len(order) - drop)
        PROVE  rest[i] = order[drop + i]
    <3>1. Len(order) \in Nat /\ drop \in Nat
      BY <1>2, <1>5
    <3>2. i \in 1..(Len(order) - (drop + 1) + 1) /\ (drop + 1) + i - 1 = drop + i
      BY <3>1
    <3> QED BY <2>3, <3>2
  <2> QED BY <2>3, <2>4, <2>5
<1> HIDE DEF rest
<1>7. marks \subseteq InOrder(rest)
  <2> SUFFICES ASSUME NEW y \in marks PROVE y \in InOrder(rest)
    OBVIOUS
  <2>1. PICK i \in 1..Len(order) : order[i] = y
    <3>1. CASE y = x
      BY <1>2, <3>1
    <3>2. CASE y \in s.marks
      <4>1. PICK j \in 1..Len(s.order) : s.order[j] = y
        BY <1>1, <1>3, <3>2 DEF InOrder
      <4> QED BY <1>2, <4>1
    <3> QED BY <3>1, <3>2
  <2>2. i \notin 1..drop
    BY <2>1
  <2>3. i - drop \in 1..(Len(order) - drop) /\ drop + (i - drop) = i
    BY <1>2, <1>5, <2>1, <2>2
  <2>4. rest[i - drop] = y
    BY <1>6, <2>1, <2>3
  <2>5. DOMAIN rest = 1..Len(rest)
    BY <1>6, LenProperties
  <2> QED BY <1>6, <2>3, <2>4, <2>5 DEF InOrder
<1>8. marks \subseteq Texts /\ marks \subseteq s.marks \cup {x}
  BY <1>1
<1>9. Claimed(s, x) = [marks |-> marks, order |-> rest]
  BY DEF Claimed, order, drop, rest
<1> HIDE DEF marks
<1> QED BY <1>5, <1>6, <1>7, <1>8, <1>9 DEF SeenIntact

LEMMA UnmarkedIntact ==
    ASSUME NEW s \in SeenIntact, NEW x
    PROVE  Unmarked(s, x) \in SeenIntact /\ Unmarked(s, x).marks = s.marks \ {x}
<1>1. Unmarked(s, x) = [s EXCEPT !.marks = s.marks \ {x}]
  BY DEF Unmarked
<1>2. s \in [marks : SUBSET Texts, order : Seq(Texts)]
  BY DEF SeenIntact
<1>3. Unmarked(s, x).marks = s.marks \ {x} /\ Unmarked(s, x).order = s.order
  BY <1>1, <1>2
<1>4. Unmarked(s, x) \in [marks : SUBSET Texts, order : Seq(Texts)]
  BY <1>1, <1>2
<1> QED BY <1>3, <1>4 DEF SeenIntact

(* The bus keeps the newest blocks, and no more than the cap. *)
LEMMA StageType ==
    ASSUME BusType, NEW blocks \in Seq(Blocks), Stage(blocks)
    PROVE  BusType'
<1> DEFINE all    == staged \o blocks
           excess == IF Len(all) > MaxBlocks THEN Len(all) - MaxBlocks ELSE 0
<1>1. all \in Seq(Blocks)
  BY ConcatProperties DEF BusType
<1>2. staged' = SubSeq(all, excess + 1, Len(all))
  BY DEF Stage
<1> HIDE DEF all
<1>3. Len(all) \in Nat /\ \A i \in 1..Len(all) : all[i] \in Blocks
  BY <1>1, LenProperties, ElementOfSeq
<1>4. excess \in 0..Len(all) /\ Len(all) - excess <= MaxBlocks /\ MaxBlocks \in Nat
  BY <1>3, MaxBlocksAssumption
<1> HIDE DEF excess
<1>5. \A i \in (excess + 1)..Len(all) : all[i] \in Blocks
  BY <1>3, <1>4
<1>6. /\ SubSeq(all, excess + 1, Len(all)) \in Seq(Blocks)
      /\ Len(SubSeq(all, excess + 1, Len(all))) = IF excess + 1 <= Len(all) THEN Len(all) - (excess + 1) + 1 ELSE 0
  <2>1. excess + 1 \in Int /\ Len(all) \in Int
    BY <1>3, <1>4
  <2> QED BY <1>5, <2>1, SubSeqProperties
<1> QED BY <1>2, <1>3, <1>4, <1>6 DEF BusType

LEMMA EmptyBus ==
    ASSUME staged' = << >>
    PROVE  BusType'
BY EmptySeq, MaxBlocksAssumption DEF BusType

-----------------------------------------------------------------------------
LEMMA InitInv == Init => Inv
<1> SUFFICES ASSUME Init PROVE Inv
  OBVIOUS
<1>1. TypeIntact
  <2>1. EngineType /\ FileType
    BY DEF Init, EngineType, FileType
  <2>2. SeenType
    BY NoneSeenIntact DEF Init, SeenType
  <2>3. BusType
    BY EmptySeq, MaxBlocksAssumption DEF Init, BusType
  <2>4. ThreadType
    BY EmptySeq DEF Init, ThreadType, Labels
  <2>5. HistoryType
    BY DEF Init, HistoryType
  <2> QED BY <2>1, <2>2, <2>3, <2>4, <2>5 DEF TypeIntact
<1>2. Control
  BY DEF Init, Control
<1>3. ClaimBacked
  BY DEF Init, ClaimBacked, NoneSeen
<1>4. SoleClaims
  BY DEF Init, SoleClaims, Sole, Claims
<1> QED BY <1>1, <1>2, <1>3, <1>4 DEF Inv

-----------------------------------------------------------------------------
(* The store and the bus go on under the requests: a set that is replaced    *)
(* has no marks, and nothing is taken out of the file.                       *)
LEMMA UnderneathPreserves ==
    ASSUME Inv, EngineType', BusType', UNCHANGED seenVars \/ ForgetSeen, UNCHANGED <<rows, pc, requestVars>>
    PROVE  Inv'
<1>0. seen' \in {seen, NoneSeen}
  BY DEF seenVars, ForgetSeen
<1>1. SeenType'
  BY <1>0, NoneSeenIntact DEF Inv, TypeIntact, SeenType
<1>2. FileType' /\ ThreadType' /\ Control'
  BY DEF Inv, TypeIntact, FileType, ThreadType, Control, requestVars
<1>3. ClaimBacked'
  <2>1. seen'.marks \subseteq seen.marks
    BY <1>0 DEF NoneSeen
  <2> QED BY <2>1 DEF Inv, ClaimBacked, requestVars
<1>4. HistoryType' /\ SoleClaims'
  <2>1. CASE UNCHANGED seenVars
    BY <2>1 DEF Inv, TypeIntact, HistoryType, SoleClaims, Sole, Claims, seenVars, requestVars
  <2>2. CASE ForgetSeen
    BY <2>2 DEF ForgetSeen, HistoryType, SoleClaims, Sole, Claims
  <2> QED BY <2>1, <2>2
<1> QED BY <1>1, <1>2, <1>3, <1>4 DEF Inv, TypeIntact

LEMMA StorePreserves ==
    ASSUME Inv, \/ GateStages \/ BusOverflows
                \/ Retire \/ DrainWithoutEngine \/ Dispose
                \/ \E h \in Handles : Open(h) \/ Close(h)
    PROVE  Inv'
<1>1. EngineType /\ BusType
  BY DEF Inv, TypeIntact
<1>2. CASE GateStages
  <2>1. PICK b \in Blocks : Stage(<<b>>)
    BY <1>2 DEF GateStages
  <2>2. <<b>> \in Seq(Blocks)
    OBVIOUS
  <2>3. BusType'
    BY <1>1, <2>1, <2>2, StageType
  <2>4. EngineType' /\ UNCHANGED <<seenVars, rows, pc, requestVars>>
    BY <1>1, <1>2 DEF GateStages, EngineType, engineVars
  <2> QED BY <2>3, <2>4, UnderneathPreserves
<1>3. CASE BusOverflows
  <2>1. BusType'
    BY <1>3, EmptyBus DEF BusOverflows, Drop
  <2>2. EngineType' /\ UNCHANGED <<seenVars, rows, pc, requestVars>>
    BY <1>1, <1>3 DEF BusOverflows, EngineType, engineVars
  <2> QED BY <2>1, <2>2, UnderneathPreserves
<1>4. CASE Retire
  <2>1. BusType'
    BY <1>4, EmptyBus DEF Retire, Drop
  <2>2. EngineType' /\ ForgetSeen /\ UNCHANGED <<rows, pc, requestVars>>
    BY <1>1, <1>4 DEF Retire, EngineType
  <2> QED BY <2>1, <2>2, UnderneathPreserves
<1>5. CASE DrainWithoutEngine
  <2>1. BusType' /\ EngineType' /\ ForgetSeen /\ UNCHANGED <<rows, pc, requestVars>>
    BY <1>1, <1>5 DEF DrainWithoutEngine, EngineType, BusType, engineVars, blockVars
  <2> QED BY <2>1, UnderneathPreserves
<1>6. CASE Dispose
  <2>1. BusType'
    BY <1>6, EmptyBus DEF Dispose, Drop
  <2>2. EngineType' /\ ForgetSeen /\ UNCHANGED <<rows, pc, requestVars>>
    BY <1>1, <1>6 DEF Dispose, EngineType
  <2> QED BY <2>1, <2>2, UnderneathPreserves
<1>7. ASSUME NEW h \in Handles, Open(h) \/ Close(h)
      PROVE  Inv'
  <2>1. BusType' /\ UNCHANGED <<seenVars, rows, pc, requestVars>>
    BY <1>1, <1>7 DEF Open, Close, BusType, blockVars
  <2>2. CASE Open(h)
    <3>1. EngineType'
      BY <1>1, <2>2 DEF Open, EngineType
    <3> QED BY <2>1, <3>1, UnderneathPreserves
  <2>3. CASE Close(h)
    <3>1. EngineType'
      BY <1>1, <2>3 DEF Close, EngineType
    <3> QED BY <2>1, <3>1, UnderneathPreserves
  <2> QED BY <1>7, <2>2, <2>3
<1> QED BY <1>2, <1>3, <1>4, <1>5, <1>6, <1>7

-----------------------------------------------------------------------------
OthersKept(t) ==
    \A u \in Threads \ {t} :
        pc'[u] = pc[u] /\ held'[u] = held[u] /\ todo'[u] = todo[u] /\ query'[u] = query[u] /\ mine'[u] = mine[u]

(* A request goes on, and has what its next step needs; whoever is in the    *)
(* middle of an ingest keeps its text.                                       *)
LEMMA RequestPreserves ==
    ASSUME Inv, NEW t \in Threads, ThreadType', BusType', UNCHANGED <<engineVars, seenVars, rows>>,
           OthersKept(t),
           pc[t] # "process", pc'[t] # "process",
           pc'[t] \in {"ingest", "recall"} => held'[t] # None,
           pc'[t] = "recall" => query'[t] # None,
           pc'[t] = "idle" => mine'[t] = << >>
    PROVE  Inv'
<1>1. EngineType' /\ SeenType' /\ FileType'
  BY DEF Inv, TypeIntact, EngineType, SeenType, FileType, engineVars, seenVars
<1>2. Control'
  <2> SUFFICES ASSUME NEW u \in Threads
               PROVE  /\ pc'[u] = "process" => todo'[u] # << >>
                      /\ pc'[u] \in {"ingest", "process", "recall"} => held'[u] # None
                      /\ pc'[u] = "recall" => query'[u] # None
                      /\ pc'[u] = "idle" => mine'[u] = << >>
    BY DEF Control
  <2>1. CASE u = t
    BY <2>1
  <2>2. CASE u # t
    BY <2>2 DEF Inv, Control, OthersKept
  <2> QED BY <2>1, <2>2
<1>3. ClaimBacked'
  <2>1. \A u \in Threads : pc[u] = "process" => pc'[u] = "process" /\ todo'[u] = todo[u]
    BY DEF OthersKept
  <2> QED BY <2>1 DEF Inv, ClaimBacked, seenVars
<1>4. HistoryType' /\ SoleClaims'
  <2>1. \A u \in Threads : own[u] => pc'[u] = "process" /\ todo'[u] = todo[u]
    BY DEF Inv, SoleClaims, OthersKept
  <2>2. UNCHANGED <<own, copies, loose, seen>>
    BY DEF seenVars
  <2>3. \A u \in Threads, x \in Texts : Claims(u, x)' = Claims(u, x)
    BY <2>1, <2>2 DEF Inv, TypeIntact, HistoryType, Claims
  <2> QED BY <2>1, <2>2, <2>3 DEF Inv, TypeIntact, HistoryType, SoleClaims, Sole
<1> QED BY <1>1, <1>2, <1>3, <1>4 DEF Inv, TypeIntact

(* The request of a step takes new values, the others keep theirs. *)
LEMMA LocalsChange ==
    ASSUME ThreadType, NEW t \in Threads,
           NEW label \in Labels, pc' = [pc EXCEPT ![t] = label],
           \/ held' = held \/ \E h \in Handles \cup {None} : held' = [held EXCEPT ![t] = h],
           \/ todo' = todo \/ \E s \in Seq(Texts) : todo' = [todo EXCEPT ![t] = s],
           \/ query' = query \/ \E q \in Texts \cup {None} : query' = [query EXCEPT ![t] = q],
           \/ mine' = mine \/ \E b \in Seq(Blocks) : mine' = [mine EXCEPT ![t] = b]
    PROVE  ThreadType' /\ pc'[t] = label /\ OthersKept(t)
<1>1. /\ pc' \in [Threads -> Labels] /\ pc'[t] = label
      /\ \A u \in Threads \ {t} : pc'[u] = pc[u]
  BY DEF ThreadType
<1>2. held' \in [Threads -> Handles \cup {None}] /\ \A u \in Threads \ {t} : held'[u] = held[u]
  BY DEF ThreadType
<1>3. todo' \in [Threads -> Seq(Texts)] /\ \A u \in Threads \ {t} : todo'[u] = todo[u]
  BY DEF ThreadType
<1>4. query' \in [Threads -> Texts \cup {None}] /\ \A u \in Threads \ {t} : query'[u] = query[u]
  BY DEF ThreadType
<1>5. mine' \in [Threads -> Seq(Blocks)] /\ \A u \in Threads \ {t} : mine'[u] = mine[u]
  BY DEF ThreadType
<1> QED BY <1>1, <1>2, <1>3, <1>4, <1>5 DEF ThreadType, OthersKept

LEMMA Locals ==
    ASSUME Inv, NEW t \in Threads
    PROVE  /\ ThreadType
           /\ held[t] \in Handles \cup {None} /\ todo[t] \in Seq(Texts)
           /\ query[t] \in Texts \cup {None} /\ mine[t] \in Seq(Blocks)
BY DEF Inv, TypeIntact, ThreadType

LEMMA ReturnPreserves ==
    ASSUME Inv, NEW t \in Threads, NEW from \in {"open", "inject"}, Return(t, from),
           UNCHANGED <<engineVars, seenVars, rows>>, BusType'
    PROVE  Inv'
<1>1. /\ pc[t] # "process" /\ pc' = [pc EXCEPT ![t] = "idle"] /\ "idle" \in Labels
      /\ held' = [held EXCEPT ![t] = None] /\ todo' = [todo EXCEPT ![t] = << >>]
      /\ query' = [query EXCEPT ![t] = None] /\ mine' = [mine EXCEPT ![t] = << >>]
  BY DEF Return, Goto, Labels
<1>2. << >> \in Seq(Texts) /\ << >> \in Seq(Blocks)
  BY EmptySeq
<1>3. ThreadType' /\ pc'[t] = "idle" /\ OthersKept(t)
  BY <1>1, <1>2, Locals, LocalsChange
<1>4. mine'[t] = << >>
  BY <1>1, Locals DEF ThreadType
<1> QED BY <1>1, <1>3, <1>4, RequestPreserves

LEMMA BeginPreserves ==
    ASSUME Inv, NEW t \in Threads, NEW in \in Inputs, Begin(t, in)
    PROVE  Inv'
<1> DEFINE label == IF in.query = None /\ in.todo = << >> THEN "inject" ELSE "open"
<1>1. /\ pc[t] # "process" /\ pc' = [pc EXCEPT ![t] = label] /\ UNCHANGED <<engineVars, seenVars, rows, held>>
      /\ todo' = [todo EXCEPT ![t] = in.todo] /\ query' = [query EXCEPT ![t] = in.query]
      /\ mine' = [mine EXCEPT ![t] = staged]
  BY DEF Begin, Goto
<1>2. in.todo \in Seq(Texts) /\ in.query \in Texts \cup {None} /\ staged \in Seq(Blocks)
  BY InputsAssumption DEF Inv, TypeIntact, BusType
<1>3. BusType'
  BY EmptyBus DEF Begin
<1>4. label \in Labels \ {"process", "ingest", "recall", "idle"}
  BY DEF Labels
<1> HIDE DEF label
<1>5. ThreadType' /\ pc'[t] = label /\ OthersKept(t)
  BY <1>1, <1>2, <1>4, Locals, LocalsChange
<1> QED BY <1>1, <1>3, <1>4, <1>5, RequestPreserves

LEMMA ForScopePreserves ==
    ASSUME Inv, NEW t \in Threads, ForScope(t)
    PROVE  Inv'
<1>1. /\ pc[t] # "process" /\ pc' = [pc EXCEPT ![t] = "ingest"] /\ "ingest" \in Labels
      /\ held' = [held EXCEPT ![t] = engine] /\ engine # None
      /\ UNCHANGED <<engineVars, seenVars, rows, todo, query, mine>>
  BY DEF ForScope, Goto, Labels
<1>2. engine \in Handles \cup {None} /\ BusType'
  BY DEF ForScope, blockVars, Inv, TypeIntact, EngineType, BusType
<1>3. ThreadType' /\ pc'[t] = "ingest" /\ OthersKept(t)
  BY <1>1, <1>2, Locals, LocalsChange
<1>4. held'[t] # None
  BY <1>1, Locals DEF ThreadType
<1> QED BY <1>1, <1>2, <1>3, <1>4, RequestPreserves

LEMMA ForScopeFailsPreserves ==
    ASSUME Inv, NEW t \in Threads, ForScopeFails(t)
    PROVE  Inv'
<1>1. BusType'
  BY Locals, StageType DEF ForScopeFails, Inv, TypeIntact
<1>2. Return(t, "open") /\ UNCHANGED <<engineVars, seenVars, rows>>
  BY DEF ForScopeFails
<1> QED BY <1>1, <1>2, ReturnPreserves

LEMMA ClaimLostPreserves ==
    ASSUME Inv, NEW t \in Threads, ClaimLost(t)
    PROVE  Inv'
<1>1. /\ pc[t] = "ingest" /\ todo[t] # << >> /\ "ingest" \in Labels
      /\ pc' = pc /\ todo' = [todo EXCEPT ![t] = Tail(todo[t])]
      /\ UNCHANGED <<engineVars, seenVars, rows, held, query, mine>>
  BY DEF ClaimLost, Pop, Labels
<1>2. Tail(todo[t]) \in Seq(Texts)
  BY <1>1, Locals, HeadTailProperties
<1>3. BusType' /\ held[t] # None
  BY <1>1 DEF ClaimLost, blockVars, Inv, TypeIntact, BusType, Control
<1>4. pc' = [pc EXCEPT ![t] = "ingest"]
  BY <1>1, Locals DEF ThreadType
<1>5. ThreadType' /\ pc'[t] = "ingest" /\ OthersKept(t)
  BY <1>1, <1>2, <1>4, Locals, LocalsChange
<1> QED BY <1>1, <1>3, <1>5, RequestPreserves

LEMMA IngestedPreserves ==
    ASSUME Inv, NEW t \in Threads, Ingested(t)
    PROVE  Inv'
<1> DEFINE label == IF query[t] # None THEN "recall" ELSE "inject"
<1>1. /\ pc[t] = "ingest" /\ pc' = [pc EXCEPT ![t] = label]
      /\ UNCHANGED <<engineVars, seenVars, rows, held, todo, query, mine>>
  BY DEF Ingested, Goto, requestVars
<1>2. BusType' /\ held[t] # None
  BY <1>1 DEF Ingested, blockVars, Inv, TypeIntact, BusType, Control
<1>3. label \in Labels \ {"process", "ingest", "idle"} /\ (label = "recall" => query[t] # None)
  BY DEF Labels
<1> HIDE DEF label
<1>4. ThreadType' /\ pc'[t] = label /\ OthersKept(t)
  BY <1>1, <1>3, Locals, LocalsChange
<1> QED BY <1>1, <1>2, <1>3, <1>4, RequestPreserves

LEMMA RecallPreserves ==
    ASSUME Inv, NEW t \in Threads, Recall(t)
    PROVE  Inv'
<1>1. /\ pc[t] = "recall" /\ pc' = [pc EXCEPT ![t] = "ingest"] /\ "ingest" \in Labels
      /\ todo' = [todo EXCEPT ![t] = <<query[t]>>] /\ query' = [query EXCEPT ![t] = None]
      /\ UNCHANGED <<engineVars, seenVars, rows, held, mine>>
  BY DEF Recall, Goto, Labels
<1>2. BusType' /\ held[t] # None /\ query[t] # None
  BY <1>1 DEF Recall, blockVars, Inv, TypeIntact, BusType, Control
<1>3. <<query[t]>> \in Seq(Texts)
  <2>1. query[t] \in Texts
    BY <1>2, Locals
  <2> QED BY <2>1
<1>4. ThreadType' /\ pc'[t] = "ingest" /\ OthersKept(t)
  BY <1>1, <1>3, Locals, LocalsChange
<1> QED BY <1>1, <1>2, <1>4, RequestPreserves

LEMMA InjectionPreserves ==
    ASSUME Inv, NEW t \in Threads, NothingToInject(t) \/ Inject(t) \/ InjectFails(t)
    PROVE  Inv'
<1>1. Return(t, "inject") /\ UNCHANGED <<engineVars, seenVars, rows>>
  BY DEF NothingToInject, Inject, InjectFails
<1>2. BusType'
  <2>1. CASE InjectFails(t)
    BY <2>1, Locals, StageType DEF InjectFails, Inv, TypeIntact
  <2>2. CASE NothingToInject(t) \/ Inject(t)
    BY <2>2 DEF NothingToInject, Inject, Inv, TypeIntact, BusType
  <2> QED BY <2>1, <2>2
<1> QED BY <1>1, <1>2, ReturnPreserves

-----------------------------------------------------------------------------
(* The steps of durableIngest that change the set or the file. *)
LEMMA ClaimWonPreserves ==
    ASSUME Inv, NEW t \in Threads, ClaimWon(t)
    PROVE  Inv'
<1> DEFINE x == Head(todo[t])
<1>1. /\ pc[t] = "ingest" /\ pc' = [pc EXCEPT ![t] = "process"] /\ todo[t] # << >> /\ seen' = Claimed(seen, x)
      /\ UNCHANGED <<engineVars, rows, copies, blockVars, requestVars>>
      /\ x \notin seen.marks /\ own' = [own EXCEPT ![t] = TRUE]
      /\ loose' = loose \cup ((seen.marks \cup {x}) \ seen'.marks)
  BY DEF ClaimWon, Goto
<1>2. x \in Texts
  BY <1>1, Locals, HeadTailProperties
<1>3. SeenType' /\ seen'.marks \subseteq seen.marks \cup {x}
  BY <1>1, <1>2, ClaimedIntact DEF Inv, TypeIntact, SeenType
<1>4. pc \in [Threads -> Labels] /\ "process" \in Labels
  BY DEF Inv, TypeIntact, ThreadType, Labels
<1>5. EngineType' /\ FileType' /\ BusType'
  BY <1>1 DEF Inv, TypeIntact, EngineType, FileType, BusType, engineVars, blockVars
<1>6. ThreadType'
  BY <1>1, <1>4 DEF Inv, TypeIntact, ThreadType, requestVars
<1>7. Control'
  BY <1>1, <1>4 DEF Inv, Control, requestVars
<1>8. ClaimBacked'
  <2>1. todo' = todo /\ rows' = rows /\ pc'[t] = "process"
    BY <1>1, <1>4 DEF requestVars
  <2>2. \A u \in Threads : pc[u] = "process" => pc'[u] = "process"
    BY <1>1, <1>4
  <2> SUFFICES ASSUME NEW y \in seen'.marks
               PROVE  y \in rows' \/ \E u \in Threads : pc'[u] = "process" /\ Head(todo'[u]) = y
    BY DEF ClaimBacked
  <2>3. CASE y = x
    BY <2>1, <2>3
  <2>4. CASE y \in seen.marks
    BY <2>1, <2>2, <2>4 DEF Inv, ClaimBacked
  <2> QED BY <1>3, <2>3, <2>4
<1>9. HistoryType'
  BY <1>1 DEF Inv, TypeIntact, HistoryType
<1>10. SoleClaims'
  <2>1. own \in [Threads -> BOOLEAN] /\ todo' = todo
    BY <1>1 DEF Inv, TypeIntact, HistoryType, requestVars
  <2>2. \A u \in Threads : own'[u] => pc'[u] = "process"
    BY <1>1, <1>4, <2>1 DEF Inv, SoleClaims
  <2> SUFFICES ASSUME NEW y \in Texts \ loose' PROVE Sole(y)'
    BY <2>2 DEF SoleClaims
  <2>3. Sole(y) /\ (y \in seen.marks \cup {x} => y \in seen'.marks)
    BY <1>1 DEF Inv, SoleClaims
  <2>4. \A u \in Threads : Claims(u, y)' <=> (IF u = t THEN y = x ELSE Claims(u, y))
    BY <1>1, <2>1 DEF Claims
  <2>5. CASE y = x
    <3>1. copies[y] \in {0, 1, 2}
      BY DEF Inv, TypeIntact, HistoryType
    <3>2. copies[y] = 0 /\ \A u \in Threads : ~Claims(u, y)
      BY <1>1, <2>3, <2>5, <3>1 DEF Sole
    <3> QED BY <1>1, <2>3, <2>4, <2>5, <3>2 DEF Sole
  <2>6. CASE y # x
    <3>1. ~own[t]
      BY <1>1 DEF Inv, SoleClaims
    <3> QED BY <1>1, <2>3, <2>4, <2>6, <3>1 DEF Sole, Claims
  <2> QED BY <2>5, <2>6
<1> QED BY <1>3, <1>5, <1>6, <1>7, <1>8, <1>9, <1>10 DEF Inv, TypeIntact

(* An ingest ends: its text is in the file, or its mark has gone. *)
LEMMA IngestEnds ==
    ASSUME Inv, NEW t \in Threads, ProcessText(t) \/ ProcessFails(t)
    PROVE  Inv'
<1> DEFINE x == Head(todo[t])
<1>1. /\ pc[t] = "process" /\ pc' = [pc EXCEPT ![t] = "ingest"] /\ todo' = [todo EXCEPT ![t] = Tail(todo[t])]
      /\ UNCHANGED <<engineVars, blockVars, held, query, mine>>
  BY DEF ProcessText, ProcessFails, Goto, Pop
<1>2. x \in Texts /\ Tail(todo[t]) \in Seq(Texts) /\ held[t] # None
  <2>1. todo[t] # << >> /\ held[t] # None
    BY <1>1 DEF Inv, Control
  <2> QED BY <2>1, Locals, HeadTailProperties
<1>3. \/ seen' = seen /\ rows' = rows \cup {x}
      \/ seen' = Unmarked(seen, x) /\ rows' = rows
  BY DEF ProcessText, ProcessFails
<1>4. /\ SeenType' /\ FileType'
      /\ seen'.marks \subseteq seen.marks /\ rows \subseteq rows'
      /\ x \in seen'.marks => x \in rows'
  BY <1>2, <1>3, UnmarkedIntact DEF Inv, TypeIntact, SeenType, FileType
<1>5. pc \in [Threads -> Labels] /\ todo \in [Threads -> Seq(Texts)] /\ "ingest" \in Labels
  BY DEF Inv, TypeIntact, ThreadType, Labels
<1>6. EngineType' /\ BusType'
  BY <1>1 DEF Inv, TypeIntact, EngineType, BusType, engineVars, blockVars
<1>7. ThreadType'
  BY <1>1, <1>2, <1>5 DEF Inv, TypeIntact, ThreadType
<1>8. Control'
  BY <1>1, <1>2, <1>5 DEF Inv, Control
<1>9. ClaimBacked'
  <2>1. \A u \in Threads : u # t => pc'[u] = pc[u] /\ todo'[u] = todo[u]
    BY <1>1, <1>5
  <2> SUFFICES ASSUME NEW y \in seen'.marks
               PROVE  y \in rows' \/ \E u \in Threads : pc'[u] = "process" /\ Head(todo'[u]) = y
    BY DEF ClaimBacked
  <2>2. CASE y = x
    BY <1>4, <2>2
  <2>3. CASE y # x
    <3>1. y \in rows \/ \E u \in Threads : pc[u] = "process" /\ Head(todo[u]) = y
      BY <1>4 DEF Inv, ClaimBacked
    <3> QED BY <1>4, <2>1, <2>3, <3>1
  <2> QED BY <2>2, <2>3
<1>10. own \in [Threads -> BOOLEAN] /\ own' = [own EXCEPT ![t] = FALSE] /\ copies \in [Texts -> {0, 1, 2}]
  BY DEF ProcessText, ProcessFails, Inv, TypeIntact, HistoryType
<1>11. copies' \in [Texts -> {0, 1, 2}]
  BY <1>10 DEF ProcessText, ProcessFails
<1>12. SoleClaims'
  <2>1. \A u \in Threads : own'[u] => pc'[u] = "process"
    BY <1>1, <1>5, <1>10 DEF Inv, SoleClaims
  <2> SUFFICES ASSUME NEW y \in Texts \ loose' PROVE Sole(y)'
    BY <2>1 DEF SoleClaims
  <2>2. y \notin loose
    BY DEF ProcessText, ProcessFails, seenVars
  <2>3. Sole(y) /\ copies[y] \in {0, 1, 2}
    BY <1>10, <2>2 DEF Inv, SoleClaims
  <2>4. \A u \in Threads : Claims(u, y)' <=> (u # t /\ Claims(u, y))
    BY <1>1, <1>5, <1>10 DEF Claims
  <2>5. CASE y # x
    <3>1. copies'[y] = copies[y] /\ (y \in seen.marks => y \in seen'.marks)
      BY <1>2, <1>3, <1>10, <2>5, UnmarkedIntact DEF ProcessText, ProcessFails, Inv, TypeIntact, SeenType
    <3> QED BY <2>3, <2>4, <3>1 DEF Sole
  <2>6. CASE y = x /\ ProcessText(t)
    <3>1. seen' = seen /\ copies' = IF own[t] /\ copies[x] < 2 THEN [copies EXCEPT ![x] = @ + 1] ELSE copies
      BY <2>6 DEF ProcessText
    <3>2. CASE own[t]
      <4>1. Claims(t, y)
        BY <2>6, <3>2 DEF Claims
      <4>2. y \in seen.marks /\ copies[y] = 0 /\ \A u \in Threads : Claims(u, y) => u = t
        BY <2>3, <4>1 DEF Sole
      <4>3. copies'[y] = 1
        BY <1>10, <2>6, <3>1, <3>2, <4>2
      <4> QED BY <2>4, <3>1, <4>2, <4>3 DEF Sole
    <3>3. CASE ~own[t]
      BY <2>3, <2>4, <3>1, <3>3 DEF Sole
    <3> QED BY <1>10, <3>2, <3>3
  <2>7. CASE y = x /\ ProcessFails(t)
    <3>1. copies' = copies /\ loose' = IF own[t] THEN loose ELSE loose \cup ({x} \cap seen.marks)
      BY <2>7 DEF ProcessFails
    <3>2. CASE own[t]
      <4>1. Claims(t, y)
        BY <2>7, <3>2 DEF Claims
      <4>2. copies[y] = 0 /\ \A u \in Threads : Claims(u, y) => u = t
        BY <2>3, <4>1 DEF Sole
      <4> QED BY <2>4, <3>1, <4>2 DEF Sole
    <3>3. CASE ~own[t]
      <4>1. y \notin seen.marks
        BY <2>7, <3>1, <3>3
      <4>2. copies[y] = 0 /\ \A u \in Threads : ~Claims(u, y)
        BY <2>3, <4>1 DEF Sole
      <4> QED BY <2>4, <3>1, <4>2 DEF Sole
    <3> QED BY <1>10, <3>2, <3>3
  <2> QED BY <2>5, <2>6, <2>7
<1> QED BY <1>4, <1>6, <1>7, <1>8, <1>9, <1>10, <1>11, <1>12 DEF Inv, TypeIntact, HistoryType

-----------------------------------------------------------------------------
LEMMA NextInv == Inv /\ [Next]_vars => Inv'
<1> SUFFICES ASSUME Inv, [Next]_vars PROVE Inv'
  OBVIOUS
<1>1. CASE UNCHANGED vars
  <2>1. EngineType' /\ BusType' /\ UNCHANGED <<seenVars, rows, pc, requestVars>>
    BY <1>1 DEF vars, engineVars, blockVars, Inv, TypeIntact, EngineType, BusType
  <2> QED BY <2>1, UnderneathPreserves
<1>2. ASSUME \/ GateStages \/ BusOverflows
             \/ Retire \/ DrainWithoutEngine \/ Dispose
             \/ \E h \in Handles : Open(h) \/ Close(h)
      PROVE  Inv'
  BY <1>2, StorePreserves
<1>3. ASSUME NEW t \in Threads, NEW in \in Inputs, Begin(t, in)
      PROVE  Inv'
  BY <1>3, BeginPreserves
<1>4. ASSUME NEW t \in Threads, RequestRuns(t)
      PROVE  Inv'
  BY <1>4, ForScopePreserves, ForScopeFailsPreserves, ClaimWonPreserves, ClaimLostPreserves, IngestEnds,
     IngestedPreserves, RecallPreserves, InjectionPreserves DEF RequestRuns
<1> QED BY <1>1, <1>2, <1>3, <1>4 DEF Next

LEMMA InvHolds == Spec => []Inv
<1> QED BY InitInv, NextInv, PTL DEF Spec

(* The variables keep their types; in particular the dedupe set stays within *)
(* maxSeenHashes and marks nothing that its order has forgotten, and the bus *)
(* stays within its cap (store.go:497-505, bus.go:48-56).                    *)
THEOREM TypeCorrect == Spec => []TypeOK
<1>1. Inv => TypeOK
  <2> SUFFICES ASSUME Inv PROVE TypeOK
    OBVIOUS
  <2>1. seen.marks \subseteq InOrder(seen.order) /\ Len(seen.order) <= MaxSeen
    BY DEF Inv, TypeIntact, SeenType, SeenIntact
  <2>2. InOrder(staged) \subseteq Blocks /\ Len(staged) <= MaxBlocks
    BY LenProperties, ElementOfSeq DEF Inv, TypeIntact, BusType, InOrder
  <2>3. \A t \in Threads : InOrder(todo[t]) \subseteq Texts
    <3> SUFFICES ASSUME NEW t \in Threads PROVE InOrder(todo[t]) \subseteq Texts
      OBVIOUS
    <3>1. todo[t] \in Seq(Texts)
      BY Locals
    <3> QED BY <3>1, LenProperties, ElementOfSeq DEF InOrder
  <2>4. \A t \in Threads : held[t] \in Handles \cup {None} /\ query[t] \in Texts \cup {None}
    BY Locals
  <2> QED BY <2>1, <2>2, <2>3, <2>4 DEF Inv, TypeIntact, EngineType, FileType, ThreadType, Labels, Control, TypeOK
<1> QED BY <1>1, InvHolds, PTL

(* A mark is backed by a stored text or by an ingest under way, whichever    *)
(* sets are replaced and engines closed under the ingests.                   *)
THEOREM ClaimsAreBacked == Spec => []ClaimBacked
<1>1. Inv => ClaimBacked
  BY DEF Inv
<1> QED BY <1>1, InvHolds, PTL

(* Of the ingests that claim a text in one dedupe set only one stores it,    *)
(* while the set has let go of no mark of it before its time.                *)
THEOREM TextsStoredOnce == Spec => []StoredOnce
<1>1. Inv => StoredOnce
  <2> SUFFICES ASSUME Inv, NEW x \in Texts \ loose PROVE copies[x] <= 1
    BY DEF StoredOnce
  <2>1. copies[x] \in {0, 1, 2} /\ copies[x] # 2
    BY DEF Inv, TypeIntact, HistoryType, SoleClaims, Sole
  <2> QED BY <2>1
<1> QED BY <1>1, InvHolds, PTL

-----------------------------------------------------------------------------
(* The blocks.  On the bus and with a request a block is at one position, the *)
(* bus, the requests, injected and dropped share none, and together they have *)
(* all that was issued.                                                       *)
Distinct(s) == \A i, j \in DOMAIN s : s[i] = s[j] => i = j

BusDistinct  == Distinct(staged)
MineDistinct == \A t \in Threads : Distinct(mine[t]) /\ Len(mine[t]) <= MaxBlocks
BusApart     == InOrder(staged) \cap (injected \cup dropped) = {} /\ injected \cap dropped = {}

MineApart ==
    \A t \in Threads :
        /\ InOrder(mine[t]) \cap (InOrder(staged) \cup injected \cup dropped) = {}
        /\ \A u \in Threads : u # t => InOrder(mine[t]) \cap InOrder(mine[u]) = {}

AllAccounted ==
    /\ InOrder(staged) \cup injected \cup dropped \subseteq issued
    /\ \A t \in Threads : InOrder(mine[t]) \subseteq issued
    /\ \A b \in issued : b \in InOrder(staged) \cup injected \cup dropped \/ \E t \in Threads : b \in InOrder(mine[t])

BlockInv == BusDistinct /\ MineDistinct /\ BusApart /\ MineApart /\ AllAccounted

LEMMA EmptyOrder == InOrder(<< >>) = {} /\ Distinct(<< >>)
BY DEF InOrder, Distinct

(* What is put behind what is staged is staged or dropped, each block once.   *)
LEMMA StageSplits ==
    ASSUME staged \in Seq(Blocks), NEW blocks \in Seq(Blocks), Distinct(staged), Distinct(blocks),
           InOrder(staged) \cap InOrder(blocks) = {}, Stage(blocks)
    PROVE  /\ Distinct(staged')
           /\ \E gone : /\ dropped' = dropped \cup gone
                        /\ gone \cap InOrder(staged') = {}
                        /\ gone \cup InOrder(staged') = InOrder(staged) \cup InOrder(blocks)
<1> DEFINE all    == staged \o blocks
           excess == IF Len(all) > MaxBlocks THEN Len(all) - MaxBlocks ELSE 0
           gone   == {all[i] : i \in 1..excess}
<1>1. /\ Len(staged) \in Nat /\ Len(blocks) \in Nat
      /\ DOMAIN staged = 1..Len(staged) /\ DOMAIN blocks = 1..Len(blocks)
  BY LenProperties
<1>2. /\ all \in Seq(Blocks) /\ Len(all) = Len(staged) + Len(blocks)
      /\ \A i \in 1..Len(all) : all[i] = IF i <= Len(staged) THEN staged[i] ELSE blocks[i - Len(staged)]
  BY ConcatProperties
<1>3. staged' = SubSeq(all, excess + 1, Len(all)) /\ dropped' = dropped \cup gone
  BY DEF Stage
<1> HIDE DEF all
<1>4. DOMAIN all = 1..Len(all) /\ Len(all) \in Nat /\ \A i \in 1..Len(all) : all[i] \in Blocks
  BY <1>2, LenProperties, ElementOfSeq
<1>5. excess \in 0..Len(all)
  BY <1>4, MaxBlocksAssumption
<1> HIDE DEF excess
<1>6. /\ staged' \in Seq(Blocks) /\ Len(staged') = Len(all) - excess
      /\ \A i \in 1..Len(staged') : staged'[i] = all[excess + i]
  <2>1. \A i \in (excess + 1)..Len(all) : all[i] \in Blocks
    BY <1>4, <1>5
  <2>2. excess + 1 \in Int /\ Len(all) \in Int
    BY <1>4, <1>5
  <2>3. /\ staged' \in Seq(Blocks)
        /\ Len(staged') = IF excess + 1 <= Len(all) THEN Len(all) - (excess + 1) + 1 ELSE 0
        /\ \A i \in 1..(Len(all) - (excess + 1) + 1) : staged'[i] = all[(excess + 1) + i - 1]
    BY <1>3, <2>1, <2>2, SubSeqProperties
  <2>4. Len(staged') = Len(all) - excess
    <3>1. Len(staged') = IF excess + 1 <= Len(all) THEN Len(all) - (excess + 1) + 1 ELSE 0
      BY <2>3
    <3> DEFINE n == Len(all)
    <3>2. n \in Nat /\ excess \in 0..n
      BY <1>4, <1>5
    <3>3. Len(staged') = IF excess + 1 <= n THEN n - (excess + 1) + 1 ELSE 0
      BY <3>1
    <3> HIDE DEF n
    <3>4. Len(staged') = n - excess
      BY <3>2, <3>3
    <3> QED BY <3>4 DEF n
  <2>5. ASSUME NEW i \in 1..Len(staged') PROVE staged'[i] = all[excess + i]
    <3>1. i \in 1..(Len(all) - (excess + 1) + 1) /\ (excess + 1) + i - 1 = excess + i
      BY <1>4, <1>5, <2>4
    <3> QED BY <2>3, <3>1
  <2> QED BY <2>3, <2>4, <2>5
<1>7. DOMAIN staged' = 1..Len(staged')
  BY <1>6, LenProperties
<1>8. \A i, j \in 1..Len(all) : all[i] = all[j] => i = j
  <2> SUFFICES ASSUME NEW i \in 1..Len(all), NEW j \in 1..Len(all), all[i] = all[j] PROVE i = j
    OBVIOUS
  <2>1. CASE i <= Len(staged) /\ j <= Len(staged)
    BY <1>1, <1>2, <2>1 DEF Distinct
  <2>2. CASE i > Len(staged) /\ j > Len(staged)
    <3>1. i - Len(staged) \in DOMAIN blocks /\ j - Len(staged) \in DOMAIN blocks
      BY <1>1, <1>2, <2>2
    <3>2. blocks[i - Len(staged)] = blocks[j - Len(staged)]
      BY <1>1, <1>2, <2>2
    <3>3. i - Len(staged) = j - Len(staged)
      BY <3>1, <3>2 DEF Distinct
    <3> QED BY <1>1, <3>3
  <2>3. CASE i <= Len(staged) /\ j > Len(staged)
    <3>1. i \in DOMAIN staged /\ j - Len(staged) \in DOMAIN blocks /\ staged[i] = blocks[j - Len(staged)]
      BY <1>1, <1>2, <2>3
    <3> QED BY <3>1 DEF InOrder
  <2>4. CASE i > Len(staged) /\ j <= Len(staged)
    <3>1. j \in DOMAIN staged /\ i - Len(staged) \in DOMAIN blocks /\ staged[j] = blocks[i - Len(staged)]
      BY <1>1, <1>2, <2>4
    <3> QED BY <3>1 DEF InOrder
  <2> QED BY <1>1, <1>2, <2>1, <2>2, <2>3, <2>4
<1>9. \A b : b \in InOrder(staged) \cup InOrder(blocks) <=> \E i \in 1..Len(all) : all[i] = b
  <2>1. ASSUME NEW i \in 1..Len(all) PROVE all[i] \in InOrder(staged) \cup InOrder(blocks)
    <3>1. CASE i <= Len(staged)
      BY <1>1, <1>2, <3>1 DEF InOrder
    <3>2. CASE i > Len(staged)
      <4>1. i - Len(staged) \in DOMAIN blocks /\ all[i] = blocks[i - Len(staged)]
        BY <1>1, <1>2, <3>2
      <4> QED BY <4>1 DEF InOrder
    <3> QED BY <1>1, <1>2, <3>1, <3>2
  <2>2. ASSUME NEW i \in DOMAIN staged PROVE i \in 1..Len(all) /\ all[i] = staged[i]
    BY <1>1, <1>2
  <2>3. ASSUME NEW i \in DOMAIN blocks
        PROVE  Len(staged) + i \in 1..Len(all) /\ all[Len(staged) + i] = blocks[i]
    <3>1. Len(staged) + i \in 1..Len(all) /\ ~(Len(staged) + i <= Len(staged)) /\ (Len(staged) + i) - Len(staged) = i
      BY <1>1, <1>2
    <3> QED BY <1>2, <3>1
  <2>4. \A b \in InOrder(staged) : \E i \in 1..Len(all) : all[i] = b
    BY <2>2 DEF InOrder
  <2>5. \A b \in InOrder(blocks) : \E i \in 1..Len(all) : all[i] = b
    <3> SUFFICES ASSUME NEW j \in DOMAIN blocks PROVE \E i \in 1..Len(all) : all[i] = blocks[j]
      BY DEF InOrder
    <3> QED BY <2>3
  <2> QED BY <2>1, <2>4, <2>5
<1>10. \A i \in DOMAIN staged' : excess + i \in 1..Len(all) /\ staged'[i] = all[excess + i] /\ excess + i \notin 1..excess
  BY <1>4, <1>5, <1>6, <1>7
<1>11. Distinct(staged')
  <2> SUFFICES ASSUME NEW i \in DOMAIN staged', NEW j \in DOMAIN staged', staged'[i] = staged'[j] PROVE i = j
    BY DEF Distinct
  <2>1. excess + i = excess + j
    BY <1>8, <1>10
  <2> QED BY <1>5, <1>7, <2>1
<1>12. \A i \in 1..excess : i \in 1..Len(all)
  BY <1>4, <1>5
<1>13. gone \cap InOrder(staged') = {}
  <2> SUFFICES ASSUME NEW i \in 1..excess, NEW j \in DOMAIN staged', all[i] = staged'[j] PROVE FALSE
    BY DEF InOrder
  <2> QED BY <1>8, <1>10, <1>12
<1>14. gone \cup InOrder(staged') = InOrder(staged) \cup InOrder(blocks)
  <2>1. ASSUME NEW b \in gone \cup InOrder(staged') PROVE b \in InOrder(staged) \cup InOrder(blocks)
    <3>1. CASE b \in gone
      BY <1>9, <1>12, <3>1
    <3>2. CASE b \in InOrder(staged')
      <4>1. PICK i \in DOMAIN staged' : b = staged'[i]
        BY <3>2 DEF InOrder
      <4> QED BY <1>9, <1>10, <4>1
    <3> QED BY <2>1, <3>1, <3>2
  <2>2. ASSUME NEW b \in InOrder(staged) \cup InOrder(blocks) PROVE b \in gone \cup InOrder(staged')
    <3>1. PICK i \in 1..Len(all) : all[i] = b
      BY <1>9
    <3>2. CASE i <= excess
      BY <1>5, <3>1, <3>2
    <3>3. CASE i > excess
      <4>1. i - excess \in 1..Len(staged') /\ excess + (i - excess) = i
        BY <1>4, <1>5, <1>6, <3>3
      <4> QED BY <1>6, <1>7, <3>1, <4>1 DEF InOrder
    <3> QED BY <1>4, <1>5, <3>2, <3>3
  <2> QED BY <2>1, <2>2
<1> QED BY <1>3, <1>11, <1>13, <1>14

LEMMA BlocksStay ==
    ASSUME BlockInv, UNCHANGED <<blockVars, mine>>
    PROVE  BlockInv'
<1>1. staged' = staged /\ mine' = mine /\ UNCHANGED <<issued, injected, dropped>>
  BY DEF blockVars
<1>2. BusDistinct' /\ MineDistinct' /\ BusApart'
  BY <1>1 DEF BlockInv, BusDistinct, MineDistinct, BusApart
<1>3. MineApart' /\ AllAccounted'
  BY <1>1 DEF BlockInv, MineApart, AllAccounted
<1> QED BY <1>2, <1>3 DEF BlockInv

(* The bus gives up what is staged: it was nowhere else. *)
LEMMA DropKeeps ==
    ASSUME BlockInv, Drop, UNCHANGED <<issued, injected, mine>>
    PROVE  BlockInv'
<1>1. InOrder(staged') = {} /\ BusDistinct' /\ dropped' = dropped \cup InOrder(staged)
  BY EmptyOrder DEF Drop, BusDistinct
<1>2. \A t \in Threads : InOrder(mine'[t]) = InOrder(mine[t])
  OBVIOUS
<1>3. MineDistinct'
  BY DEF BlockInv, MineDistinct
<1>4. BusApart'
  BY <1>1 DEF BlockInv, BusApart, InOrder
<1>5. MineApart'
  BY <1>1, <1>2 DEF BlockInv, MineApart, InOrder
<1>6. AllAccounted'
  BY <1>1, <1>2 DEF BlockInv, AllAccounted, InOrder
<1> QED BY <1>1, <1>3, <1>4, <1>5, <1>6 DEF BlockInv

(* A gate stages a block that was nowhere. *)
LEMMA GateKeeps ==
    ASSUME BusType, BlockInv, GateStages
    PROVE  BlockInv'
<1>1. PICK b \in Blocks \ issued : Stage(<<b>>) /\ issued' = issued \cup {b}
  BY DEF GateStages
<1>2. UNCHANGED <<injected, mine>>
  BY DEF GateStages, requestVars
<1>3. <<b>> \in Seq(Blocks) /\ InOrder(<<b>>) = {b} /\ Distinct(<<b>>)
  BY DEF InOrder, Distinct
<1>4. b \notin InOrder(staged) \cup injected \cup dropped /\ \A t \in Threads : b \notin InOrder(mine[t])
  BY DEF BlockInv, AllAccounted
<1>5. InOrder(staged) \cap InOrder(<<b>>) = {}
  BY <1>3, <1>4
<1>6. staged \in Seq(Blocks) /\ Distinct(staged)
  BY DEF BusType, BlockInv, BusDistinct
<1>7. /\ Distinct(staged')
      /\ \E gone : /\ dropped' = dropped \cup gone
                   /\ gone \cap InOrder(staged') = {}
                   /\ gone \cup InOrder(staged') = InOrder(staged) \cup InOrder(<<b>>)
  BY <1>1, <1>3, <1>5, <1>6, StageSplits
<1>8. PICK gone : /\ dropped' = dropped \cup gone
                  /\ gone \cap InOrder(staged') = {}
                  /\ gone \cup InOrder(staged') = InOrder(staged) \cup {b}
  BY <1>3, <1>7
<1>9. BusDistinct' /\ MineDistinct'
  BY <1>2, <1>7 DEF BusDistinct, MineDistinct, BlockInv
<1>10. \A t \in Threads : InOrder(mine'[t]) = InOrder(mine[t])
  BY <1>2
<1> DEFINE bus == InOrder(staged)
           bus2 == InOrder(staged')
<1>11. BusApart'
  <2>1. bus \cap (injected \cup dropped) = {} /\ injected \cap dropped = {}
    BY DEF BlockInv, BusApart
  <2>2. b \notin injected \cup dropped /\ gone \cup bus2 = bus \cup {b} /\ gone \cap bus2 = {}
    BY <1>4, <1>8
  <2> HIDE DEF bus, bus2
  <2>3. bus2 \cap (injected \cup (dropped \cup gone)) = {} /\ injected \cap (dropped \cup gone) = {}
    BY <2>1, <2>2
  <2> QED BY <1>2, <1>8, <2>3 DEF BusApart, bus2
<1>12. MineApart'
  <2> SUFFICES ASSUME NEW t \in Threads
               PROVE  /\ InOrder(mine'[t]) \cap (InOrder(staged') \cup injected' \cup dropped') = {}
                      /\ \A u \in Threads : u # t => InOrder(mine'[t]) \cap InOrder(mine'[u]) = {}
    BY DEF MineApart
  <2>1. InOrder(mine[t]) \cap (bus \cup injected \cup dropped) = {} /\ b \notin InOrder(mine[t])
    BY <1>4 DEF BlockInv, MineApart
  <2>2. gone \cup bus2 = bus \cup {b}
    BY <1>8
  <2> HIDE DEF bus, bus2
  <2>3. InOrder(mine[t]) \cap (bus2 \cup injected \cup (dropped \cup gone)) = {}
    BY <2>1, <2>2
  <2> QED BY <1>2, <1>8, <1>10, <2>3 DEF BlockInv, MineApart, bus2
<1>13. AllAccounted'
  <2>1. bus2 \cup injected' \cup dropped' = bus \cup injected \cup dropped \cup {b}
    BY <1>2, <1>8
  <2> QED BY <1>1, <1>10, <2>1 DEF BlockInv, AllAccounted
<1> QED BY <1>9, <1>11, <1>12, <1>13 DEF BlockInv

(* A request takes what is staged: it had nothing, and the bus is empty.      *)
LEMMA BeginKeeps ==
    ASSUME Inv, BlockInv, NEW t \in Threads, NEW in \in Inputs, Begin(t, in)
    PROVE  BlockInv'
<1>1. /\ mine' = [mine EXCEPT ![t] = staged] /\ staged' = << >>
      /\ UNCHANGED <<issued, injected, dropped>> /\ pc[t] = "idle"
  BY DEF Begin, Goto
<1>2. mine \in [Threads -> Seq(Blocks)] /\ mine[t] = << >> /\ staged \in Seq(Blocks) /\ Len(staged) <= MaxBlocks
  BY <1>1 DEF Inv, TypeIntact, ThreadType, BusType, Control
<1>3. InOrder(mine[t]) = {} /\ InOrder(staged') = {} /\ Distinct(staged')
  BY <1>1, <1>2, EmptyOrder
<1>4. mine'[t] = staged /\ \A u \in Threads \ {t} : mine'[u] = mine[u]
  BY <1>1, <1>2
<1>5. MineDistinct'
  BY <1>2, <1>4 DEF BlockInv, MineDistinct, BusDistinct
<1>6. BusApart'
  BY <1>1, <1>3 DEF BlockInv, BusApart
<1>7. InOrder(mine'[t]) = InOrder(staged) /\ \A u \in Threads \ {t} : InOrder(mine'[u]) = InOrder(mine[u])
  BY <1>4
<1>8. MineApart'
  BY <1>1, <1>3, <1>7 DEF BlockInv, MineApart, BusApart
<1>9. AllAccounted'
  BY <1>1, <1>3, <1>7 DEF BlockInv, AllAccounted
<1> QED BY <1>3, <1>5, <1>6, <1>8, <1>9 DEF BlockInv, BusDistinct

(* A request ends: its blocks go to places where they are once.               *)
LEMMA ReturnKeeps ==
    ASSUME Inv, BlockInv, NEW t \in Threads, mine' = [mine EXCEPT ![t] = << >>], issued' = issued,
           Distinct(staged'), NEW kept, NEW shown, NEW gone,
           InOrder(staged') = (InOrder(staged) \cup kept) \ gone,
           injected' = injected \cup shown, dropped' = dropped \cup gone,
           gone \subseteq InOrder(staged) \cup InOrder(mine[t]),
           kept \cup shown \cup (gone \cap InOrder(mine[t])) = InOrder(mine[t]),
           kept \cap shown = {}, gone \cap shown = {}
    PROVE  BlockInv'
<1> DEFINE taken == InOrder(mine[t])
           bus == InOrder(staged)
           bus2 == InOrder(staged')
<1>1. mine \in [Threads -> Seq(Blocks)]
  BY DEF Inv, TypeIntact, ThreadType
<1>2. mine'[t] = << >> /\ \A u \in Threads \ {t} : mine'[u] = mine[u]
  BY <1>1
<1>3. InOrder(mine'[t]) = {} /\ \A u \in Threads \ {t} : InOrder(mine'[u]) = InOrder(mine[u])
  BY <1>2, EmptyOrder
<1>4. MineDistinct'
  <2>1. Distinct(<< >>) /\ Len(<< >>) <= MaxBlocks
    BY EmptyOrder, EmptySeq, MaxBlocksAssumption
  <2> QED BY <1>2, <2>1 DEF BlockInv, MineDistinct
<1>5. /\ taken \cap (bus \cup injected \cup dropped) = {}
      /\ bus \cap (injected \cup dropped) = {} /\ injected \cap dropped = {}
      /\ \A u \in Threads \ {t} : /\ InOrder(mine[u]) \cap taken = {}
                                  /\ InOrder(mine[u]) \cap (bus \cup injected \cup dropped) = {}
  BY DEF BlockInv, MineApart, BusApart
<1>6. /\ bus2 = (bus \cup kept) \ gone /\ gone \subseteq bus \cup taken
      /\ kept \cup shown \cup (gone \cap taken) = taken
  OBVIOUS
<1> HIDE DEF taken, bus, bus2
<1>7. /\ bus2 \cap ((injected \cup shown) \cup (dropped \cup gone)) = {}
      /\ (injected \cup shown) \cap (dropped \cup gone) = {}
  BY <1>5, <1>6
<1>8. BusApart'
  BY <1>7 DEF BusApart, bus2
<1>9. bus2 \cup (injected \cup shown) \cup (dropped \cup gone) = bus \cup injected \cup dropped \cup taken
  BY <1>6
<1>10. MineApart'
  <2> SUFFICES ASSUME NEW v \in Threads
               PROVE  /\ InOrder(mine'[v]) \cap (InOrder(staged') \cup injected' \cup dropped') = {}
                      /\ \A u \in Threads : u # v => InOrder(mine'[v]) \cap InOrder(mine'[u]) = {}
    BY DEF MineApart
  <2>1. CASE v = t
    BY <1>3, <2>1
  <2>2. CASE v # t
    <3>1. InOrder(mine[v]) \cap (bus2 \cup (injected \cup shown) \cup (dropped \cup gone)) = {}
      BY <1>5, <1>9, <2>2
    <3>2. \A u \in Threads : u # v => InOrder(mine[v]) \cap InOrder(mine[u]) = {}
      BY DEF BlockInv, MineApart
    <3>3. \A u \in Threads : u # v => InOrder(mine'[v]) \cap InOrder(mine'[u]) = {}
      BY <1>3, <2>2, <3>2
    <3> QED BY <1>3, <2>2, <3>1, <3>3 DEF bus2
  <2> QED BY <2>1, <2>2
<1>11. AllAccounted'
  <2>1. InOrder(staged') \cup injected' \cup dropped' = bus \cup injected \cup dropped \cup taken
    BY <1>9 DEF bus2
  <2>2. bus \cup injected \cup dropped \subseteq issued /\ taken \subseteq issued
    BY DEF BlockInv, AllAccounted, bus, taken
  <2>3. ASSUME NEW b \in issued, b \notin bus \cup injected \cup dropped \cup taken
        PROVE  \E u \in Threads : b \in InOrder(mine'[u])
    <3>1. PICK u \in Threads : b \in InOrder(mine[u])
      BY <2>3 DEF BlockInv, AllAccounted, bus
    <3>2. u # t
      BY <2>3, <3>1 DEF taken
    <3> QED BY <1>3, <3>1, <3>2
  <2>4. \A u \in Threads : InOrder(mine'[u]) \subseteq issued
    BY <1>3 DEF BlockInv, AllAccounted
  <2> QED BY <2>1, <2>2, <2>3, <2>4 DEF AllAccounted
<1> QED BY <1>4, <1>8, <1>10, <1>11 DEF BlockInv, BusDistinct

LEMMA EndsKeep ==
    ASSUME Inv, BlockInv, NEW t \in Threads,
           ForScopeFails(t) \/ NothingToInject(t) \/ Inject(t) \/ InjectFails(t)
    PROVE  BlockInv'
<1> DEFINE taken == InOrder(mine[t])
<1>1. mine' = [mine EXCEPT ![t] = << >>] /\ issued' = issued
  BY DEF ForScopeFails, NothingToInject, Inject, InjectFails, Return
<1>2. /\ staged \in Seq(Blocks) /\ mine[t] \in Seq(Blocks) /\ Distinct(staged) /\ Distinct(mine[t])
      /\ InOrder(staged) \cap taken = {}
  BY Locals DEF Inv, TypeIntact, BusType, BlockInv, BusDistinct, MineDistinct, MineApart
<1>3. CASE ForScopeFails(t) \/ InjectFails(t)
  <2>1. Stage(mine[t]) /\ injected' = injected
    BY <1>3 DEF ForScopeFails, InjectFails
  <2>2. /\ Distinct(staged')
        /\ \E gone : /\ dropped' = dropped \cup gone
                     /\ gone \cap InOrder(staged') = {}
                     /\ gone \cup InOrder(staged') = InOrder(staged) \cup taken
    BY <1>2, <2>1, StageSplits
  <2>3. PICK gone : /\ dropped' = dropped \cup gone
                    /\ gone \cap InOrder(staged') = {}
                    /\ gone \cup InOrder(staged') = InOrder(staged) \cup taken
    BY <2>2
  <2>4. /\ InOrder(staged') = (InOrder(staged) \cup taken) \ gone
        /\ gone \subseteq InOrder(staged) \cup taken
        /\ taken \cup {} \cup (gone \cap taken) = taken
        /\ taken \cap {} = {} /\ gone \cap {} = {}
        /\ injected' = injected \cup {}
    BY <2>1, <2>3
  <2> QED BY <1>1, <2>2, <2>3, <2>4, ReturnKeeps
<1>4. CASE NothingToInject(t)
  <2>1. staged' = staged /\ injected' = injected /\ dropped' = dropped \cup taken
    BY <1>4 DEF NothingToInject
  <2>2. /\ Distinct(staged')
        /\ InOrder(staged') = (InOrder(staged) \cup {}) \ taken
        /\ injected' = injected \cup {}
        /\ taken \subseteq InOrder(staged) \cup taken
        /\ {} \cup {} \cup (taken \cap taken) = taken
        /\ {} \cap {} = {} /\ taken \cap {} = {}
    BY <1>2, <2>1
  <2> QED BY <1>1, <2>1, <2>2, ReturnKeeps
<1>5. CASE Inject(t)
  <2>1. PICK visible \in SUBSET taken :
           injected' = injected \cup (taken \ visible) /\ dropped' = dropped \cup visible
    BY <1>5 DEF Inject
  <2>2. staged' = staged
    BY <1>5 DEF Inject
  <2>3. /\ Distinct(staged')
        /\ InOrder(staged') = (InOrder(staged) \cup {}) \ visible
        /\ visible \subseteq InOrder(staged) \cup taken
        /\ {} \cup (taken \ visible) \cup (visible \cap taken) = taken
        /\ {} \cap (taken \ visible) = {} /\ visible \cap (taken \ visible) = {}
    BY <1>2, <2>1, <2>2
  <2> QED BY <1>1, <2>1, <2>3, ReturnKeeps
<1> QED BY <1>3, <1>4, <1>5

LEMMA NextBlocks == Inv /\ BlockInv /\ [Next]_vars => BlockInv'
<1> SUFFICES ASSUME Inv, BlockInv, [Next]_vars PROVE BlockInv'
  OBVIOUS
<1>1. CASE UNCHANGED vars
  BY <1>1, BlocksStay DEF vars, requestVars
<1>2. CASE GateStages
  BY <1>2, GateKeeps DEF Inv, TypeIntact
<1>3. CASE BusOverflows \/ Retire \/ Dispose
  BY <1>3, DropKeeps DEF BusOverflows, Retire, Dispose, requestVars
<1>4. CASE DrainWithoutEngine \/ \E h \in Handles : Open(h) \/ Close(h)
  BY <1>4, BlocksStay DEF DrainWithoutEngine, Open, Close, requestVars
<1>5. ASSUME NEW t \in Threads, NEW in \in Inputs, Begin(t, in)
      PROVE  BlockInv'
  BY <1>5, BeginKeeps
<1>6. ASSUME NEW t \in Threads, RequestRuns(t)
      PROVE  BlockInv'
  <2>1. CASE ForScopeFails(t) \/ NothingToInject(t) \/ Inject(t) \/ InjectFails(t)
    BY <2>1, EndsKeep
  <2>2. CASE \/ ForScope(t) \/ ClaimWon(t) \/ ClaimLost(t) \/ ProcessText(t) \/ ProcessFails(t)
             \/ Ingested(t) \/ Recall(t)
    BY <2>2, BlocksStay
       DEF ForScope, ClaimWon, ClaimLost, ProcessText, ProcessFails, Ingested, Recall, requestVars
  <2> QED BY <1>6, <2>1, <2>2 DEF RequestRuns
<1> QED BY <1>1, <1>2, <1>3, <1>4, <1>5, <1>6 DEF Next

LEMMA InitBlocks == Init => BlockInv
<1> SUFFICES ASSUME Init PROVE BlockInv
  OBVIOUS
<1>1. InOrder(staged) = {} /\ Distinct(staged) /\ injected = {} /\ dropped = {} /\ issued = {}
  BY EmptyOrder DEF Init
<1>2. \A t \in Threads : mine[t] = << >> /\ InOrder(mine[t]) = {} /\ Distinct(mine[t]) /\ Len(mine[t]) <= MaxBlocks
  BY EmptyOrder, EmptySeq, MaxBlocksAssumption DEF Init
<1> QED BY <1>1, <1>2 DEF BlockInv, BusDistinct, MineDistinct, BusApart, MineApart, AllAccounted

(* Counting: one where the block is, none elsewhere. *)
LEMMA CountIs ==
    ASSUME NEW s, Distinct(s), NEW b
    PROVE  Count(b, s) = IF b \in InOrder(s) THEN 1 ELSE 0
<1> DEFINE places == {i \in DOMAIN s : s[i] = b}
<1>1. CASE b \in InOrder(s)
  <2>1. PICK i \in DOMAIN s : s[i] = b
    BY <1>1 DEF InOrder
  <2>2. places = {i}
    BY <2>1 DEF Distinct
  <2> QED BY <1>1, <2>2, FS_Singleton DEF Count
<1>2. CASE b \notin InOrder(s)
  <2>1. places = {}
    BY <1>2 DEF InOrder
  <2> QED BY <1>2, <2>1, FS_EmptySet DEF Count
<1> QED BY <1>1, <1>2

(* A block that a gate staged is in one place: on the bus, with one request, *)
(* injected, or given up by a rule, whichever scopes are evicted and          *)
(* requests fail meanwhile (intercept.go:85, 98-101, 144-156).                *)
THEOREM BlocksKept == Spec => []BlocksInOnePlace
<1>1. Inv /\ BlockInv => BlocksInOnePlace
  <2> SUFFICES ASSUME Inv, BlockInv, NEW b \in issued
               PROVE  Count(b, staged)
                        + Cardinality({p \in Threads \X (1..MaxBlocks) :
                                           p[2] \in DOMAIN mine[p[1]] /\ mine[p[1]][p[2]] = b})
                        + (IF b \in injected THEN 1 ELSE 0)
                        + (IF b \in dropped THEN 1 ELSE 0) = 1
    BY DEF BlocksInOnePlace
  <2> DEFINE with == {p \in Threads \X (1..MaxBlocks) :
                          p[2] \in DOMAIN mine[p[1]] /\ mine[p[1]][p[2]] = b}
  <2>1. Count(b, staged) = IF b \in InOrder(staged) THEN 1 ELSE 0
    BY CountIs DEF BlockInv, BusDistinct
  <2>2. CASE \E t \in Threads : b \in InOrder(mine[t])
    <3>1. PICK t \in Threads : b \in InOrder(mine[t])
      BY <2>2
    <3>2. PICK i \in DOMAIN mine[t] : mine[t][i] = b
      BY <3>1 DEF InOrder
    <3>3. mine[t] \in Seq(Blocks) /\ DOMAIN mine[t] = 1..Len(mine[t]) /\ Len(mine[t]) \in Nat
          /\ Len(mine[t]) <= MaxBlocks
      BY Locals, LenProperties DEF BlockInv, MineDistinct
    <3>4. i \in 1..MaxBlocks
      BY <3>2, <3>3, MaxBlocksAssumption
    <3>5. ASSUME NEW u \in Threads, NEW j \in 1..MaxBlocks, j \in DOMAIN mine[u], mine[u][j] = b
          PROVE  u = t /\ j = i
      <4>1. b \in InOrder(mine[u])
        BY <3>5 DEF InOrder
      <4>2. u = t
        BY <3>1, <4>1 DEF BlockInv, MineApart
      <4> QED BY <3>2, <3>5, <4>2 DEF BlockInv, MineDistinct, Distinct
    <3>6. with = {<<t, i>>}
      <4>1. <<t, i>> \in with
        BY <3>2, <3>4
      <4>2. ASSUME NEW p \in with PROVE p = <<t, i>>
        <5>1. p[1] \in Threads /\ p[2] \in 1..MaxBlocks /\ p = <<p[1], p[2]>>
          OBVIOUS
        <5>2. p[2] \in DOMAIN mine[p[1]] /\ mine[p[1]][p[2]] = b
          BY <4>2
        <5> QED BY <3>5, <5>1, <5>2
      <4> QED BY <4>1, <4>2
    <3>7. Cardinality(with) = 1
      BY <3>6, FS_Singleton
    <3>8. b \notin InOrder(staged) /\ b \notin injected /\ b \notin dropped
      BY <3>1 DEF BlockInv, MineApart
    <3> HIDE DEF with
    <3> QED BY <2>1, <3>7, <3>8 DEF with
  <2>3. CASE \A t \in Threads : b \notin InOrder(mine[t])
    <3>1. with = {}
      <4> SUFFICES ASSUME NEW p \in with PROVE FALSE
        OBVIOUS
      <4>1. p[1] \in Threads /\ p[2] \in DOMAIN mine[p[1]] /\ mine[p[1]][p[2]] = b
        OBVIOUS
      <4> QED BY <2>3, <4>1 DEF InOrder
    <3>2. Cardinality(with) = 0
      BY <3>1, FS_EmptySet
    <3>3. b \in InOrder(staged) \cup injected \cup dropped
      BY <2>3 DEF BlockInv, AllAccounted
    <3>4. InOrder(staged) \cap (injected \cup dropped) = {} /\ injected \cap dropped = {}
      BY DEF BlockInv, BusApart
    <3> HIDE DEF with
    <3> QED BY <2>1, <3>2, <3>3, <3>4 DEF with
  <2> QED BY <2>2, <2>3
<1> QED BY <1>1, InvHolds, InitBlocks, NextBlocks, PTL DEF Spec
=============================================================================
