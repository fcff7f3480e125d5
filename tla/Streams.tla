------------------------------- MODULE Streams -------------------------------
(***************************************************************************)
(* Streamed responses in plugin/intercept.go: the buffers and marks that   *)
(* HandleStreamChunk and HandleResponse keep per stream key, and the       *)
(* durable ingests they and a later history resubmit make into one scope.  *)
(*                                                                         *)
(* An exchange is one streamed response: the host delivers its init chunk, *)
(* its deltas, the terminating chunk (which may carry the last delta), on  *)
(* some hosts the assembled body, and the client's later requests resend   *)
(* the message.  An exchange's calls follow one another; those of          *)
(* different exchanges interleave at every lock, and exchanges with the    *)
(* same request body share a stream key.                                   *)
(*                                                                         *)
(* Delta i of exchange e is <<e, i>>; a text is the set of its deltas, and *)
(* stands for its own hash: a delta is delivered once and appended when it *)
(* is, so the set tells their order.  No text is above maxIngestBytes, of  *)
(* which only the head would be stored.  ForScope and ProcessText may      *)
(* fail: whether they do is the engine's business.                         *)
(*                                                                         *)
(* A host chunk that carries several kinds of delta is several Chunk       *)
(* steps; the configuration does not change; tool calls that some formats  *)
(* render into the assembled body are left out of its text.                *)
(***************************************************************************)
EXTENDS SeenSet, Recency, FiniteSets

CONSTANTS
    Exchanges,
    StreamKeys,
    Responses,        \* exchange -> the responses it may get: deltas, each with
                      \* a kind and whether it ends a segment (length or
                      \* punctuation), and whether a terminating chunk follows
    IngestAssistant,  \* configuration
    IngestReasoning,
    InterruptGate,
    Faults,           \* what may go wrong: "open", "process", "age"
    MaxBufs,          \* maxStreamBufs
    None

ASSUME ResponsesAssumption ==
    /\ DOMAIN Responses = Exchanges
    /\ \A e \in Exchanges : \A r \in Responses[e] :
          /\ r.deltas \in Seq([kind : {"text", "reasoning", "tool"}, cut : BOOLEAN])
          /\ r.terminated \in BOOLEAN
ASSUME ExchangesAssumption == IsFiniteSet(Exchanges)
ASSUME MaxBufsAssumption == MaxBufs \in Nat \ {0}
ASSUME KnobsAssumption == {IngestAssistant, IngestReasoning, InterruptGate} \subseteq BOOLEAN

VARIABLES
    bufs,       \* streamStates.m: key -> buffer, None when absent
    bufOrder,   \* the keys with a buffer, least recently stamped first
    marks,      \* streamIngested.m: key -> mark, None when absent
    markOrder,  \* the keys with a mark, oldest first
    seen,       \* the scope's dedupe set
    rows,       \* texts durably stored in the scope's engine
    stage,      \* exchange -> how far host and client have got
    pos,        \* exchange -> number of deltas delivered
    key,        \* exchange -> its stream key, once the host has begun
    resp,       \* exchange -> its response
    pc,         \* exchange -> next step of the handler working on it
    task,       \* exchange -> what that handler is ingesting
    todo,       \* exchange -> texts it has still to ingest
    got,        \* exchange -> outcome so far: [ingested, failed]
    whole,      \* exchange -> whole text drained from the buffer
    stored,     \* exchange -> storedAny read with it
    streamed,   \* exchange -> the mark HandleResponse peeked
    eng         \* exchange -> the handler has opened the engine

streamVars == <<bufs, bufOrder>>
markVars   == <<marks, markOrder>>
storeVars  == <<seen, rows>>
hostVars   == <<stage, pos, key, resp>>
localVars  == <<task, todo, got, whole, stored, streamed, eng>>
vars == <<streamVars, markVars, storeVars, hostVars, pc, localVars>>

-----------------------------------------------------------------------------
Deltas == Exchanges \X (Nat \ {0})
Texts  == SUBSET Deltas

Buffers == [asst : Texts, reason : Texts, tools : Texts, whole : Texts,
            storedAny : BOOLEAN, conflicted : BOOLEAN, aged : BOOLEAN]
Marks   == [failed : BOOLEAN, aged : BOOLEAN]

ASSUME NoneAssumption == None \notin Buffers /\ None \notin Marks /\ None \notin StreamKeys

Size(e)   == Len(resp[e].deltas)
KindOf(d) == resp[d[1]].deltas[d[2]].kind
Cuts(d)   == resp[d[1]].deltas[d[2]].cut

(* The assembled message: its text deltas. *)
Text(e) == {d \in {e} \X (1..Size(e)) : KindOf(d) = "text"}

admitDelta(kind) ==
    CASE kind = "reasoning" -> IngestReasoning \/ InterruptGate
      [] kind = "tool"      -> IngestAssistant
      [] kind = "text"      -> IngestAssistant \/ InterruptGate

(* Whether a segment of this kind is durably ingested. *)
Durable(kind) == IF kind = "reasoning" THEN IngestReasoning ELSE IngestAssistant

(* What there is to ingest of a text of this kind. *)
ToIngest(text, kind) == IF text # {} /\ Durable(kind) THEN <<text>> ELSE << >>

NewBuf == [asst |-> {}, reason |-> {}, tools |-> {}, whole |-> {},
           storedAny |-> FALSE, conflicted |-> FALSE, aged |-> FALSE]

hasStreamBuf(k) ==
    bufs[k] # None /\ \/ bufs[k].asst # {}
                      \/ bufs[k].reason # {}
                      \/ bufs[k].tools # {}

streamConflicted(k) == bufs[k] # None /\ bufs[k].conflicted

peekStreamIngested(k) == marks[k] # None /\ ~marks[k].failed /\ ~marks[k].aged

(* Stamp key k in an order of keys, and what exceeds the limit leaves at   *)
(* the oldest end.                                                         *)
Stamped(order, k) ==
    LET all    == Append(Without(order, k), k)
        excess == IF Len(all) > MaxBufs THEN Len(all) - MaxBufs ELSE 0
    IN  SubSeq(all, excess + 1, Len(all))

Put(table, order, k, entry) ==
    [j \in StreamKeys |-> IF j \notin InOrder(Stamped(order, k)) THEN None
                          ELSE IF j = k THEN entry ELSE table[j]]

PutBuf(k, b) ==
    /\ bufs' = Put(bufs, bufOrder, k, b)
    /\ bufOrder' = Stamped(bufOrder, k)

(* A mark keeps an earlier failure. *)
PutMark(k, failed) ==
    /\ marks' = Put(marks, markOrder, k,
                    [failed |-> failed \/ (marks[k] # None /\ marks[k].failed), aged |-> FALSE])
    /\ markOrder' = Stamped(markOrder, k)

PCs == {"idle", "append", "recheck", "ingest", "process", "note", "mark",
        "tomb", "residual", "flush", "claimwhole", "take", "peek", "claimlast",
        "clear", "hasbuf", "open", "answer"}

TypeOK ==
    /\ bufs \in [StreamKeys -> Buffers \cup {None}]
    /\ marks \in [StreamKeys -> Marks \cup {None}]
    /\ \A k \in StreamKeys :
          /\ bufs[k] = None <=> k \notin InOrder(bufOrder)
          /\ marks[k] = None <=> k \notin InOrder(markOrder)
    /\ Len(bufOrder) <= MaxBufs /\ Len(markOrder) <= MaxBufs
    /\ Len(seen.order) <= MaxSeen /\ seen.marks \subseteq InOrder(seen.order)
    /\ rows \subseteq Texts
    /\ stage \in [Exchanges -> {"new", "open", "ended", "answered", "resent"}]
    /\ \A e \in Exchanges :
          IF stage[e] = "new"
          THEN key[e] = None /\ resp[e] = None /\ pos[e] = 0
          ELSE key[e] \in StreamKeys /\ resp[e] \in Responses[e] /\ pos[e] \in 0..Size(e)
    /\ pc \in [Exchanges -> PCs]
    /\ task \in [Exchanges -> {"none", "chunk", "last", "end", "answer", "full", "resend"}]
    /\ todo \in [Exchanges -> Seq(Texts)]
    /\ \A e \in Exchanges : /\ pc[e] = "process" => todo[e] # << >>
                            /\ pc[e] = "idle" => task[e] = "none"
    /\ whole \in [Exchanges -> Texts]
    /\ got \in [Exchanges -> [ingested : BOOLEAN, failed : BOOLEAN]]
    /\ stored \in [Exchanges -> BOOLEAN] /\ streamed \in [Exchanges -> BOOLEAN]
    /\ eng \in [Exchanges -> BOOLEAN]

Nothing == [ingested |-> FALSE, failed |-> FALSE]

Init ==
    /\ bufs = [k \in StreamKeys |-> None]
    /\ bufOrder = << >>
    /\ marks = [k \in StreamKeys |-> None]
    /\ markOrder = << >>
    /\ seen = NoneSeen
    /\ rows = {}
    /\ stage = [e \in Exchanges |-> "new"]
    /\ pos = [e \in Exchanges |-> 0]
    /\ key = [e \in Exchanges |-> None]
    /\ resp = [e \in Exchanges |-> None]
    /\ pc = [e \in Exchanges |-> "idle"]
    /\ task = [e \in Exchanges |-> "none"]
    /\ todo = [e \in Exchanges |-> << >>]
    /\ got = [e \in Exchanges |-> Nothing]
    /\ whole = [e \in Exchanges |-> {}]
    /\ stored = [e \in Exchanges |-> FALSE]
    /\ streamed = [e \in Exchanges |-> FALSE]
    /\ eng = [e \in Exchanges |-> FALSE]

-----------------------------------------------------------------------------
Goto(e, from, to) ==
    /\ pc[e] = from
    /\ pc' = [pc EXCEPT ![e] = to]

(* A handler returns and forgets its locals. *)
Return(e, from) ==
    /\ Goto(e, from, "idle")
    /\ task' = [task EXCEPT ![e] = "none"]
    /\ todo' = [todo EXCEPT ![e] = << >>]
    /\ got' = [got EXCEPT ![e] = Nothing]
    /\ whole' = [whole EXCEPT ![e] = {}]
    /\ stored' = [stored EXCEPT ![e] = FALSE]
    /\ streamed' = [streamed EXCEPT ![e] = FALSE]
    /\ eng' = [eng EXCEPT ![e] = FALSE]

Begin(e, to, t) ==
    /\ Goto(e, "idle", to)
    /\ task' = [task EXCEPT ![e] = t]

(* Fault: an existing buffer is reset.                                      *)
HeaderInitResets(e, k, r) ==
    /\ pc[e] = "idle"
    /\ stage[e] = "new"
    /\ stage' = [stage EXCEPT ![e] = "open"]
    /\ key' = [key EXCEPT ![e] = k]
    /\ resp' = [resp EXCEPT ![e] = r]
    /\ PutBuf(k, NewBuf)
    /\ UNCHANGED <<markVars, storeVars, pos, pc, localVars>>

(* resetStreamBuf: another exchange of this key has a buffer, which is      *)
(* poisoned for both, unless it was poisoned and untouched for 60 s.        *)
HeaderInit(e, k, r) ==
    /\ pc[e] = "idle"
    /\ stage[e] = "new"
    /\ stage' = [stage EXCEPT ![e] = "open"]
    /\ key' = [key EXCEPT ![e] = k]
    /\ resp' = [resp EXCEPT ![e] = r]
    /\ IF bufs[k] # None /\ ~(bufs[k].conflicted /\ bufs[k].aged)
       THEN PutBuf(k, [bufs[k] EXCEPT !.conflicted = TRUE, !.aged = FALSE])
       ELSE PutBuf(k, NewBuf)
    /\ UNCHANGED <<markVars, storeVars, pos, pc, localVars>>

(* A delta arrives.  It is dropped if the buffer is poisoned or nothing     *)
(* consumes its kind.                                                       *)
Chunk(e) ==
    /\ pc[e] = "idle"
    /\ stage[e] = "open"
    /\ pos[e] < Size(e)
    /\ pos' = [pos EXCEPT ![e] = @ + 1]
    /\ IF streamConflicted(key[e]) \/ ~admitDelta(KindOf(<<e, pos[e] + 1>>))
       THEN UNCHANGED <<pc, task>>
       ELSE Begin(e, "append", "chunk")
    /\ UNCHANGED <<streamVars, markVars, storeVars, stage, key, resp, todo, got, whole, stored, streamed, eng>>

(* Having dealt with a delta: back to the host, or on to the residual.      *)
AfterDelta(e, from, opened) ==
    \/ task[e] = "chunk" /\ Return(e, from)
    \/ /\ task[e] = "last"
       /\ Goto(e, from, "residual")
       /\ task' = [task EXCEPT ![e] = "end"]
       /\ todo' = [todo EXCEPT ![e] = << >>]
       /\ got' = [got EXCEPT ![e] = Nothing]
       /\ eng' = [eng EXCEPT ![e] = opened]
       /\ UNCHANGED <<whole, stored, streamed>>

(* ForScope fails: the delta is not appended. *)
OpenForDeltaFails(e) ==
    /\ "open" \in Faults
    /\ AfterDelta(e, "append", FALSE)
    /\ UNCHANGED <<streamVars, markVars, storeVars, hostVars>>

(* appendStreamDelta.  A delta that ends a segment takes the segment out of *)
(* the buffer; tool arguments are never cut.                                *)
AppendDelta(e) ==
    LET k == key[e]
        d == <<e, pos[e]>>
        b == IF bufs[k] = None THEN NewBuf ELSE [bufs[k] EXCEPT !.aged = FALSE]
        segment == (IF KindOf(d) = "text" THEN b.asst ELSE b.reason) \cup {d}
        kept == IF Cuts(d) THEN {} ELSE segment
    IN  /\ pc[e] = "append"
        /\ PutBuf(k, CASE KindOf(d) = "tool" -> [b EXCEPT !.tools = @ \cup {d}]
                       [] KindOf(d) = "reasoning" -> [b EXCEPT !.reason = kept]
                       [] KindOf(d) = "text" -> [b EXCEPT !.asst = kept, !.whole = @ \cup {d}])
        /\ IF KindOf(d) # "tool" /\ Cuts(d)
           THEN /\ Goto(e, "append", "recheck")
                /\ todo' = [todo EXCEPT ![e] = ToIngest(segment, KindOf(d))]
                /\ UNCHANGED <<task, got, whole, stored, streamed, eng>>
           ELSE AfterDelta(e, "append", TRUE)
        /\ UNCHANGED <<markVars, storeVars, hostVars>>

(* The buffer may have been poisoned since: then the segment is dropped.    *)
SegmentPoisoned(e) ==
    /\ AfterDelta(e, "recheck", TRUE)
    /\ streamConflicted(key[e])
    /\ UNCHANGED <<streamVars, markVars, storeVars, hostVars>>

SegmentClean(e) ==
    /\ Goto(e, "recheck", "ingest")
    /\ ~streamConflicted(key[e])
    /\ UNCHANGED <<streamVars, markVars, storeVars, hostVars, localVars>>

-----------------------------------------------------------------------------
(* Durable ingest of the texts of todo, as ingestStreamSegment,             *)
(* HandleResponse and durableIngest do it: claim, process, and unmark when  *)
(* processing fails.                                                        *)
Pop(e) == todo' = [todo EXCEPT ![e] = Tail(@)]

ClaimWon(e) ==
    /\ Goto(e, "ingest", "process")
    /\ todo[e] # << >>
    /\ Head(todo[e]) \notin seen.marks
    /\ seen' = Claimed(seen, Head(todo[e]))
    /\ UNCHANGED <<streamVars, markVars, rows, hostVars, localVars>>

ClaimLost(e) ==
    /\ pc[e] = "ingest"
    /\ todo[e] # << >>
    /\ Head(todo[e]) \in seen.marks
    /\ Pop(e)
    /\ UNCHANGED <<streamVars, markVars, storeVars, hostVars, pc, task, got, whole, stored, streamed, eng>>

ProcessText(e) ==
    /\ Goto(e, "process", "ingest")
    /\ rows' = rows \cup {Head(todo[e])}
    /\ got' = [got EXCEPT ![e].ingested = TRUE]
    /\ Pop(e)
    /\ UNCHANGED <<streamVars, markVars, seen, hostVars, task, whole, stored, streamed, eng>>

ProcessFails(e) ==
    /\ "process" \in Faults
    /\ Goto(e, "process", "ingest")
    /\ seen' = Unmarked(seen, Head(todo[e]))
    /\ got' = [got EXCEPT ![e].failed = TRUE]
    /\ Pop(e)
    /\ UNCHANGED <<streamVars, markVars, rows, hostVars, task, whole, stored, streamed, eng>>

(* A segment's outcome is noted; a flush claims the whole text first; the   *)
(* full body and a resent message end their handler.                        *)
Ingested(e) ==
    /\ todo[e] = << >>
    /\ \/ task[e] \in {"full", "resend"} /\ Return(e, "ingest")
       \/ task[e] \in {"chunk", "last"} /\ Goto(e, "ingest", "note") /\ UNCHANGED localVars
       \/ task[e] \in {"end", "answer"} /\ Goto(e, "ingest", "claimwhole") /\ UNCHANGED localVars
    /\ UNCHANGED <<streamVars, markVars, storeVars, hostVars>>

(* noteStreamResult: first the buffer's storedAny, then the mark. *)
NoteStored(e) ==
    /\ Goto(e, "note", "mark")
    /\ LET k == key[e]
       IN  bufs' = IF got[e].ingested /\ bufs[k] # None
                   THEN [bufs EXCEPT ![k].storedAny = TRUE] ELSE bufs
    /\ UNCHANGED <<bufOrder, markVars, storeVars, hostVars, localVars>>

NoteMark(e) ==
    /\ \/ AfterDelta(e, "mark", TRUE)
       \/ task[e] = "end" /\ Goto(e, "mark", "take") /\ UNCHANGED localVars
    /\ IF got[e].ingested \/ got[e].failed
       THEN PutMark(key[e], got[e].failed)
       ELSE UNCHANGED markVars
    /\ UNCHANGED <<streamVars, storeVars, hostVars>>

-----------------------------------------------------------------------------
Consumers == IngestAssistant \/ IngestReasoning \/ InterruptGate

(* A terminating chunk, with the last delta or after it.  A stream may have *)
(* two: OpenAI sends finish_reason and then [DONE].                         *)
Done(e) ==
    /\ stage[e] \in {"open", "ended"}
    /\ resp[e].terminated
    /\ pos[e] >= Size(e) - 1
    /\ stage' = [stage EXCEPT ![e] = "ended"]
    /\ pos' = [pos EXCEPT ![e] = Size(e)]
    /\ LET carries == pos[e] < Size(e) /\ admitDelta(KindOf(<<e, Size(e)>>))
       IN  CASE streamConflicted(key[e]) -> Begin(e, "tomb", "end")
             [] ~streamConflicted(key[e]) /\ ~Consumers -> Begin(e, "clear", "end")
             [] ~streamConflicted(key[e]) /\ Consumers /\ carries -> Begin(e, "append", "last")
             [] ~streamConflicted(key[e]) /\ Consumers /\ ~carries -> Begin(e, "residual", "end")
    /\ UNCHANGED <<streamVars, markVars, storeVars, key, resp, todo, got, whole, stored, streamed, eng>>

(* A poisoned stream ends: a failed mark, and the buffer stays. *)
Tombstone(e) ==
    /\ Return(e, "tomb")
    /\ PutMark(key[e], TRUE)
    /\ UNCHANGED <<streamVars, storeVars, hostVars>>

(* Is there text left in the buffer to flush? *)
Residual(e) ==
    /\ Goto(e, "residual", IF hasStreamBuf(key[e]) THEN "flush" ELSE "take")
    /\ UNCHANGED <<streamVars, markVars, storeVars, hostVars, localVars>>

OpenForResidualFails(e) ==
    /\ "open" \in Faults
    /\ Goto(e, "residual", "take")
    /\ ~eng[e]
    /\ hasStreamBuf(key[e])
    /\ UNCHANGED <<streamVars, markVars, storeVars, hostVars, localVars>>

(* Fault: the whole text is claimed and the residual not ingested.         *)
FlushBufClaimsOnly(e) ==
    LET k == key[e]
        b == IF bufs[k] = None THEN NewBuf ELSE bufs[k]
    IN  /\ Goto(e, "flush", "claimwhole")
        /\ bufs' = IF bufs[k] = None THEN bufs
                   ELSE [bufs EXCEPT ![k] = [b EXCEPT !.asst = {}, !.reason = {},
                                                      !.tools = {}, !.whole = {}]]
        /\ whole' = [whole EXCEPT ![e] = b.whole]
        /\ stored' = [stored EXCEPT ![e] = b.storedAny]
        /\ UNCHANGED <<bufOrder, markVars, storeVars, hostVars, task, todo, got, streamed, eng>>

(* flushStreamBuf empties the buffer; what a poisoned one held is lost.     *)
FlushBuf(e) ==
    LET k == key[e]
        b == IF bufs[k] = None THEN NewBuf ELSE bufs[k]
    IN  /\ pc[e] = "flush"
        /\ bufs' = IF bufs[k] = None THEN bufs
                   ELSE [bufs EXCEPT ![k] = [b EXCEPT !.asst = {}, !.reason = {},
                                                      !.tools = {}, !.whole = {}]]
        /\ IF b.conflicted
           THEN /\ Goto(e, "flush", IF task[e] = "end" THEN "take" ELSE "clear")
                /\ UNCHANGED <<todo, whole, stored>>
           ELSE /\ Goto(e, "flush", "ingest")
                /\ todo' = [todo EXCEPT ![e] =
                       ToIngest(b.asst, "text") \o ToIngest(b.reason, "reasoning") \o ToIngest(b.tools, "tool")]
                /\ whole' = [whole EXCEPT ![e] = b.whole]
                /\ stored' = [stored EXCEPT ![e] = b.storedAny]
        /\ UNCHANGED <<bufOrder, markVars, storeVars, hostVars, task, got, streamed, eng>>

(* A text is marked as seen, unless it already is. *)
MarkSeen(t) == seen' = IF t \in seen.marks THEN seen ELSE Claimed(seen, t)

(* Fault: the whole text is never claimed.                                  *)
ClaimWholeNever(e) ==
    /\ Goto(e, "claimwhole", IF task[e] = "end" THEN "note" ELSE "clear")
    /\ UNCHANGED <<streamVars, markVars, storeVars, hostVars, localVars>>

(* The end of flushStreamBuf: claim the whole message if part of it was     *)
(* stored and no ingest of this flush failed.                               *)
ClaimWhole(e) ==
    /\ Goto(e, "claimwhole", IF task[e] = "end" THEN "note" ELSE "clear")
    /\ IF (stored[e] \/ got[e].ingested) /\ ~got[e].failed /\ whole[e] # {}
       THEN MarkSeen(whole[e])
       ELSE UNCHANGED seen
    /\ UNCHANGED <<streamVars, markVars, rows, hostVars, localVars>>

(* takeStreamWhole, then the mark is peeked, then the whole text claimed.   *)
TakeWhole(e) ==
    LET k == key[e]
        b == IF bufs[k] = None THEN NewBuf ELSE bufs[k]
    IN  /\ Goto(e, "take", IF b.storedAny /\ b.whole # {} THEN "peek" ELSE "clear")
        /\ bufs' = IF bufs[k] = None THEN bufs ELSE [bufs EXCEPT ![k].whole = {}]
        /\ whole' = [whole EXCEPT ![e] = b.whole]
        /\ UNCHANGED <<bufOrder, markVars, storeVars, hostVars, task, todo, got, stored, streamed, eng>>

PeekForWhole(e) ==
    /\ Goto(e, "peek", IF peekStreamIngested(key[e]) THEN "claimlast" ELSE "clear")
    /\ UNCHANGED <<streamVars, markVars, storeVars, hostVars, localVars>>

ClaimTaken(e) ==
    /\ Goto(e, "claimlast", "clear")
    /\ MarkSeen(whole[e])
    /\ UNCHANGED <<streamVars, markVars, rows, hostVars, localVars>>

(* clearStreamBuf ends the done chunk, or the flush of HandleResponse.      *)
ClearBuf(e) ==
    /\ \/ task[e] = "end" /\ Return(e, "clear")
       \/ task[e] = "answer" /\ Goto(e, "clear", "answer") /\ UNCHANGED localVars
    /\ bufs' = [bufs EXCEPT ![key[e]] = None]
    /\ bufOrder' = Without(bufOrder, key[e])
    /\ UNCHANGED <<markVars, storeVars, hostVars>>

-----------------------------------------------------------------------------
(* HandleResponse, on hosts that deliver the assembled body of a stream.    *)
Delivered(e) == \/ stage[e] = "ended"
                \/ stage[e] = "open" /\ pos[e] = Size(e) /\ ~resp[e].terminated

Respond(e) ==
    /\ Delivered(e)
    /\ stage' = [stage EXCEPT ![e] = "answered"]
    /\ Begin(e, "hasbuf", "answer")
    /\ streamed' = [streamed EXCEPT ![e] = peekStreamIngested(key[e])]
    /\ UNCHANGED <<streamVars, markVars, storeVars, pos, key, resp, todo, got, whole, stored, eng>>

(* The text is stored already, or not to be stored. *)
Skips(e) == \/ streamed[e]
            \/ got[e].ingested /\ ~got[e].failed
            \/ ~IngestAssistant
            \/ Text(e) = {}

(* No residual and nothing to store: no engine is opened. *)
NeedEngine(e) ==
    /\ Goto(e, "hasbuf", IF ~hasStreamBuf(key[e]) /\ Skips(e) THEN "answer" ELSE "open")
    /\ UNCHANGED <<streamVars, markVars, storeVars, hostVars, localVars>>

(* Fault: the residual of the stream is forgotten.                          *)
OpenForResponseNoFlush(e) ==
    /\ Goto(e, "open", "answer")
    /\ UNCHANGED <<streamVars, markVars, storeVars, hostVars, localVars>>

OpenForResponse(e) ==
    /\ Goto(e, "open", IF hasStreamBuf(key[e]) THEN "flush" ELSE "answer")
    /\ UNCHANGED <<streamVars, markVars, storeVars, hostVars, localVars>>

OpenForResponseFails(e) ==
    /\ "open" \in Faults
    /\ Return(e, "open")
    /\ UNCHANGED <<streamVars, markVars, storeVars, hostVars>>

(* dropStreamIngested, then the full body is ingested or skipped. *)
Answer(e) ==
    /\ pc[e] = "answer"
    /\ marks' = [marks EXCEPT ![key[e]] = None]
    /\ markOrder' = Without(markOrder, key[e])
    /\ IF Skips(e)
       THEN Return(e, "answer")
       ELSE /\ Goto(e, "answer", "ingest")
            /\ task' = [task EXCEPT ![e] = "full"]
            /\ todo' = [todo EXCEPT ![e] = <<Text(e)>>]
            /\ UNCHANGED <<got, whole, stored, streamed, eng>>
    /\ UNCHANGED <<streamVars, storeVars, hostVars>>

(* A later request of the client resends the message in its history, and    *)
(* HandleRequestBeforeAuth ingests it.                                      *)
Resend(e) ==
    /\ Delivered(e) \/ stage[e] \in {"answered", "resent"}
    /\ stage' = [stage EXCEPT ![e] = "resent"]
    /\ IngestAssistant
    /\ Text(e) # {}
    /\ Begin(e, "ingest", "resend")
    /\ todo' = [todo EXCEPT ![e] = <<Text(e)>>]
    /\ UNCHANGED <<streamVars, markVars, storeVars, pos, key, resp, got, whole, stored, streamed, eng>>

(* 60 s pass over a poisoned buffer, 5 min over a mark. *)
AgeBuf(k) ==
    /\ "age" \in Faults
    /\ streamConflicted(k)
    /\ ~bufs[k].aged
    /\ bufs' = [bufs EXCEPT ![k].aged = TRUE]
    /\ UNCHANGED <<bufOrder, markVars, storeVars, hostVars, pc, localVars>>

AgeMark(k) ==
    /\ "age" \in Faults
    /\ marks[k] # None
    /\ ~marks[k].aged
    /\ marks' = [marks EXCEPT ![k].aged = TRUE]
    /\ UNCHANGED <<streamVars, markOrder, storeVars, hostVars, pc, localVars>>

-----------------------------------------------------------------------------
HostCalls(e) ==
    \/ \E k \in StreamKeys, r \in Responses[e] : HeaderInit(e, k, r)
    \/ Chunk(e) \/ Done(e) \/ Respond(e) \/ Resend(e)

HandlerRuns(e) ==
    \/ AppendDelta(e) \/ OpenForDeltaFails(e) \/ SegmentPoisoned(e) \/ SegmentClean(e)
    \/ ClaimWon(e) \/ ClaimLost(e) \/ ProcessText(e) \/ ProcessFails(e) \/ Ingested(e)
    \/ NoteStored(e) \/ NoteMark(e)
    \/ Tombstone(e) \/ Residual(e) \/ OpenForResidualFails(e) \/ FlushBuf(e) \/ ClaimWhole(e)
    \/ TakeWhole(e) \/ PeekForWhole(e) \/ ClaimTaken(e) \/ ClearBuf(e)
    \/ NeedEngine(e) \/ OpenForResponse(e) \/ OpenForResponseFails(e) \/ Answer(e)

Next ==
    \/ \E e \in Exchanges : HostCalls(e) \/ HandlerRuns(e)
    \/ \E k \in StreamKeys : AgeBuf(k) \/ AgeMark(k)

Spec == Init /\ [][Next]_vars

(* Handlers run to their end; a client goes on resending its history, and   *)
(* an engine does not fail for ever.                                        *)
Fairness == \A e \in Exchanges :
    /\ WF_vars(HandlerRuns(e))
    /\ SF_vars(Resend(e))
    /\ SF_vars(ProcessText(e))

FairSpec == Spec /\ Fairness

-----------------------------------------------------------------------------
(* No other exchange has ever used the stream key of e. *)
Alone(e) ==
    /\ key[e] # None
    /\ \A f \in Exchanges : f # e => key[f] # key[e]

Covered(t) == t \subseteq UNION rows

(* The assembled body is skipped on behalf of the stream only when nothing  *)
(* of it was lost (intercept.go:608-611, 696-701).                                   *)
SkipLosesNothing ==
    \A e \in Exchanges :
        pc[e] = "answer" /\ (streamed[e] \/ (got[e].ingested /\ ~got[e].failed)) /\ Alone(e)
            => Covered(Text(e))

(* Stored texts never mix the deltas of two exchanges, whatever they share  *)
(* (intercept.go:362-370).                                                  *)
RowsUnmixed ==
    \A t \in rows : \A c, d \in t : c[1] = d[1]

(* A text marked as seen is stored, or being stored: the mark of a whole    *)
(* message, which nobody stored as such, is backed by its segments          *)
(* (intercept.go:686-692).                                                  *)
ClaimKeepsText ==
    \A t \in seen.marks : (\A d \in t : Alone(d[1])) =>
        \/ Covered(t)
        \/ \E e \in Exchanges : pc[e] = "process" /\ Head(todo[e]) = t

(* No delta is stored twice, as part of a segment and of the assembled body *)
(* or the resent message (intercept.go:207-216, 550-555).                   *)
StoredOnce ==
    \A r, t \in rows : r # t => \A d \in r \cap t : ~Alone(d[1]) \/ ~resp[d[1]].terminated

(* Once the assembled body has been handled, its text is stored             *)
(* (intercept.go:207-246).                                                  *)
AnsweredStored ==
    \A e \in Exchanges :
        stage[e] = "answered" /\ pc[e] = "idle" /\ Alone(e) /\ IngestAssistant => Covered(Text(e))

(* A message that the client resends is eventually stored: a stale claim on *)
(* it would dedupe it away for ever (intercept.go:362-370).                 *)
ResentIsStored ==
    \A e \in Exchanges : stage[e] = "resent" ~> (stage[e] = "resent" /\ (Covered(Text(e)) \/ ~Alone(e)))
=============================================================================
