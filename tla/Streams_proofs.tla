--------------------------- MODULE Streams_proofs ---------------------------
(***************************************************************************)
(* Proofs about streamed responses in plugin/intercept.go for any number   *)
(* of exchanges, stream keys, responses and buffers.                       *)
(***************************************************************************)
EXTENDS Streams, Recency_proofs, FiniteSetTheorems, SequenceTheorems, TLAPS

(* A table of at most MaxBufs entries and the order of its keys mirror each *)
(* other: streamStates.m and streamIngested.m.                              *)
TableOf(table, order, Entries) ==
    /\ table \in [StreamKeys -> Entries \cup {None}]
    /\ order \in Seq(StreamKeys)
    /\ Distinct(order)
    /\ Len(order) <= MaxBufs
    /\ \A k \in StreamKeys : table[k] = None <=> k \notin InOrder(order)

SeenType ==
    /\ seen \in [marks : SUBSET Texts, order : Seq(Texts)]
    /\ Len(seen.order) <= MaxSeen
    /\ seen.marks \subseteq InOrder(seen.order)

HostType ==
    /\ stage \in [Exchanges -> {"new", "open", "ended", "answered", "resent"}]
    /\ pos \in [Exchanges -> Nat]
    /\ key \in [Exchanges -> StreamKeys \cup {None}]
    /\ resp = [e \in Exchanges |-> resp[e]]
    /\ \A e \in Exchanges :
          IF stage[e] = "new"
          THEN key[e] = None /\ resp[e] = None /\ pos[e] = 0
          ELSE key[e] \in StreamKeys /\ resp[e] \in Responses[e] /\ pos[e] \in 0..Size(e)

LocalType ==
    /\ pc \in [Exchanges -> PCs]
    /\ task \in [Exchanges -> {"none", "chunk", "last", "end", "answer", "full", "resend"}]
    /\ todo \in [Exchanges -> Seq(Texts)]
    /\ whole \in [Exchanges -> Texts]
    /\ got \in [Exchanges -> [ingested : BOOLEAN, failed : BOOLEAN]]
    /\ stored \in [Exchanges -> BOOLEAN]
    /\ streamed \in [Exchanges -> BOOLEAN]
    /\ eng \in [Exchanges -> BOOLEAN]

(* The steps a handler takes on behalf of a delta. *)
Streaming == {"idle", "append", "recheck", "ingest", "process", "note", "mark"}

(* What a handler is at, and how far the host is meanwhile. *)
Control ==
    \A e \in Exchanges :
        /\ pc[e] = "idle" => task[e] = "none"
        /\ pc[e] = "process" => todo[e] # << >>
        /\ pc[e] = "append" => pos[e] > 0
        /\ stage[e] = "new" => pc[e] = "idle"
        /\ stage[e] = "open" => task[e] \in {"none", "chunk"} /\ pc[e] \in Streaming

TypeIntact ==
    /\ TableOf(bufs, bufOrder, Buffers)
    /\ TableOf(marks, markOrder, Marks)
    /\ SeenType
    /\ rows \subseteq Texts
    /\ HostType
    /\ LocalType
    /\ Control

-----------------------------------------------------------------------------
(* Stamping a key puts it at the recent end and drops what exceeds the      *)
(* limit, never the key itself.                                             *)
LEMMA StampedIs ==
    ASSUME NEW order \in Seq(StreamKeys), Distinct(order), NEW k \in StreamKeys
    PROVE  /\ Stamped(order, k) \in Seq(StreamKeys)
           /\ Distinct(Stamped(order, k))
           /\ Len(Stamped(order, k)) <= MaxBufs
           /\ k \in InOrder(Stamped(order, k))
           /\ InOrder(Stamped(order, k)) \subseteq InOrder(order) \cup {k}
           /\ Len(Append(Without(order, k), k)) <= MaxBufs => InOrder(Stamped(order, k)) = InOrder(order) \cup {k}
<1> DEFINE w      == Without(order, k)
           all    == Append(w, k)
           excess == IF Len(all) > MaxBufs THEN Len(all) - MaxBufs ELSE 0
           s      == SubSeq(all, excess + 1, Len(all))
<1>1. w \in Seq(StreamKeys) /\ Distinct(w) /\ InOrder(w) = InOrder(order) \ {k}
  BY WithoutIs
<1> HIDE DEF w
<1>2. /\ all \in Seq(StreamKeys) /\ Distinct(all) /\ InOrder(all) = InOrder(w) \cup {k}
      /\ Len(all) = Len(w) + 1
  BY <1>1, AppendIs
<1>3. Len(w) \in Nat /\ all[Len(all)] = k
  BY <1>1, <1>2
<1> HIDE DEF all
<1>4. Len(all) \in Nat \ {0} /\ excess \in 0..(Len(all) - 1) /\ Len(all) - excess <= MaxBufs
  BY <1>2, <1>3, MaxBufsAssumption
<1>5. Len(all) <= MaxBufs => excess = 0
  BY <1>4, MaxBufsAssumption
<1> HIDE DEF excess
<1>6. /\ s \in Seq(StreamKeys) /\ Distinct(s)
      /\ InOrder(s) = InOrder(all) \ {all[i] : i \in 1..excess}
      /\ Len(s) = Len(all) - excess
  <2>1. excess \in 0..Len(all)
    BY <1>4
  <2> QED BY <1>2, <2>1, SuffixIs
<1>7. k \notin {all[i] : i \in 1..excess}
  BY <1>2, <1>3, <1>4 DEF Distinct
<1>8. s = Stamped(order, k)
  BY DEF Stamped, s, excess, all, w
<1> HIDE DEF s
<1>9. k \in InOrder(s) /\ InOrder(s) \subseteq InOrder(order) \cup {k} /\ Len(s) <= MaxBufs
  BY <1>1, <1>2, <1>4, <1>6, <1>7
<1>10. ASSUME Len(all) <= MaxBufs PROVE InOrder(s) = InOrder(order) \cup {k}
  <2>1. {all[i] : i \in 1..excess} = {}
    BY <1>5, <1>10
  <2> QED BY <1>1, <1>2, <1>6, <2>1
<1> QED BY <1>6, <1>8, <1>9, <1>10 DEF all, w

LEMMA PutTable ==
    ASSUME NEW table, NEW order, NEW Entries, TableOf(table, order, Entries),
           NEW k \in StreamKeys, NEW entry \in Entries, None \notin Entries
    PROVE  TableOf(Put(table, order, k, entry), Stamped(order, k), Entries)
<1>1. /\ Stamped(order, k) \in Seq(StreamKeys) /\ Distinct(Stamped(order, k))
      /\ Len(Stamped(order, k)) <= MaxBufs /\ k \in InOrder(Stamped(order, k))
      /\ InOrder(Stamped(order, k)) \subseteq InOrder(order) \cup {k}
  BY StampedIs DEF TableOf
<1>2. Put(table, order, k, entry) \in [StreamKeys -> Entries \cup {None}]
  BY DEF TableOf, Put
<1>3. ASSUME NEW j \in StreamKeys
      PROVE  Put(table, order, k, entry)[j] = None <=> j \notin InOrder(Stamped(order, k))
  BY <1>1 DEF TableOf, Put
<1> QED BY <1>1, <1>2, <1>3 DEF TableOf

LEMMA DropTable ==
    ASSUME NEW table, NEW order, NEW Entries, TableOf(table, order, Entries), NEW k \in StreamKeys
    PROVE  TableOf([table EXCEPT ![k] = None], Without(order, k), Entries)
<1>1. /\ Without(order, k) \in Seq(StreamKeys) /\ Distinct(Without(order, k))
      /\ InOrder(Without(order, k)) = InOrder(order) \ {k}
      /\ Len(Without(order, k)) = IF k \in InOrder(order) THEN Len(order) - 1 ELSE Len(order)
  BY WithoutIs DEF TableOf
<1>2. Len(Without(order, k)) <= MaxBufs
  BY <1>1, MaxBufsAssumption DEF TableOf
<1> QED BY <1>1, <1>2 DEF TableOf

LEMMA UpdateTable ==
    ASSUME NEW table, NEW order, NEW Entries, TableOf(table, order, Entries),
           NEW k \in StreamKeys, NEW entry \in Entries, None \notin Entries, table[k] # None
    PROVE  TableOf([table EXCEPT ![k] = entry], order, Entries)
BY DEF TableOf

(* Claiming keeps the dedupe set within its bound, and every mark in the   *)
(* order by which it will be forgotten.                                    *)
LEMMA ClaimedType ==
    ASSUME SeenType, NEW h \in Texts, seen' = Claimed(seen, h)
    PROVE  SeenType'
<1> DEFINE order == Append(seen.order, h)
           n     == Len(order)
           part  == MaxSeen \div 4
           drop  == IF n > MaxSeen THEN n - MaxSeen + part ELSE 0
<1>1. /\ order \in Seq(Texts) /\ n \in Nat \ {0} /\ n <= MaxSeen + 1
      /\ order[n] = h /\ \A i \in 1..Len(seen.order) : order[i] = seen.order[i] /\ i \in 1..n
  BY MaxSeenAssumption DEF SeenType
<1>2. MaxSeen \in Nat \ {0} /\ part \in Nat /\ part <= MaxSeen - 1
  <2>1. \A m \in Nat \ {0} : m \div 4 \in Nat /\ m \div 4 <= m - 1
    OBVIOUS
  <2> QED BY <2>1, MaxSeenAssumption
<1>3. drop \in 0..n /\ n - drop <= MaxSeen
  <2> HIDE DEF part, n
  <2> QED BY <1>1, <1>2
<1>4. /\ seen'.marks = (seen.marks \cup {h}) \ {order[i] : i \in 1..drop}
      /\ seen'.order = SubSeq(order, drop + 1, n)
      /\ seen' = [marks |-> seen'.marks, order |-> seen'.order]
  BY DEF Claimed
<1>5. n = Len(order)
  OBVIOUS
<1> HIDE DEF drop, n, order
<1>6. SubSeq(order, drop + 1, n) \in Seq(Texts) /\ Len(SubSeq(order, drop + 1, n)) = n - drop
  BY <1>1, <1>3, <1>5
<1>7. \A i \in 1..(n - drop) : SubSeq(order, drop + 1, n)[i] = order[i + drop]
  BY <1>1, <1>3, <1>5
<1>8. seen'.marks \subseteq InOrder(seen'.order)
  <2> SUFFICES ASSUME NEW x \in seen.marks \cup {h}, x \notin {order[i] : i \in 1..drop}
               PROVE  x \in InOrder(seen'.order)
    BY <1>4
  <2>1. PICK j \in 1..n : order[j] = x
    <3>1. CASE x = h
      BY <1>1, <3>1
    <3>2. CASE x \in seen.marks
      BY <1>1, <3>2 DEF SeenType, InOrder
    <3> QED BY <3>1, <3>2
  <2>2. j - drop \in 1..(n - drop) /\ (j - drop) + drop = j
    BY <1>1, <1>3, <2>1
  <2>3. seen'.order[j - drop] = x
    BY <1>4, <1>7, <2>1, <2>2
  <2> QED BY <1>4, <1>6, <2>2, <2>3 DEF InOrder
<1>9. seen'.marks \in SUBSET Texts
  BY <1>4 DEF SeenType
<1> QED BY <1>3, <1>4, <1>6, <1>8, <1>9 DEF SeenType

LEMMA UnmarkedType ==
    ASSUME SeenType, NEW h, seen' = Unmarked(seen, h)
    PROVE  SeenType'
<1>1. /\ seen.marks \in SUBSET Texts /\ seen.order \in Seq(Texts)
      /\ seen = [marks |-> seen.marks, order |-> seen.order]
  BY DEF SeenType
<1>2. seen' = [marks |-> seen.marks \ {h}, order |-> seen.order]
  BY <1>1 DEF Unmarked
<1> QED BY <1>1, <1>2 DEF SeenType

-----------------------------------------------------------------------------
(* Which steps write which state. *)
BufWriters ==
    \/ \E e \in Exchanges : \/ \E k \in StreamKeys, r \in Responses[e] : HeaderInit(e, k, r)
                            \/ AppendDelta(e) \/ NoteStored(e) \/ FlushBuf(e) \/ TakeWhole(e) \/ ClearBuf(e)
    \/ \E k \in StreamKeys : AgeBuf(k)

LEMMA BufsWritten ==
    ASSUME [Next]_vars
    PROVE  BufWriters \/ UNCHANGED streamVars
<1>1. ASSUME NEW e \in Exchanges, HostCalls(e) PROVE BufWriters \/ UNCHANGED streamVars
  BY <1>1 DEF HostCalls, BufWriters, Chunk, Done, Respond, Resend
<1>2. ASSUME NEW e \in Exchanges, HandlerRuns(e) PROVE BufWriters \/ UNCHANGED streamVars
  BY <1>2 DEF HandlerRuns, BufWriters, OpenForDeltaFails, SegmentPoisoned, SegmentClean, ClaimWon,
              ClaimLost, ProcessText, ProcessFails, Ingested, NoteMark, Tombstone, Residual,
              OpenForResidualFails, ClaimWhole, PeekForWhole, ClaimTaken, NeedEngine, OpenForResponse,
              OpenForResponseFails, Answer
<1>3. ASSUME NEW k \in StreamKeys, AgeMark(k) PROVE UNCHANGED streamVars
  BY <1>3 DEF AgeMark
<1>4. CASE UNCHANGED vars
  BY <1>4 DEF vars
<1> QED BY <1>1, <1>2, <1>3, <1>4 DEF Next, BufWriters

MarkWriters ==
    \/ \E e \in Exchanges : NoteMark(e) \/ Tombstone(e) \/ Answer(e)
    \/ \E k \in StreamKeys : AgeMark(k)

LEMMA MarksWritten ==
    ASSUME [Next]_vars
    PROVE  MarkWriters \/ UNCHANGED markVars
<1>1. ASSUME NEW e \in Exchanges, HostCalls(e) PROVE UNCHANGED markVars
  BY <1>1 DEF HostCalls, HeaderInit, Chunk, Done, Respond, Resend
<1>2. ASSUME NEW e \in Exchanges, HandlerRuns(e) PROVE MarkWriters \/ UNCHANGED markVars
  BY <1>2 DEF HandlerRuns, MarkWriters, AppendDelta, OpenForDeltaFails, SegmentPoisoned, SegmentClean,
              ClaimWon, ClaimLost, ProcessText, ProcessFails, Ingested, NoteStored, Residual,
              OpenForResidualFails, FlushBuf, ClaimWhole, TakeWhole, PeekForWhole, ClaimTaken, ClearBuf,
              NeedEngine, OpenForResponse, OpenForResponseFails
<1>3. ASSUME NEW k \in StreamKeys, AgeBuf(k) PROVE UNCHANGED markVars
  BY <1>3 DEF AgeBuf
<1>4. CASE UNCHANGED vars
  BY <1>4 DEF vars
<1> QED BY <1>1, <1>2, <1>3, <1>4 DEF Next, MarkWriters

StoreWriters ==
    \E e \in Exchanges : ClaimWon(e) \/ ProcessText(e) \/ ProcessFails(e) \/ ClaimWhole(e) \/ ClaimTaken(e)

LEMMA StoreWritten ==
    ASSUME [Next]_vars
    PROVE  StoreWriters \/ UNCHANGED storeVars
<1>1. ASSUME NEW e \in Exchanges, HostCalls(e) PROVE UNCHANGED storeVars
  BY <1>1 DEF HostCalls, HeaderInit, Chunk, Done, Respond, Resend
<1>2. ASSUME NEW e \in Exchanges, HandlerRuns(e) PROVE StoreWriters \/ UNCHANGED storeVars
  BY <1>2 DEF HandlerRuns, StoreWriters, AppendDelta, OpenForDeltaFails, SegmentPoisoned, SegmentClean,
              ClaimLost, Ingested, NoteStored, NoteMark, Tombstone, Residual,
              OpenForResidualFails, FlushBuf, TakeWhole, PeekForWhole, ClearBuf,
              NeedEngine, OpenForResponse, OpenForResponseFails, Answer
<1>3. ASSUME NEW k \in StreamKeys, AgeBuf(k) \/ AgeMark(k) PROVE UNCHANGED storeVars
  BY <1>3 DEF AgeBuf, AgeMark
<1>4. CASE UNCHANGED vars
  BY <1>4 DEF vars
<1> QED BY <1>1, <1>2, <1>3, <1>4 DEF Next, StoreWriters

HostWriters == \E e \in Exchanges : HostCalls(e)

LEMMA HostWritten ==
    ASSUME [Next]_vars
    PROVE  HostWriters \/ UNCHANGED hostVars
<1>1. ASSUME NEW e \in Exchanges, HandlerRuns(e) PROVE UNCHANGED hostVars
  BY <1>1 DEF HandlerRuns, AppendDelta, OpenForDeltaFails, SegmentPoisoned, SegmentClean, ClaimWon,
              ClaimLost, ProcessText, ProcessFails, Ingested, NoteStored, NoteMark, Tombstone, Residual,
              OpenForResidualFails, FlushBuf, ClaimWhole, TakeWhole, PeekForWhole, ClaimTaken, ClearBuf,
              NeedEngine, OpenForResponse, OpenForResponseFails, Answer
<1>2. ASSUME NEW k \in StreamKeys, AgeBuf(k) \/ AgeMark(k) PROVE UNCHANGED hostVars
  BY <1>2 DEF AgeBuf, AgeMark
<1>3. CASE UNCHANGED vars
  BY <1>3 DEF vars
<1> QED BY <1>1, <1>2, <1>3 DEF Next, HostWriters

(* A handler runs for an exchange the host has begun. *)
LEMMA BusyHasKey ==
    ASSUME TypeIntact, NEW e \in Exchanges, pc[e] # "idle"
    PROVE  stage[e] # "new" /\ key[e] \in StreamKeys /\ resp[e] \in Responses[e] /\ pos[e] \in 0..Size(e)
BY DEF TypeIntact, Control, HostType

(* The delta that was delivered last, and its kind. *)
LEMMA DeltaType ==
    ASSUME TypeIntact, NEW e \in Exchanges, stage[e] # "new", NEW i \in 1..Size(e)
    PROVE  /\ <<e, i>> \in Deltas
           /\ KindOf(<<e, i>>) \in {"text", "reasoning", "tool"}
           /\ Cuts(<<e, i>>) \in BOOLEAN
<1>1. resp[e] \in Responses[e]
  BY DEF TypeIntact, HostType
<1> DEFINE D == [kind : {"text", "reasoning", "tool"}, cut : BOOLEAN]
<1>2. resp[e].deltas \in Seq(D)
  BY <1>1, ResponsesAssumption
<1>3. i \in 1..Len(resp[e].deltas)
  BY DEF Size
<1>4. resp[e].deltas[i] \in D
  <2> HIDE DEF D
  <2> QED BY <1>2, <1>3, ElementOfSeq
<1>5. i \in Nat \ {0}
  OBVIOUS
<1> QED BY <1>4, <1>5 DEF Deltas, KindOf, Cuts

LEMMA TextType ==
    ASSUME TypeIntact, NEW e \in Exchanges, stage[e] # "new"
    PROVE  Text(e) \in Texts
<1>1. \A i \in 1..Size(e) : <<e, i>> \in Deltas
  BY DeltaType
<1> QED BY <1>1 DEF Text, Texts

(* The buffers keep their type and stay within their number. *)
LEMMA BufStep ==
    ASSUME TypeIntact, [Next]_vars
    PROVE  TableOf(bufs, bufOrder, Buffers)'
<1> DEFINE T == TableOf(bufs, bufOrder, Buffers)
<1>1. T /\ None \notin Buffers
  BY NoneAssumption DEF TypeIntact
<1>2. NewBuf \in Buffers
  BY DEF NewBuf, Buffers, Texts
<1>3. \A k \in StreamKeys : bufs[k] # None => bufs[k] \in Buffers
  BY <1>1 DEF TableOf
<1>4. ASSUME NEW k \in StreamKeys, NEW b \in Buffers, PutBuf(k, b) PROVE T'
  BY <1>1, <1>4, PutTable DEF PutBuf
<1>5. ASSUME NEW k \in StreamKeys, NEW b \in Buffers, bufs[k] # None,
             bufs' = [bufs EXCEPT ![k] = b], bufOrder' = bufOrder
      PROVE  T'
  BY <1>1, <1>5, UpdateTable
<1>6. ASSUME NEW e \in Exchanges, NEW k \in StreamKeys, NEW r \in Responses[e], HeaderInit(e, k, r) PROVE T'
  <2>1. bufs[k] # None => [bufs[k] EXCEPT !.conflicted = TRUE, !.aged = FALSE] \in Buffers
    BY <1>3 DEF Buffers
  <2> QED BY <1>2, <1>4, <1>6, <2>1 DEF HeaderInit
<1>7. ASSUME NEW e \in Exchanges, AppendDelta(e) PROVE T'
  <2> DEFINE k == key[e]
             d == <<e, pos[e]>>
             b == IF bufs[k] = None THEN NewBuf ELSE [bufs[k] EXCEPT !.aged = FALSE]
             segment == (IF KindOf(d) = "text" THEN b.asst ELSE b.reason) \cup {d}
             kept == IF Cuts(d) THEN {} ELSE segment
             entry == CASE KindOf(d) = "tool" -> [b EXCEPT !.tools = @ \cup {d}]
                        [] KindOf(d) = "reasoning" -> [b EXCEPT !.reason = kept]
                        [] KindOf(d) = "text" -> [b EXCEPT !.asst = kept, !.whole = @ \cup {d}]
  <2>1. pc[e] = "append" /\ k \in StreamKeys /\ stage[e] # "new" /\ pos[e] \in 1..Size(e)
    BY <1>7, BusyHasKey DEF AppendDelta, TypeIntact, Control
  <2>2. d \in Deltas /\ KindOf(d) \in {"text", "reasoning", "tool"}
    BY <2>1, DeltaType
  <2>3. PutBuf(k, entry)
    BY <1>7 DEF AppendDelta
  <2>4. b \in Buffers
    BY <1>2, <1>3, <2>1 DEF Buffers
  <2> HIDE DEF d, b, k
  <2>5. /\ b.asst \in Texts /\ b.reason \in Texts /\ b.tools \in Texts /\ b.whole \in Texts
    BY <2>4 DEF Buffers
  <2>6. segment \in Texts /\ kept \in Texts /\ b.tools \cup {d} \in Texts /\ b.whole \cup {d} \in Texts
    BY <2>2, <2>5 DEF Texts
  <2> HIDE DEF segment, kept
  <2>7. entry \in Buffers
    BY <2>2, <2>4, <2>6 DEF Buffers
  <2> QED BY <1>4, <2>1, <2>3, <2>7
<1>8. ASSUME NEW e \in Exchanges, NoteStored(e) PROVE T'
  <2>1. key[e] \in StreamKeys
    BY <1>8, BusyHasKey DEF NoteStored, Goto
  <2>2. CASE got[e].ingested /\ bufs[key[e]] # None
    <3>1. [bufs[key[e]] EXCEPT !.storedAny = TRUE] \in Buffers
      BY <1>3, <2>1, <2>2 DEF Buffers
    <3>2. bufs' = [bufs EXCEPT ![key[e]] = [bufs[key[e]] EXCEPT !.storedAny = TRUE]] /\ bufOrder' = bufOrder
      BY <1>8, <2>2 DEF NoteStored
    <3> QED BY <1>5, <2>1, <2>2, <3>1, <3>2
  <2>3. CASE ~(got[e].ingested /\ bufs[key[e]] # None)
    BY <1>1, <1>8, <2>3 DEF NoteStored
  <2> QED BY <2>2, <2>3
<1>9. ASSUME NEW e \in Exchanges, FlushBuf(e) PROVE T'
  <2>1. key[e] \in StreamKeys
    BY <1>9, BusyHasKey DEF FlushBuf
  <2>2. CASE bufs[key[e]] # None
    <3>1. [bufs[key[e]] EXCEPT !.asst = {}, !.reason = {}, !.tools = {}, !.whole = {}] \in Buffers
      <4>1. \A b \in Buffers, x \in Texts :
               [b EXCEPT !.asst = x, !.reason = x, !.tools = x, !.whole = x] \in Buffers
        BY DEF Buffers
      <4>2. {} \in Texts /\ bufs[key[e]] \in Buffers
        BY <1>3, <2>1, <2>2 DEF Texts
      <4> QED BY <4>1, <4>2
    <3>2. bufs' = [bufs EXCEPT ![key[e]] = [bufs[key[e]] EXCEPT !.asst = {}, !.reason = {}, !.tools = {}, !.whole = {}]]
          /\ bufOrder' = bufOrder
      BY <1>9, <2>2 DEF FlushBuf
    <3> QED BY <1>5, <2>1, <2>2, <3>1, <3>2
  <2>3. CASE bufs[key[e]] = None
    BY <1>1, <1>9, <2>3 DEF FlushBuf
  <2> QED BY <2>2, <2>3
<1>10. ASSUME NEW e \in Exchanges, TakeWhole(e) PROVE T'
  <2>1. key[e] \in StreamKeys
    BY <1>10, BusyHasKey DEF TakeWhole, Goto
  <2>2. CASE bufs[key[e]] # None
    <3>1. [bufs[key[e]] EXCEPT !.whole = {}] \in Buffers
      BY <1>3, <2>1, <2>2 DEF Buffers, Texts
    <3>2. bufs' = [bufs EXCEPT ![key[e]] = [bufs[key[e]] EXCEPT !.whole = {}]] /\ bufOrder' = bufOrder
      BY <1>10, <2>2 DEF TakeWhole
    <3> QED BY <1>5, <2>1, <2>2, <3>1, <3>2
  <2>3. CASE bufs[key[e]] = None
    BY <1>1, <1>10, <2>3 DEF TakeWhole
  <2> QED BY <2>2, <2>3
<1>11. ASSUME NEW e \in Exchanges, ClearBuf(e) PROVE T'
  <2>1. pc[e] = "clear" /\ bufs' = [bufs EXCEPT ![key[e]] = None] /\ bufOrder' = Without(bufOrder, key[e])
    BY <1>11 DEF ClearBuf, Return, Goto
  <2>2. key[e] \in StreamKeys
    BY <2>1, BusyHasKey
  <2> QED BY <1>1, <2>1, <2>2, DropTable
<1>12. ASSUME NEW k \in StreamKeys, AgeBuf(k) PROVE T'
  <2>1. bufs[k] # None /\ [bufs[k] EXCEPT !.aged = TRUE] \in Buffers
    BY <1>3, <1>12 DEF AgeBuf, streamConflicted, Buffers
  <2>2. bufs' = [bufs EXCEPT ![k] = [bufs[k] EXCEPT !.aged = TRUE]] /\ bufOrder' = bufOrder
    BY <1>12 DEF AgeBuf
  <2> QED BY <1>5, <2>1, <2>2
<1>13. CASE UNCHANGED streamVars
  BY <1>1, <1>13 DEF streamVars, TableOf
<1> QED BY <1>6, <1>7, <1>8, <1>9, <1>10, <1>11, <1>12, <1>13, BufsWritten DEF BufWriters

(* So do the marks. *)
LEMMA MarkStep ==
    ASSUME TypeIntact, [Next]_vars
    PROVE  TableOf(marks, markOrder, Marks)'
<1> DEFINE T == TableOf(marks, markOrder, Marks)
<1>1. T /\ None \notin Marks
  BY NoneAssumption DEF TypeIntact
<1>2. \A k \in StreamKeys : marks[k] # None => marks[k] \in Marks
  BY <1>1 DEF TableOf
<1>3. ASSUME NEW k \in StreamKeys, NEW failed \in BOOLEAN, PutMark(k, failed) PROVE T'
  <2> DEFINE entry == [failed |-> failed \/ (marks[k] # None /\ marks[k].failed), aged |-> FALSE]
  <2>1. entry \in Marks
    BY DEF Marks
  <2>2. marks' = Put(marks, markOrder, k, entry) /\ markOrder' = Stamped(markOrder, k)
    BY <1>3 DEF PutMark
  <2> HIDE DEF entry
  <2> QED BY <1>1, <2>1, <2>2, PutTable
<1>4. ASSUME NEW e \in Exchanges, NoteMark(e) PROVE T'
  <2>1. pc[e] = "mark"
    BY <1>4 DEF NoteMark, AfterDelta, Return, Goto
  <2>2. key[e] \in StreamKeys /\ got[e].failed \in BOOLEAN
    <3>1. got[e] \in [ingested : BOOLEAN, failed : BOOLEAN]
      BY DEF TypeIntact, LocalType
    <3> QED BY <2>1, <3>1, BusyHasKey
  <2>3. PutMark(key[e], got[e].failed) \/ UNCHANGED markVars
    BY <1>4 DEF NoteMark
  <2> QED BY <1>1, <1>3, <2>2, <2>3 DEF markVars, TableOf
<1>5. ASSUME NEW e \in Exchanges, Tombstone(e) PROVE T'
  <2>1. pc[e] = "tomb" /\ PutMark(key[e], TRUE)
    BY <1>5 DEF Tombstone, Return, Goto
  <2>2. key[e] \in StreamKeys
    BY <2>1, BusyHasKey
  <2> QED BY <1>3, <2>1, <2>2
<1>6. ASSUME NEW e \in Exchanges, Answer(e) PROVE T'
  <2>1. pc[e] = "answer" /\ marks' = [marks EXCEPT ![key[e]] = None] /\ markOrder' = Without(markOrder, key[e])
    BY <1>6 DEF Answer
  <2>2. key[e] \in StreamKeys
    BY <2>1, BusyHasKey
  <2> QED BY <1>1, <2>1, <2>2, DropTable
<1>7. ASSUME NEW k \in StreamKeys, AgeMark(k) PROVE T'
  <2>1. marks[k] # None /\ [marks[k] EXCEPT !.aged = TRUE] \in Marks
    BY <1>2, <1>7 DEF AgeMark, Marks
  <2>2. marks' = [marks EXCEPT ![k] = [marks[k] EXCEPT !.aged = TRUE]] /\ markOrder' = markOrder
    BY <1>7 DEF AgeMark
  <2> QED BY <1>1, <2>1, <2>2, UpdateTable
<1>8. CASE UNCHANGED markVars
  BY <1>1, <1>8 DEF markVars, TableOf
<1> QED BY <1>4, <1>5, <1>6, <1>7, <1>8, MarksWritten DEF MarkWriters

(* What is being ingested is a text. *)
LEMMA HeadType ==
    ASSUME TypeIntact, NEW e \in Exchanges, todo[e] # << >>
    PROVE  Head(todo[e]) \in Texts /\ Tail(todo[e]) \in Seq(Texts)
<1>1. todo[e] \in Seq(Texts)
  BY DEF TypeIntact, LocalType
<1> QED BY <1>1

LEMMA StoreStep ==
    ASSUME TypeIntact, [Next]_vars
    PROVE  SeenType' /\ rows' \subseteq Texts
<1>1. SeenType /\ rows \subseteq Texts
  BY DEF TypeIntact
<1>2. \A e \in Exchanges : whole[e] \in Texts
  BY DEF TypeIntact, LocalType
<1>3. ASSUME NEW e \in Exchanges, ClaimWon(e) PROVE SeenType' /\ rows' = rows
  BY <1>1, <1>3, HeadType, ClaimedType DEF ClaimWon
<1>4. ASSUME NEW e \in Exchanges, ProcessText(e) PROVE SeenType' /\ rows' \subseteq Texts
  <2>1. Head(todo[e]) \in Texts
    BY <1>4, HeadType DEF ProcessText, Goto, TypeIntact, Control
  <2> QED BY <1>1, <1>4, <2>1 DEF ProcessText, SeenType
<1>5. ASSUME NEW e \in Exchanges, ProcessFails(e) PROVE SeenType' /\ rows' = rows
  BY <1>1, <1>5, UnmarkedType DEF ProcessFails
<1>6. ASSUME NEW e \in Exchanges, MarkSeen(whole[e]) \/ UNCHANGED seen PROVE SeenType'
  BY <1>1, <1>2, <1>6, ClaimedType DEF MarkSeen, SeenType
<1>7. ASSUME NEW e \in Exchanges, ClaimWhole(e) \/ ClaimTaken(e) PROVE SeenType' /\ rows' = rows
  BY <1>6, <1>7 DEF ClaimWhole, ClaimTaken
<1>8. CASE UNCHANGED storeVars
  BY <1>1, <1>8 DEF storeVars, SeenType
<1> QED BY <1>1, <1>3, <1>4, <1>5, <1>7, <1>8, StoreWritten DEF StoreWriters

LEMMA HostStep ==
    ASSUME TypeIntact, [Next]_vars
    PROVE  HostType'
<1>1. HostType
  BY DEF TypeIntact
<1>2. ASSUME NEW e \in Exchanges, NEW k \in StreamKeys, NEW r \in Responses[e], HeaderInit(e, k, r)
      PROVE  HostType'
  <2>1. /\ stage[e] = "new" /\ stage' = [stage EXCEPT ![e] = "open"]
        /\ key' = [key EXCEPT ![e] = k] /\ resp' = [resp EXCEPT ![e] = r] /\ pos' = pos
    BY <1>2 DEF HeaderInit
  <2>2. r.deltas \in Seq([kind : {"text", "reasoning", "tool"}, cut : BOOLEAN])
    BY ResponsesAssumption
  <2>3. Len(r.deltas) \in Nat /\ pos[e] = 0
    BY <1>1, <2>1, <2>2 DEF HostType
  <2>4. resp' = [f \in Exchanges |-> resp'[f]]
    BY <1>1, <2>1 DEF HostType
  <2> QED BY <1>1, <2>1, <2>3, <2>4 DEF HostType, Size
<1>3. ASSUME NEW e \in Exchanges, stage[e] # "new", UNCHANGED <<key, resp>>,
             NEW s \in {"open", "ended", "answered", "resent"}, stage' = [stage EXCEPT ![e] = s],
             NEW p \in Nat, p <= Size(e), pos' = [pos EXCEPT ![e] = p]
      PROVE  HostType'
  <2>1. stage' \in [Exchanges -> {"new", "open", "ended", "answered", "resent"}]
        /\ pos' \in [Exchanges -> Nat]
    BY <1>1, <1>3 DEF HostType
  <2>2. p \in 0..Size(e)
    <3>1. resp[e].deltas \in Seq([kind : {"text", "reasoning", "tool"}, cut : BOOLEAN])
      BY <1>1, <1>3, ResponsesAssumption DEF HostType
    <3>2. Size(e) \in Nat
      BY <3>1 DEF Size
    <3> QED BY <1>3, <3>2
  <2> QED BY <1>1, <1>3, <2>1, <2>2 DEF HostType, Size
<1>4. \A e \in Exchanges : stage[e] # "new" => pos[e] \in Nat /\ Size(e) \in Nat /\ pos[e] <= Size(e)
  <2> SUFFICES ASSUME NEW e \in Exchanges, stage[e] # "new" PROVE pos[e] \in Nat /\ Size(e) \in Nat /\ pos[e] <= Size(e)
    OBVIOUS
  <2>1. resp[e].deltas \in Seq([kind : {"text", "reasoning", "tool"}, cut : BOOLEAN])
    BY <1>1, ResponsesAssumption DEF HostType
  <2>2. Size(e) \in Nat
    BY <2>1 DEF Size
  <2> QED BY <1>1, <2>2 DEF HostType
<1>5. ASSUME NEW e \in Exchanges, Chunk(e) PROVE HostType'
  <2>1. stage[e] = "open" /\ pos[e] < Size(e) /\ pos' = [pos EXCEPT ![e] = pos[e] + 1]
        /\ UNCHANGED <<stage, key, resp>>
    BY <1>5 DEF Chunk
  <2>2. stage' = [stage EXCEPT ![e] = "open"]
    BY <1>1, <2>1 DEF HostType
  <2>3. pos[e] + 1 \in Nat /\ pos[e] + 1 <= Size(e)
    BY <1>4, <2>1
  <2> QED BY <1>3, <2>1, <2>2, <2>3
<1>6. ASSUME NEW e \in Exchanges, Done(e) PROVE HostType'
  <2>1. stage[e] \in {"open", "ended"} /\ stage' = [stage EXCEPT ![e] = "ended"]
        /\ pos' = [pos EXCEPT ![e] = Size(e)] /\ UNCHANGED <<key, resp>>
    BY <1>6 DEF Done
  <2>2. Size(e) \in Nat /\ Size(e) <= Size(e)
    BY <1>4, <2>1
  <2> QED BY <1>3, <2>1, <2>2
<1>7. ASSUME NEW e \in Exchanges, Respond(e) \/ Resend(e) PROVE HostType'
  <2>1. /\ stage[e] # "new" /\ UNCHANGED <<pos, key, resp>>
        /\ \E s \in {"answered", "resent"} : stage' = [stage EXCEPT ![e] = s]
    BY <1>7 DEF Respond, Resend, Delivered
  <2>2. pos' = [pos EXCEPT ![e] = pos[e]]
    BY <1>1, <2>1 DEF HostType
  <2> QED BY <1>3, <1>4, <2>1, <2>2
<1>8. CASE UNCHANGED hostVars
  <2>1. stage' = stage /\ pos' = pos /\ key' = key /\ resp' = resp
    BY <1>8 DEF hostVars
  <2>2. \A e \in Exchanges : Size(e)' = Size(e)
    BY <2>1 DEF Size
  <2>3. resp' = [e \in Exchanges |-> resp'[e]]
    BY <1>1, <2>1 DEF HostType
  <2> QED BY <1>1, <2>1, <2>2, <2>3 DEF HostType
<1> QED BY <1>2, <1>5, <1>6, <1>7, <1>8, HostWritten DEF HostWriters, HostCalls

(* A handler that replaces the state of its own exchange keeps the types. *)
Tasks    == {"none", "chunk", "last", "end", "answer", "full", "resend"}
Outcomes == [ingested : BOOLEAN, failed : BOOLEAN]

LEMMA Updated ==
    ASSUME NEW S, NEW f \in [Exchanges -> S], NEW e \in Exchanges,
           NEW g, g = f \/ \E v \in S : g = [f EXCEPT ![e] = v]
    PROVE  g \in [Exchanges -> S]
OBVIOUS

LEMMA LocalUpdate ==
    ASSUME LocalType, NEW e \in Exchanges,
           NEW to \in PCs, pc' = [pc EXCEPT ![e] = to],
           task' = task \/ \E t \in Tasks : task' = [task EXCEPT ![e] = t],
           todo' = todo \/ \E t \in Seq(Texts) : todo' = [todo EXCEPT ![e] = t],
           whole' = whole \/ \E t \in Texts : whole' = [whole EXCEPT ![e] = t],
           got' = got \/ \E g \in Outcomes : got' = [got EXCEPT ![e] = g],
           stored' = stored \/ \E b \in BOOLEAN : stored' = [stored EXCEPT ![e] = b],
           streamed' = streamed \/ \E b \in BOOLEAN : streamed' = [streamed EXCEPT ![e] = b],
           eng' = eng \/ \E b \in BOOLEAN : eng' = [eng EXCEPT ![e] = b]
    PROVE  LocalType'
<1>1. /\ pc \in [Exchanges -> PCs] /\ task \in [Exchanges -> Tasks]
      /\ todo \in [Exchanges -> Seq(Texts)] /\ whole \in [Exchanges -> Texts]
      /\ got \in [Exchanges -> Outcomes] /\ stored \in [Exchanges -> BOOLEAN]
      /\ streamed \in [Exchanges -> BOOLEAN] /\ eng \in [Exchanges -> BOOLEAN]
  BY DEF LocalType, Tasks, Outcomes
<1>2. pc' \in [Exchanges -> PCs]
  BY <1>1
<1>3. task' \in [Exchanges -> Tasks]
  BY <1>1, Updated
<1>4. todo' \in [Exchanges -> Seq(Texts)]
  BY <1>1, Updated
<1>5. whole' \in [Exchanges -> Texts]
  BY <1>1, Updated
<1>6. got' \in [Exchanges -> Outcomes]
  BY <1>1, Updated
<1>7. stored' \in [Exchanges -> BOOLEAN]
  BY <1>1, Updated
<1>8. streamed' \in [Exchanges -> BOOLEAN]
  BY <1>1, Updated
<1>9. eng' \in [Exchanges -> BOOLEAN]
  BY <1>1, Updated
<1> QED BY <1>2, <1>3, <1>4, <1>5, <1>6, <1>7, <1>8, <1>9 DEF LocalType, Tasks, Outcomes

(* What a handler does to its own exchange leaves the others alone. *)
LEMMA ReturnLocal ==
    ASSUME LocalType, NEW e \in Exchanges, NEW from, Return(e, from)
    PROVE  LocalType'
<1>1. << >> \in Seq(Texts) /\ {} \in Texts /\ Nothing \in [ingested : BOOLEAN, failed : BOOLEAN]
  BY DEF Texts, Nothing
<1> QED BY <1>1 DEF LocalType, Return, Goto, PCs

LEMMA AfterDeltaLocal ==
    ASSUME LocalType, NEW e \in Exchanges, NEW from, NEW opened \in BOOLEAN, AfterDelta(e, from, opened)
    PROVE  LocalType'
<1>1. << >> \in Seq(Texts) /\ Nothing \in [ingested : BOOLEAN, failed : BOOLEAN]
  BY DEF Nothing
<1>2. CASE Return(e, from)
  BY <1>2, ReturnLocal
<1>3. CASE ~Return(e, from)
  <2>1. /\ pc' = [pc EXCEPT ![e] = "residual"] /\ task' = [task EXCEPT ![e] = "end"]
        /\ todo' = [todo EXCEPT ![e] = << >>] /\ got' = [got EXCEPT ![e] = Nothing]
        /\ eng' = [eng EXCEPT ![e] = opened] /\ UNCHANGED <<whole, stored, streamed>>
    BY <1>3 DEF AfterDelta, Goto
  <2> QED BY <1>1, <2>1, LocalUpdate DEF PCs, Tasks, Outcomes
<1> QED BY <1>2, <1>3

LEMMA LocalStep ==
    ASSUME TypeIntact, [Next]_vars
    PROVE  LocalType'
<1>1. LocalType
  BY DEF TypeIntact
<1>2. ASSUME NEW e \in Exchanges, NEW from, NEW to \in PCs, Goto(e, from, to), UNCHANGED localVars
      PROVE  LocalType'
  BY <1>1, <1>2 DEF LocalType, Goto, localVars
<1>3. ASSUME UNCHANGED <<pc, localVars>> PROVE LocalType'
  BY <1>1, <1>3 DEF LocalType, localVars
<1>4. \A t \in Texts : \A kind : ToIngest(t, kind) \in Seq(Texts)
  BY DEF ToIngest
<1>5. \A k \in StreamKeys : bufs[k] # None => bufs[k] \in Buffers
  BY DEF TypeIntact, TableOf
<1>6. NewBuf \in Buffers
  BY DEF NewBuf, Buffers, Texts
<1>7. ASSUME NEW e \in Exchanges, HostCalls(e) PROVE LocalType'
  <2>1. ASSUME NEW k \in StreamKeys, NEW r \in Responses[e], HeaderInit(e, k, r) PROVE LocalType'
    BY <1>3, <2>1 DEF HeaderInit
  <2>2. CASE Chunk(e)
    BY <1>1, <2>2 DEF Chunk, Begin, Goto, LocalType, PCs
  <2>3. CASE Done(e)
    <3>1. \E to \in PCs, t \in {"end", "last"} : Begin(e, to, t)
      BY <2>3 DEF Done, PCs
    <3>2. UNCHANGED <<todo, got, whole, stored, streamed, eng>>
      BY <2>3 DEF Done
    <3> QED BY <1>1, <3>1, <3>2 DEF Begin, Goto, LocalType
  <2>4. CASE Respond(e)
    <3>1. peekStreamIngested(key[e]) \in BOOLEAN
      BY DEF peekStreamIngested
    <3>2. Begin(e, "hasbuf", "answer") /\ streamed' = [streamed EXCEPT ![e] = peekStreamIngested(key[e])]
          /\ UNCHANGED <<todo, got, whole, stored, eng>>
      BY <2>4 DEF Respond
    <3> HIDE DEF peekStreamIngested
    <3> QED BY <1>1, <3>1, <3>2 DEF Begin, Goto, LocalType, PCs
  <2>5. CASE Resend(e)
    <3>1. stage[e] # "new"
      BY <2>5 DEF Resend, Delivered
    <3>2. <<Text(e)>> \in Seq(Texts)
      BY <3>1, TextType
    <3>3. Begin(e, "ingest", "resend") /\ todo' = [todo EXCEPT ![e] = <<Text(e)>>]
          /\ UNCHANGED <<got, whole, stored, streamed, eng>>
      BY <2>5 DEF Resend
    <3> QED BY <1>1, <3>2, <3>3 DEF Begin, Goto, LocalType, PCs
  <2> QED BY <1>7, <2>1, <2>2, <2>3, <2>4, <2>5 DEF HostCalls
<1>8. ASSUME NEW e \in Exchanges, AppendDelta(e) PROVE LocalType'
  <2> DEFINE k == key[e]
             d == <<e, pos[e]>>
             b == IF bufs[k] = None THEN NewBuf ELSE [bufs[k] EXCEPT !.aged = FALSE]
             segment == (IF KindOf(d) = "text" THEN b.asst ELSE b.reason) \cup {d}
  <2>1. pc[e] = "append" /\ k \in StreamKeys /\ stage[e] # "new" /\ pos[e] \in 1..Size(e)
    BY <1>8, BusyHasKey DEF AppendDelta, TypeIntact, Control
  <2>2. d \in Deltas
    BY <2>1, DeltaType
  <2>3. b \in Buffers
    BY <1>5, <1>6, <2>1 DEF Buffers
  <2>4. \/ AfterDelta(e, "append", TRUE)
        \/ /\ Goto(e, "append", "recheck")
           /\ todo' = [todo EXCEPT ![e] = ToIngest(segment, KindOf(d))]
           /\ UNCHANGED <<task, got, whole, stored, streamed, eng>>
    BY <1>8 DEF AppendDelta
  <2> HIDE DEF b, d
  <2>5. segment \in Texts
    BY <2>2, <2>3 DEF Buffers, Texts
  <2> HIDE DEF segment
  <2>6. ToIngest(segment, KindOf(d)) \in Seq(Texts)
    BY <1>4, <2>5
  <2>7. CASE AfterDelta(e, "append", TRUE)
    BY <1>1, <2>7, AfterDeltaLocal
  <2>8. CASE ~AfterDelta(e, "append", TRUE)
    <3>1. /\ pc' = [pc EXCEPT ![e] = "recheck"] /\ UNCHANGED <<task, got, whole, stored, streamed, eng>>
          /\ todo' = [todo EXCEPT ![e] = ToIngest(segment, KindOf(d))]
      BY <2>4, <2>8 DEF Goto
    <3> QED BY <1>1, <2>6, <3>1, LocalUpdate DEF PCs
  <2> QED BY <2>7, <2>8
<1>9. ASSUME NEW e \in Exchanges, OpenForDeltaFails(e) \/ SegmentPoisoned(e) PROVE LocalType'
  BY <1>1, <1>9, AfterDeltaLocal DEF OpenForDeltaFails, SegmentPoisoned
<1>10. ASSUME NEW e \in Exchanges, ClaimWon(e) \/ ClaimLost(e) \/ ProcessText(e) \/ ProcessFails(e)
       PROVE  LocalType'
  <2>1. CASE ClaimWon(e)
    BY <1>2, <2>1 DEF ClaimWon, PCs
  <2>2. ASSUME todo[e] # << >>, Pop(e), pc' = [pc EXCEPT ![e] = "ingest"],
               NEW g \in [ingested : BOOLEAN, failed : BOOLEAN], got' = [got EXCEPT ![e] = g],
               UNCHANGED <<task, whole, stored, streamed, eng>>
        PROVE  LocalType'
    <3>1. todo' \in [Exchanges -> Seq(Texts)]
      BY <1>1, <2>2, HeadType DEF Pop, LocalType
    <3> QED BY <1>1, <2>2, <3>1 DEF LocalType, PCs
  <2>3. CASE ClaimLost(e)
    <3>1. pc' = [pc EXCEPT ![e] = "ingest"] /\ got' = [got EXCEPT ![e] = got[e]]
          /\ got[e] \in [ingested : BOOLEAN, failed : BOOLEAN]
      BY <1>1, <2>3 DEF ClaimLost, LocalType
    <3> QED BY <2>2, <2>3, <3>1 DEF ClaimLost
  <2>4. CASE ProcessText(e) \/ ProcessFails(e)
    <3>1. todo[e] # << >> /\ got[e] \in [ingested : BOOLEAN, failed : BOOLEAN]
      BY <1>1, <2>4 DEF ProcessText, ProcessFails, Goto, TypeIntact, Control, LocalType
    <3>2. /\ [got[e] EXCEPT !.ingested = TRUE] \in [ingested : BOOLEAN, failed : BOOLEAN]
          /\ [got[e] EXCEPT !.failed = TRUE] \in [ingested : BOOLEAN, failed : BOOLEAN]
      BY <3>1
    <3>3. /\ Pop(e) /\ pc' = [pc EXCEPT ![e] = "ingest"]
          /\ \/ got' = [got EXCEPT ![e] = [got[e] EXCEPT !.ingested = TRUE]]
             \/ got' = [got EXCEPT ![e] = [got[e] EXCEPT !.failed = TRUE]]
          /\ UNCHANGED <<task, whole, stored, streamed, eng>>
      BY <2>4 DEF ProcessText, ProcessFails, Goto
    <3> QED BY <2>2, <3>1, <3>2, <3>3
  <2> QED BY <1>10, <2>1, <2>3, <2>4
<1>11. ASSUME NEW e \in Exchanges, Ingested(e) \/ NoteStored(e) \/ NoteMark(e) \/ Tombstone(e) PROVE LocalType'
  BY <1>1, <1>2, <1>11, ReturnLocal, AfterDeltaLocal DEF Ingested, NoteStored, NoteMark, Tombstone, PCs
<1>12. ASSUME NEW e \in Exchanges, FlushBuf(e) PROVE LocalType'
  <2> DEFINE k == key[e]
             b == IF bufs[k] = None THEN NewBuf ELSE bufs[k]
             texts == ToIngest(b.asst, "text") \o ToIngest(b.reason, "reasoning") \o ToIngest(b.tools, "tool")
  <2>1. k \in StreamKeys
    BY <1>12, BusyHasKey DEF FlushBuf
  <2>2. b \in Buffers
    BY <1>5, <1>6, <2>1
  <2>3. b.asst \in Texts /\ b.reason \in Texts /\ b.tools \in Texts /\ b.whole \in Texts /\ b.storedAny \in BOOLEAN
    BY <2>2 DEF Buffers
  <2>4. texts \in Seq(Texts)
    <3>1. /\ ToIngest(b.asst, "text") \in Seq(Texts) /\ ToIngest(b.reason, "reasoning") \in Seq(Texts)
          /\ ToIngest(b.tools, "tool") \in Seq(Texts)
      BY <1>4, <2>3
    <3> HIDE DEF b
    <3> QED BY <3>1
  <2>5. /\ \E to \in {"take", "clear", "ingest"} : pc' = [pc EXCEPT ![e] = to]
        /\ \/ UNCHANGED <<todo, whole, stored>>
           \/ todo' = [todo EXCEPT ![e] = texts] /\ whole' = [whole EXCEPT ![e] = b.whole]
              /\ stored' = [stored EXCEPT ![e] = b.storedAny]
        /\ UNCHANGED <<task, got, streamed, eng>>
    BY <1>12 DEF FlushBuf, Goto
  <2> HIDE DEF b, texts
  <2>6. PICK to \in {"take", "clear", "ingest"} : pc' = [pc EXCEPT ![e] = to]
    BY <2>5
  <2>7. to \in PCs
    BY DEF PCs
  <2>8. /\ todo' = todo \/ \E t \in Seq(Texts) : todo' = [todo EXCEPT ![e] = t]
        /\ whole' = whole \/ \E t \in Texts : whole' = [whole EXCEPT ![e] = t]
        /\ stored' = stored \/ \E x \in BOOLEAN : stored' = [stored EXCEPT ![e] = x]
    BY <2>3, <2>4, <2>5
  <2> QED BY <1>1, <2>5, <2>6, <2>7, <2>8, LocalUpdate
<1>13. ASSUME NEW e \in Exchanges, TakeWhole(e) PROVE LocalType'
  <2> DEFINE b == IF bufs[key[e]] = None THEN NewBuf ELSE bufs[key[e]]
  <2>1. key[e] \in StreamKeys
    BY <1>13, BusyHasKey DEF TakeWhole, Goto
  <2>2. b.whole \in Texts
    BY <1>5, <1>6, <2>1 DEF Buffers
  <2>3. /\ \E to \in {"peek", "clear"} : pc' = [pc EXCEPT ![e] = to]
        /\ whole' = [whole EXCEPT ![e] = b.whole]
        /\ UNCHANGED <<task, todo, got, stored, streamed, eng>>
    BY <1>13 DEF TakeWhole, Goto
  <2> HIDE DEF b
  <2> QED BY <1>1, <2>2, <2>3 DEF LocalType, PCs
<1>14. ASSUME NEW e \in Exchanges, ClearBuf(e) \/ OpenForResponseFails(e) PROVE LocalType'
  BY <1>1, <1>2, <1>14, ReturnLocal DEF ClearBuf, OpenForResponseFails, PCs
<1>15. ASSUME NEW e \in Exchanges, Answer(e) PROVE LocalType'
  <2>1. stage[e] # "new"
    BY <1>15, BusyHasKey DEF Answer
  <2>2. <<Text(e)>> \in Seq(Texts)
    BY <2>1, TextType
  <2>3. \/ Return(e, "answer")
        \/ /\ Goto(e, "answer", "ingest") /\ task' = [task EXCEPT ![e] = "full"]
           /\ todo' = [todo EXCEPT ![e] = <<Text(e)>>] /\ UNCHANGED <<got, whole, stored, streamed, eng>>
    BY <1>15 DEF Answer
  <2>4. CASE Return(e, "answer")
    BY <1>1, <2>4, ReturnLocal
  <2>5. CASE ~Return(e, "answer")
    <3>1. /\ pc' = [pc EXCEPT ![e] = "ingest"] /\ task' = [task EXCEPT ![e] = "full"]
          /\ todo' = [todo EXCEPT ![e] = <<Text(e)>>] /\ UNCHANGED <<got, whole, stored, streamed, eng>>
      BY <2>3, <2>5 DEF Goto
    <3> QED BY <1>1, <2>2, <3>1, LocalUpdate DEF PCs, Tasks
  <2> QED BY <2>4, <2>5
<1>16. ASSUME NEW e \in Exchanges,
              SegmentClean(e) \/ Residual(e) \/ OpenForResidualFails(e) \/ ClaimWhole(e)
              \/ PeekForWhole(e) \/ ClaimTaken(e) \/ NeedEngine(e) \/ OpenForResponse(e)
       PROVE  LocalType'
  BY <1>2, <1>16 DEF SegmentClean, Residual, OpenForResidualFails, ClaimWhole, PeekForWhole, ClaimTaken,
              NeedEngine, OpenForResponse, PCs
<1>17. ASSUME NEW k \in StreamKeys, AgeBuf(k) \/ AgeMark(k) PROVE LocalType'
  BY <1>3, <1>17 DEF AgeBuf, AgeMark
<1>18. CASE UNCHANGED vars
  BY <1>3, <1>18 DEF vars
<1> QED BY <1>7, <1>8, <1>9, <1>10, <1>11, <1>12, <1>13, <1>14, <1>15, <1>16, <1>17, <1>18
        DEF Next, HandlerRuns

(* Where one exchange's handler is agrees with how far its host has got. *)
ControlOf(e) ==
    /\ pc[e] = "idle" => task[e] = "none"
    /\ pc[e] = "process" => todo[e] # << >>
    /\ pc[e] = "append" => pos[e] > 0
    /\ stage[e] = "new" => pc[e] = "idle"
    /\ stage[e] = "open" => task[e] \in {"none", "chunk"} /\ pc[e] \in Streaming

(* A handler that goes on to a step other than append and process. *)
LEMMA GoOn ==
    ASSUME TypeIntact, NEW e \in Exchanges, pc[e] # "idle", UNCHANGED hostVars,
           NEW to \in PCs \ {"idle", "append", "process"}, pc' = [pc EXCEPT ![e] = to],
           stage[e] = "open" => to \in Streaming,
           \A f \in Exchanges \ {e} : todo'[f] = todo[f],
           \/ task' = task
           \/ /\ task' = [task EXCEPT ![e] = "end"] /\ task[e] = "last"
           \/ task' = [task EXCEPT ![e] = "full"] /\ stage[e] # "open"
    PROVE  Control'
<1>1. Control /\ pc \in [Exchanges -> PCs] /\ stage' = stage /\ pos' = pos
  BY DEF TypeIntact, LocalType, hostVars
<1>2. stage[e] # "new"
  BY <1>1 DEF Control
<1>3. task \in [Exchanges -> Tasks]
  BY DEF TypeIntact, LocalType, Tasks
<1>4. ASSUME NEW f \in Exchanges \ {e} PROVE ControlOf(f)'
  BY <1>1, <1>3 DEF Control, ControlOf
<1>5. ControlOf(e)'
  BY <1>1, <1>2, <1>3 DEF Control, ControlOf
<1> QED BY <1>4, <1>5 DEF Control, ControlOf

(* A handler that returns. *)
LEMMA GoHome ==
    ASSUME TypeIntact, NEW e \in Exchanges, NEW from, from # "idle", UNCHANGED hostVars, Return(e, from)
    PROVE  Control'
<1>1. Control /\ pc \in [Exchanges -> PCs] /\ stage' = stage /\ pos' = pos /\ task \in [Exchanges -> Tasks]
      /\ todo \in [Exchanges -> Seq(Texts)]
  BY DEF TypeIntact, LocalType, hostVars, Tasks
<1>2. /\ pc[e] = from /\ pc' = [pc EXCEPT ![e] = "idle"] /\ task' = [task EXCEPT ![e] = "none"]
      /\ todo' = [todo EXCEPT ![e] = << >>]
  BY DEF Return, Goto
<1>3. ASSUME NEW f \in Exchanges \ {e} PROVE ControlOf(f)'
  BY <1>1, <1>2 DEF Control, ControlOf
<1>4. ControlOf(e)'
  BY <1>1, <1>2 DEF Control, ControlOf, Streaming
<1> QED BY <1>3, <1>4 DEF Control, ControlOf

LEMMA AfterDeltaControl ==
    ASSUME TypeIntact, NEW e \in Exchanges, NEW from, from # "idle", NEW opened, UNCHANGED hostVars,
           AfterDelta(e, from, opened)
    PROVE  Control'
<1>1. CASE Return(e, from)
  BY <1>1, GoHome
<1>2. CASE ~Return(e, from)
  <2>1. /\ pc[e] = from /\ pc' = [pc EXCEPT ![e] = "residual"]
        /\ task[e] = "last" /\ task' = [task EXCEPT ![e] = "end"]
        /\ todo' = [todo EXCEPT ![e] = << >>]
    BY <1>2 DEF AfterDelta, Goto
  <2>2. \A f \in Exchanges \ {e} : todo'[f] = todo[f]
    BY <2>1 DEF TypeIntact, LocalType
  <2>3. "residual" \in PCs \ {"idle", "append", "process"} /\ stage[e] # "open"
    BY <2>1 DEF PCs, TypeIntact, Control
  <2> QED BY <2>1, <2>2, <2>3, GoOn
<1> QED BY <1>1, <1>2

(* A call of the host begins a handler. *)
LEMMA HostControl ==
    ASSUME TypeIntact, NEW e \in Exchanges, HostCalls(e)
    PROVE  Control'
<1>1. /\ Control /\ pc \in [Exchanges -> PCs] /\ task \in [Exchanges -> Tasks] /\ todo \in [Exchanges -> Seq(Texts)]
      /\ stage \in [Exchanges -> {"new", "open", "ended", "answered", "resent"}] /\ pos \in [Exchanges -> Nat]
  BY DEF TypeIntact, LocalType, HostType, Tasks
<1>2. pc[e] = "idle" /\ task[e] = "none"
  BY <1>1 DEF HostCalls, HeaderInit, Chunk, Done, Respond, Resend, Begin, Goto, Control
<1>3. /\ \A f \in Exchanges \ {e} : /\ pc'[f] = pc[f] /\ task'[f] = task[f] /\ todo'[f] = todo[f]
                                    /\ stage'[f] = stage[f] /\ pos'[f] = pos[f]
  <2>1. ASSUME NEW k \in StreamKeys, NEW r \in Responses[e], HeaderInit(e, k, r)
        PROVE  \A f \in Exchanges \ {e} : /\ pc'[f] = pc[f] /\ task'[f] = task[f] /\ todo'[f] = todo[f]
                                          /\ stage'[f] = stage[f] /\ pos'[f] = pos[f]
    BY <1>1, <2>1 DEF HeaderInit, localVars
  <2>2. CASE Chunk(e)
    BY <1>1, <2>2 DEF Chunk, Begin, Goto
  <2>3. CASE Done(e)
    <3>1. /\ \E to \in PCs, t \in {"end", "last"} : pc' = [pc EXCEPT ![e] = to] /\ task' = [task EXCEPT ![e] = t]
          /\ stage' = [stage EXCEPT ![e] = "ended"] /\ pos' = [pos EXCEPT ![e] = Size(e)] /\ todo' = todo
      BY <2>3 DEF Done, Begin, Goto, PCs
    <3> QED BY <1>1, <3>1
  <2>4. CASE Respond(e) \/ Resend(e)
    BY <1>1, <2>4 DEF Respond, Resend, Begin, Goto
  <2> QED BY <2>1, <2>2, <2>3, <2>4 DEF HostCalls
<1>4. ASSUME NEW f \in Exchanges \ {e} PROVE ControlOf(f)'
  BY <1>1, <1>3 DEF Control, ControlOf
<1>5. ControlOf(e)'
  <2>1. ASSUME NEW k \in StreamKeys, NEW r \in Responses[e], HeaderInit(e, k, r) PROVE ControlOf(e)'
    BY <1>1, <1>2, <2>1 DEF HeaderInit, localVars, ControlOf, Streaming
  <2>2. CASE Chunk(e)
    <3>1. stage' = stage /\ stage[e] = "open" /\ pos'[e] = pos[e] + 1
      BY <1>1, <2>2 DEF Chunk
    <3>2. \/ pc' = pc /\ task' = task
          \/ pc' = [pc EXCEPT ![e] = "append"] /\ task' = [task EXCEPT ![e] = "chunk"]
      BY <2>2 DEF Chunk, Begin, Goto
    <3> QED BY <1>1, <1>2, <3>1, <3>2 DEF ControlOf, Streaming
  <2>3. CASE Done(e)
    <3>1. /\ stage'[e] = "ended" /\ pos'[e] = Size(e) /\ pos[e] \in Nat
          /\ pc' = [pc EXCEPT ![e] = "append"] => pos[e] < Size(e)
      <4>1. stage'[e] = "ended" /\ pos'[e] = Size(e) /\ pos[e] \in Nat
        BY <1>1, <2>3 DEF Done
      <4>2. ASSUME pc' = [pc EXCEPT ![e] = "append"] PROVE pos[e] < Size(e)
        <5>1. pc'[e] = "append"
          BY <1>1, <4>2
        <5> QED BY <1>1, <2>3, <5>1 DEF Done, Begin, Goto
      <4> QED BY <4>1, <4>2
    <3>2. \E to \in {"tomb", "clear", "append", "residual"}, t \in {"end", "last"} :
             pc' = [pc EXCEPT ![e] = to] /\ task' = [task EXCEPT ![e] = t]
      BY <2>3 DEF Done, Begin, Goto
    <3>3. Size(e) \in Int
      <4>1. stage[e] # "new"
        BY <2>3 DEF Done
      <4>2. resp[e].deltas \in Seq([kind : {"text", "reasoning", "tool"}, cut : BOOLEAN])
        BY <4>1, ResponsesAssumption DEF TypeIntact, HostType
      <4> QED BY <4>2 DEF Size
    <3>4. PICK to \in {"tomb", "clear", "append", "residual"}, t \in {"end", "last"} :
             pc' = [pc EXCEPT ![e] = to] /\ task' = [task EXCEPT ![e] = t]
      BY <3>2
    <3>5. pc'[e] = to
      BY <1>1, <3>4
    <3>6. pc'[e] = "append" => pos'[e] > 0
      BY <3>1, <3>3, <3>4, <3>5
    <3> QED BY <3>1, <3>4, <3>5, <3>6 DEF ControlOf
  <2>4. CASE Respond(e) \/ Resend(e)
    <3>1. /\ stage'[e] \in {"answered", "resent"}
          /\ pc'[e] \in {"hasbuf", "ingest"}
      BY <1>1, <2>4 DEF Respond, Resend, Begin, Goto
    <3> QED BY <3>1 DEF ControlOf
  <2> QED BY <2>1, <2>2, <2>3, <2>4 DEF HostCalls
<1> QED BY <1>4, <1>5 DEF Control, ControlOf

LEMMA ControlStep ==
    ASSUME TypeIntact, [Next]_vars
    PROVE  Control'
<1>1. Control /\ todo \in [Exchanges -> Seq(Texts)] /\ pc \in [Exchanges -> PCs]
  BY DEF TypeIntact, LocalType
<1>2. ASSUME NEW e \in Exchanges, HandlerRuns(e) PROVE Control'
  <2>1. UNCHANGED hostVars
    BY <1>2 DEF HandlerRuns, AppendDelta, OpenForDeltaFails, SegmentPoisoned, SegmentClean, ClaimWon,
                ClaimLost, ProcessText, ProcessFails, Ingested, NoteStored, NoteMark, Tombstone, Residual,
                OpenForResidualFails, FlushBuf, ClaimWhole, TakeWhole, PeekForWhole, ClaimTaken, ClearBuf,
                NeedEngine, OpenForResponse, OpenForResponseFails, Answer
  <2> DEFINE Others == \A f \in Exchanges \ {e} : todo'[f] = todo[f]
             Onward == PCs \ {"idle", "append", "process"}
  <2>2. stage[e] = "open" => task[e] \in {"none", "chunk"} /\ pc[e] \in Streaming
    BY <1>1 DEF Control
  <2>3. CASE AppendDelta(e)
    <3>1. CASE AfterDelta(e, "append", TRUE)
      BY <2>1, <3>1, AfterDeltaControl
    <3>2. CASE ~AfterDelta(e, "append", TRUE)
      <4>1. /\ pc[e] = "append" /\ pc' = [pc EXCEPT ![e] = "recheck"] /\ task' = task
            /\ \E t : todo' = [todo EXCEPT ![e] = t]
        BY <2>3, <3>2 DEF AppendDelta, Goto
      <4>2. Others /\ "recheck" \in Onward \cap Streaming
        BY <1>1, <4>1 DEF PCs, Streaming
      <4> QED BY <2>1, <4>1, <4>2, GoOn
    <3> QED BY <3>1, <3>2
  <2>4. CASE OpenForDeltaFails(e) \/ SegmentPoisoned(e)
    BY <2>1, <2>4, AfterDeltaControl DEF OpenForDeltaFails, SegmentPoisoned
  <2>5. ASSUME NEW to \in Onward, stage[e] = "open" => to \in Streaming, pc[e] # "idle", pc' = [pc EXCEPT ![e] = to], task' = task, todo' = todo
        PROVE  Control'
    BY <2>1, <2>5, GoOn
  <2>6. CASE \/ SegmentClean(e) \/ NoteStored(e) \/ Residual(e) \/ OpenForResidualFails(e) \/ ClaimWhole(e)
             \/ TakeWhole(e) \/ PeekForWhole(e) \/ ClaimTaken(e) \/ NeedEngine(e) \/ OpenForResponse(e)
    <3>1. /\ pc[e] # "idle" /\ task' = task /\ todo' = todo
          /\ \E to \in Onward : pc' = [pc EXCEPT ![e] = to] /\ (stage[e] = "open" => to \in Streaming)
      BY <2>2, <2>6 DEF Streaming, SegmentClean, NoteStored, Residual, OpenForResidualFails, ClaimWhole, TakeWhole,
                  PeekForWhole, ClaimTaken, NeedEngine, OpenForResponse, Goto, localVars, PCs
    <3> QED BY <2>5, <3>1
  <2>7. CASE ClaimWon(e)
    <3>1. /\ pc[e] = "ingest" /\ pc' = [pc EXCEPT ![e] = "process"] /\ todo[e] # << >>
          /\ task' = task /\ todo' = todo /\ stage' = stage /\ pos' = pos
      BY <2>1, <2>7 DEF ClaimWon, Goto, localVars, hostVars
    <3> QED BY <1>1, <3>1 DEF Control, Streaming
  <2>8. CASE ClaimLost(e) \/ ProcessText(e) \/ ProcessFails(e)
    <3>1. pc[e] # "idle" /\ pc' = [pc EXCEPT ![e] = "ingest"] /\ task' = task
          /\ todo' = [todo EXCEPT ![e] = Tail(todo[e])]
      BY <1>1, <2>8 DEF ClaimLost, ProcessText, ProcessFails, Pop, Goto
    <3>2. Others /\ "ingest" \in Onward \cap Streaming
      BY <1>1, <3>1 DEF PCs, Streaming
    <3> QED BY <2>1, <3>1, <3>2, GoOn
  <2>9. CASE Ingested(e)
    <3>1. CASE Return(e, "ingest")
      BY <2>1, <3>1, GoHome
    <3>2. CASE ~Return(e, "ingest")
      <4>1. /\ pc[e] = "ingest" /\ task' = task /\ todo' = todo
            /\ \E to \in {"note", "claimwhole"} : /\ pc' = [pc EXCEPT ![e] = to]
                                                  /\ stage[e] = "open" => to = "note"
        BY <2>2, <2>9, <3>2 DEF Ingested, Goto, localVars
      <4> QED BY <2>5, <4>1 DEF PCs, Streaming
    <3> QED BY <3>1, <3>2
  <2>10. CASE NoteMark(e)
    <3>1. CASE AfterDelta(e, "mark", TRUE)
      BY <2>1, <3>1, AfterDeltaControl
    <3>2. CASE ~AfterDelta(e, "mark", TRUE)
      <4>1. /\ pc[e] = "mark" /\ pc' = [pc EXCEPT ![e] = "take"] /\ task' = task /\ todo' = todo
            /\ stage[e] # "open"
        BY <2>2, <2>10, <3>2 DEF NoteMark, Goto, localVars
      <4> QED BY <2>5, <4>1 DEF PCs
    <3> QED BY <3>1, <3>2
  <2>11. CASE Tombstone(e) \/ OpenForResponseFails(e)
    BY <2>1, <2>11, GoHome DEF Tombstone, OpenForResponseFails
  <2>12. CASE FlushBuf(e)
    <3>1. /\ pc[e] = "flush" /\ task' = task
          /\ \E to \in {"take", "clear", "ingest"} : pc' = [pc EXCEPT ![e] = to]
          /\ todo' = todo \/ \E t : todo' = [todo EXCEPT ![e] = t]
      BY <2>12 DEF FlushBuf, Goto
    <3>2. Others
      BY <1>1, <3>1
    <3>3. \E to \in Onward : pc' = [pc EXCEPT ![e] = to]
      BY <3>1 DEF PCs
    <3>4. stage[e] # "open"
      BY <2>2, <3>1 DEF Streaming
    <3> QED BY <2>1, <3>1, <3>2, <3>3, <3>4, GoOn
  <2>13. CASE ClearBuf(e)
    <3>1. CASE Return(e, "clear")
      BY <2>1, <3>1, GoHome
    <3>2. CASE ~Return(e, "clear")
      <4>1. /\ pc[e] = "clear" /\ pc' = [pc EXCEPT ![e] = "answer"] /\ task' = task /\ todo' = todo
            /\ stage[e] # "open"
        BY <2>2, <2>13, <3>2 DEF ClearBuf, Goto, localVars, Streaming
      <4> QED BY <2>5, <4>1 DEF PCs
    <3> QED BY <3>1, <3>2
  <2>14. CASE Answer(e)
    <3>1. CASE Return(e, "answer")
      BY <2>1, <3>1, GoHome
    <3>2. CASE ~Return(e, "answer")
      <4>1. /\ pc[e] = "answer" /\ pc' = [pc EXCEPT ![e] = "ingest"] /\ task' = [task EXCEPT ![e] = "full"]
            /\ todo' = [todo EXCEPT ![e] = <<Text(e)>>]
        BY <2>14, <3>2 DEF Answer, Goto
      <4>2. Others /\ "ingest" \in Onward
        BY <1>1, <4>1 DEF PCs
      <4>3. stage[e] # "open"
        BY <2>2, <4>1 DEF Streaming
      <4> QED BY <2>1, <4>1, <4>2, <4>3, GoOn
    <3> QED BY <3>1, <3>2
  <2> QED BY <1>2, <2>3, <2>4, <2>6, <2>7, <2>8, <2>9, <2>10, <2>11, <2>12, <2>13, <2>14 DEF HandlerRuns
<1>3. ASSUME NEW k \in StreamKeys, AgeBuf(k) \/ AgeMark(k) PROVE Control'
  BY <1>1, <1>3 DEF AgeBuf, AgeMark, hostVars, localVars, Control
<1>4. CASE UNCHANGED vars
  BY <1>1, <1>4 DEF vars, hostVars, localVars, Control
<1> QED BY <1>2, <1>3, <1>4, HostControl DEF Next

-----------------------------------------------------------------------------
LEMMA InitType == Init => TypeIntact
<1> SUFFICES ASSUME Init PROVE TypeIntact
  OBVIOUS
<1>1. << >> \in Seq(StreamKeys) /\ << >> \in Seq(Texts) /\ {} \in Texts
  BY DEF Texts
<1>2. TableOf(bufs, bufOrder, Buffers) /\ TableOf(marks, markOrder, Marks)
  BY <1>1, EmptyIs, MaxBufsAssumption DEF Init, TableOf
<1>3. SeenType /\ rows \subseteq Texts
  BY <1>1, EmptyIs, MaxSeenAssumption DEF Init, SeenType, NoneSeen
<1>4. HostType
  BY DEF Init, HostType
<1>5. LocalType
  BY <1>1 DEF Init, LocalType, PCs, Nothing
<1>6. Control
  BY DEF Init, Control, Streaming
<1> QED BY <1>2, <1>3, <1>4, <1>5, <1>6 DEF TypeIntact

LEMMA TypeStep == TypeIntact /\ [Next]_vars => TypeIntact'
BY BufStep, MarkStep, StoreStep, HostStep, LocalStep, ControlStep DEF TypeIntact

LEMMA TypeIsInvariant == Spec => []TypeIntact
BY InitType, TypeStep, PTL DEF Spec

(* The buffers, the marks and the dedupe set stay within their bounds and   *)
(* in step with their orders, and every handler's state keeps its type.     *)
THEOREM TypeCorrect == Spec => []TypeOK
<1>1. TypeIntact => TypeOK
  BY DEF TypeIntact, TableOf, SeenType, HostType, LocalType, Control, TypeOK
<1> QED BY <1>1, TypeIsInvariant, PTL

-----------------------------------------------------------------------------
(* Texts of one exchange. *)
Held(b)         == b.asst \cup b.reason \cup b.tools \cup b.whole
OneExchange(t)  == \A c, d \in t : c[1] = d[1]
OnlyOf(t, e)    == \A d \in t : d[1] = e

KeysInUse == {key[e] : e \in Exchanges} \ {None}

(* More of the exchange's deltas may still be appended to its buffer. *)
Active(e) == stage[e] = "open" \/ pc[e] = "append"

(* No more keys have been used than buffers are kept, so none was evicted. *)
Roomy == Cardinality(KeysInUse) <= MaxBufs

(* Nor has a stream key been used by three exchanges: with a third the      *)
(* poison can decay, or be cleared, under two that are still running.       *)
Uncrowded ==
    /\ \A d, e, f \in Exchanges : key[d] # None /\ key[d] = key[e] /\ key[e] = key[f] => d = e \/ e = f \/ d = f
    /\ Roomy

(* A buffer belongs to exchanges that have begun, and is poisoned only when *)
(* there are two of them, and then whenever both are active.                *)
Poisoned ==
    /\ \A k \in StreamKeys : bufs[k] # None => \E e \in Exchanges : key[e] = k
    /\ \A k \in StreamKeys :
          streamConflicted(k) => \E e, f \in Exchanges : e # f /\ key[e] = k /\ key[f] = k
    /\ \A e, f \in Exchanges :
          e # f /\ key[e] = key[f] /\ Active(e) /\ Active(f) => streamConflicted(key[e])
    /\ \A e \in Exchanges : Active(e) /\ Alone(e) => bufs[key[e]] # None

(* What is buffered is of one exchange, and of the one that may append to   *)
(* it next, of which there is only one.                                     *)
Unmixed ==
    /\ \A k \in StreamKeys : bufs[k] # None => OneExchange(Held(bufs[k]))
    /\ \A e \in Exchanges :
          Active(e) /\ bufs[key[e]] # None /\ (pc[e] = "append" \/ ~streamConflicted(key[e]))
              => OnlyOf(Held(bufs[key[e]]), e)
    /\ \A e, f \in Exchanges : pc[e] = "append" /\ pc[f] = "append" /\ key[e] = key[f] => e = f

OwnTexts    == {t \in Texts : OneExchange(t)}
TodoUnmixed == todo \in [Exchanges -> Seq(OwnTexts)]

UncrowdedInv == Uncrowded => Poisoned /\ Unmixed /\ TodoUnmixed /\ RowsUnmixed

(* While no more keys have been used than a table keeps, stamping one       *)
(* evicts none.                                                             *)
LEMMA PutEvictsNone ==
    ASSUME NEW table, NEW order, NEW Entries, TableOf(table, order, Entries),
           NEW K, IsFiniteSet(K), Cardinality(K) <= MaxBufs,
           \A j \in StreamKeys : table[j] # None => j \in K,
           NEW k \in StreamKeys, k \in K, NEW b
    PROVE  Put(table, order, k, b) = [table EXCEPT ![k] = b]
<1> DEFINE w   == Without(order, k)
           all == Append(w, k)
<1>1. /\ table \in [StreamKeys -> Entries \cup {None}] /\ order \in Seq(StreamKeys) /\ Distinct(order)
      /\ \A j \in StreamKeys : table[j] = None <=> j \notin InOrder(order)
  BY DEF TableOf
<1>2. w \in Seq(StreamKeys) /\ Distinct(w) /\ InOrder(w) = InOrder(order) \ {k}
  BY <1>1, WithoutIs
<1> HIDE DEF w
<1>3. all \in Seq(StreamKeys) /\ Distinct(all) /\ InOrder(all) = InOrder(order) \cup {k}
  BY <1>2, AppendIs
<1>4. InOrder(all) \subseteq K
  <2>1. InOrder(order) \subseteq StreamKeys
    BY <1>1, ElementOfSeq DEF InOrder
  <2> QED BY <1>1, <1>3, <2>1
<1>5. Len(all) = Cardinality(InOrder(all)) /\ Len(all) \in Nat
  <2> HIDE DEF all
  <2>1. Len(all) \in Nat
    BY <1>3
  <2> QED BY <1>3, <2>1, LengthIs
<1>6. Cardinality(InOrder(all)) <= Cardinality(K) /\ Cardinality(K) \in Nat
  BY <1>4, FS_Subset, FS_CardinalityType
<1>7. Len(all) <= MaxBufs
  BY <1>5, <1>6, MaxBufsAssumption
<1>8. InOrder(Stamped(order, k)) = InOrder(order) \cup {k}
  BY <1>1, <1>7, StampedIs DEF all, w
<1>9. \A j \in StreamKeys : Put(table, order, k, b)[j] = IF j = k THEN b ELSE table[j]
  BY <1>1, <1>8 DEF Put
<1> QED BY <1>1, <1>9 DEF Put

LEMMA PutInPlace ==
    ASSUME TypeIntact, NEW K, IsFiniteSet(K), Cardinality(K) <= MaxBufs,
           \A j \in StreamKeys : bufs[j] # None => j \in K,
           NEW k \in StreamKeys, k \in K, NEW b, PutBuf(k, b)
    PROVE  bufs' = [bufs EXCEPT ![k] = b]
<1>1. TableOf(bufs, bufOrder, Buffers) /\ bufs' = Put(bufs, bufOrder, k, b)
  BY DEF TypeIntact, PutBuf
<1> QED BY <1>1, PutEvictsNone

LEMMA FiniteImage ==
    ASSUME NEW S, IsFiniteSet(S), NEW f
    PROVE  IsFiniteSet({f[x] : x \in S})
<1> DEFINE T == {f[x] : x \in S}
           g == [x \in S |-> f[x]]
<1>1. g \in [S -> T] /\ \A t \in T : \E x \in S : g[x] = t
  OBVIOUS
<1> HIDE DEF g, T
<1>2. g \in Surjection(S, T)
  BY <1>1, Fun_IsSurj
<1>3. IsFiniteSet(T)
  BY <1>2, FS_Surjection
<1> QED BY <1>3 DEF T

(* The keys that have been used go on having been used. *)
LEMMA KeysStay ==
    ASSUME TypeIntact, [Next]_vars
    PROVE  /\ \A e \in Exchanges : key[e] # None => key'[e] = key[e]
           /\ IsFiniteSet(KeysInUse) /\ IsFiniteSet(KeysInUse)'
           /\ KeysInUse \subseteq KeysInUse'
<1>1. \A e \in Exchanges : key[e] # None => key'[e] = key[e]
  <2>1. CASE UNCHANGED hostVars
    BY <2>1 DEF hostVars
  <2>2. ASSUME NEW e \in Exchanges, HostCalls(e) PROVE \A f \in Exchanges : key[f] # None => key'[f] = key[f]
    <3>1. key' = key \/ (key[e] = None /\ \E k : key' = [key EXCEPT ![e] = k])
      BY <2>2 DEF HostCalls, HeaderInit, Chunk, Done, Respond, Resend, TypeIntact, HostType
    <3> QED BY <3>1 DEF TypeIntact, HostType
  <2> QED BY <2>1, <2>2, HostWritten DEF HostWriters
<1>2. KeysInUse \subseteq KeysInUse'
  <2> SUFFICES ASSUME NEW e \in Exchanges, key[e] # None PROVE key[e] \in KeysInUse'
    BY DEF KeysInUse
  <2> QED BY <1>1 DEF KeysInUse
<1>3. IsFiniteSet({key[e] : e \in Exchanges}) /\ IsFiniteSet({key'[e] : e \in Exchanges})
  BY ExchangesAssumption, FiniteImage
<1>4. IsFiniteSet(KeysInUse) /\ IsFiniteSet(KeysInUse)'
  <2>1. IsFiniteSet(KeysInUse)
    BY <1>3, FS_Subset DEF KeysInUse
  <2>2. IsFiniteSet(KeysInUse')
    <3>1. KeysInUse' \subseteq {key'[e] : e \in Exchanges}
      BY DEF KeysInUse
    <3> QED BY <1>3, <3>1, FS_Subset
  <2> QED BY <2>1, <2>2
<1> QED BY <1>1, <1>2, <1>4

(* A crowd does not disperse. *)
LEMMA RoomyBefore ==
    ASSUME TypeIntact, [Next]_vars, Roomy'
    PROVE  Roomy
<1>1. /\ Cardinality(KeysInUse) \in Nat /\ Cardinality(KeysInUse') \in Nat
      /\ Cardinality(KeysInUse) <= Cardinality(KeysInUse')
  <2>1. KeysInUse \subseteq KeysInUse' /\ IsFiniteSet(KeysInUse')
    BY KeysStay
  <2> QED BY <2>1, KeysStay, FS_Subset, FS_CardinalityType
<1>2. Cardinality(KeysInUse') <= MaxBufs
  BY DEF Roomy
<1> QED BY <1>1, <1>2, MaxBufsAssumption DEF Roomy

LEMMA UncrowdedBefore ==
    ASSUME TypeIntact, [Next]_vars, Uncrowded'
    PROVE  Uncrowded
<1>1. \A e \in Exchanges : key[e] # None => key'[e] = key[e]
  BY KeysStay
<1>2. ASSUME NEW d \in Exchanges, NEW e \in Exchanges, NEW f \in Exchanges,
             key[d] # None, key[d] = key[e], key[e] = key[f]
      PROVE  d = e \/ e = f \/ d = f
  BY <1>1, <1>2 DEF Uncrowded
<1>3. Roomy
  BY RoomyBefore DEF Uncrowded
<1> QED BY <1>2, <1>3 DEF Uncrowded

-----------------------------------------------------------------------------
(* A step that starts no exchange, lets none append that did not, and takes *)
(* no buffer away nor adds to one.                                          *)
Quiet ==
    /\ key' = key
    /\ \A e \in Exchanges : /\ pc'[e] = "append" => pc[e] = "append"
                            /\ stage'[e] = "open" => stage[e] = "open"
    /\ \A k \in StreamKeys : bufs'[k] = None <=> bufs[k] = None
    /\ \A k \in StreamKeys : bufs[k] # None => /\ bufs'[k].conflicted = bufs[k].conflicted
                                               /\ Held(bufs'[k]) \subseteq Held(bufs[k])

LEMMA ActiveHasKey ==
    ASSUME TypeIntact, NEW e \in Exchanges, Active(e)
    PROVE  key[e] \in StreamKeys
BY DEF TypeIntact, HostType, Control, Active

LEMMA QuietKeeps ==
    ASSUME TypeIntact, Poisoned, Unmixed, Quiet
    PROVE  Poisoned' /\ Unmixed'
<1>1. \A e \in Exchanges : Active(e)' => Active(e) /\ key[e] \in StreamKeys
  <2>1. \A e \in Exchanges : Active(e)' => Active(e)
    BY DEF Quiet, Active
  <2> QED BY <2>1, ActiveHasKey
<1>2. \A k \in StreamKeys : bufs'[k] # None /\ bufs'[k].conflicted <=> streamConflicted(k)
  BY DEF Quiet, streamConflicted
<1>3. key' = key
  BY DEF Quiet
<1>4. Poisoned'
  <2>1. \A k \in StreamKeys : bufs'[k] # None => \E e \in Exchanges : key'[e] = k
    BY <1>3 DEF Poisoned, Quiet
  <2>2. ASSUME NEW k \in StreamKeys, bufs'[k] # None /\ bufs'[k].conflicted
        PROVE  \E e, f \in Exchanges : e # f /\ key'[e] = k /\ key'[f] = k
    <3>1. streamConflicted(k)
      BY <1>2, <2>2
    <3> QED BY <1>3, <3>1 DEF Poisoned
  <2>3. ASSUME NEW e \in Exchanges, NEW f \in Exchanges, e # f, key'[e] = key'[f], Active(e)', Active(f)'
        PROVE  bufs'[key'[e]] # None /\ bufs'[key'[e]].conflicted
    BY <1>1, <1>2, <1>3, <2>3 DEF Poisoned
  <2>4. ASSUME NEW e \in Exchanges, Active(e)', Alone(e)'
        PROVE  bufs'[key'[e]] # None
    <3>1. Active(e) /\ key[e] \in StreamKeys /\ Alone(e)
      BY <1>1, <1>3, <2>4 DEF Alone
    <3> QED BY <1>3, <3>1 DEF Poisoned, Quiet
  <2> QED BY <2>1, <2>2, <2>3, <2>4 DEF Poisoned, streamConflicted
<1>5. Unmixed'
  <2>1. \A k \in StreamKeys : bufs'[k] # None => OneExchange(Held(bufs'[k]))
    BY DEF Unmixed, Quiet, OneExchange
  <2>2. ASSUME NEW e \in Exchanges, Active(e)', bufs'[key'[e]] # None,
               pc'[e] = "append" \/ ~(bufs'[key'[e]] # None /\ bufs'[key'[e]].conflicted)
        PROVE  OnlyOf(Held(bufs'[key'[e]]), e)
    <3>1. Active(e) /\ key[e] \in StreamKeys /\ bufs[key[e]] # None
      BY <1>1, <1>3, <2>2 DEF Quiet
    <3>2. pc[e] = "append" \/ ~streamConflicted(key[e])
      BY <1>2, <1>3, <2>2, <3>1 DEF Quiet
    <3>3. OnlyOf(Held(bufs[key[e]]), e)
      BY <3>1, <3>2 DEF Unmixed
    <3> QED BY <1>3, <3>1, <3>3 DEF Quiet, OnlyOf
  <2>3. \A e, f \in Exchanges : pc'[e] = "append" /\ pc'[f] = "append" /\ key'[e] = key'[f] => e = f
    BY DEF Unmixed, Quiet
  <2> QED BY <2>1, <2>2, <2>3 DEF Unmixed, streamConflicted
<1> QED BY <1>4, <1>5

-----------------------------------------------------------------------------
(* The host has delivered every delta of an exchange that is past its       *)
(* stream.                                                                  *)
Finished == \A e \in Exchanges : stage[e] \notin {"new", "open"} => pos[e] = Size(e)

LEMMA FinishedStep ==
    ASSUME TypeIntact, Finished, [Next]_vars
    PROVE  Finished'
<1>1. HostType
  BY DEF TypeIntact
<1>2. ASSUME NEW e \in Exchanges, NEW k \in StreamKeys, NEW r \in Responses[e], HeaderInit(e, k, r)
      PROVE  Finished'
  BY <1>1, <1>2 DEF HeaderInit, Finished, HostType, Size
<1>3. ASSUME NEW e \in Exchanges, Chunk(e) PROVE Finished'
  BY <1>1, <1>3 DEF Chunk, Finished, HostType, Size
<1>4. ASSUME NEW e \in Exchanges, Done(e) PROVE Finished'
  BY <1>1, <1>4 DEF Done, Finished, HostType, Size
<1>5. ASSUME NEW e \in Exchanges, Respond(e) \/ Resend(e) PROVE Finished'
  BY <1>1, <1>5 DEF Respond, Resend, Delivered, Finished, HostType, Size
<1>6. CASE UNCHANGED hostVars
  BY <1>6 DEF hostVars, Finished, Size
<1> QED BY <1>2, <1>3, <1>4, <1>5, <1>6, HostWritten DEF HostWriters, HostCalls

(* The handler turns to a delta that it is to append. *)
ToAppend(e) ==
    /\ pc[e] = "idle" /\ pc' = [pc EXCEPT ![e] = "append"]
    /\ Active(e) /\ ~streamConflicted(key[e])
    /\ bufs' = bufs /\ key' = key
    /\ \A f \in Exchanges : f # e => stage'[f] = stage[f]

Disturbs ==
    \E e \in Exchanges : \/ \E k \in StreamKeys, r \in Responses[e] : HeaderInit(e, k, r)
                         \/ ToAppend(e) \/ AppendDelta(e) \/ ClearBuf(e)

(* Every other step is quiet. *)
LEMMA OtherStepsQuiet ==
    ASSUME TypeIntact, Finished, [Next]_vars, ~Disturbs
    PROVE  Quiet
<1> DEFINE BufsQuiet ==
             /\ \A k \in StreamKeys : bufs'[k] = None <=> bufs[k] = None
             /\ \A k \in StreamKeys : bufs[k] # None => /\ bufs'[k].conflicted = bufs[k].conflicted
                                                        /\ Held(bufs'[k]) \subseteq Held(bufs[k])
           Calm == \A e \in Exchanges : /\ pc'[e] = "append" => pc[e] = "append"
                                        /\ stage'[e] = "open" => stage[e] = "open"
<1>1. /\ pc \in [Exchanges -> PCs]
      /\ stage \in [Exchanges -> {"new", "open", "ended", "answered", "resent"}]
      /\ bufs \in [StreamKeys -> Buffers \cup {None}] /\ None \notin Buffers
  BY NoneAssumption DEF TypeIntact, HostType, LocalType, TableOf
<1>2. BufsQuiet
  <2>1. ASSUME NEW k \in StreamKeys, bufs[k] # None, NEW b \in Buffers, bufs' = [bufs EXCEPT ![k] = b],
               b.conflicted = bufs[k].conflicted, Held(b) \subseteq Held(bufs[k])
        PROVE  BufsQuiet
    BY <1>1, <2>1
  <2>2. \A k \in StreamKeys : bufs[k] # None => bufs[k] \in Buffers
    BY <1>1
  <2>3. ASSUME NEW e \in Exchanges, NoteStored(e) PROVE BufsQuiet
    <3>1. key[e] \in StreamKeys
      BY <2>3, BusyHasKey DEF NoteStored, Goto
    <3>2. CASE bufs' = bufs
      BY <3>2
    <3>3. CASE bufs' # bufs
      <4> DEFINE b == [bufs[key[e]] EXCEPT !.storedAny = TRUE]
      <4>1. bufs[key[e]] # None /\ bufs' = [bufs EXCEPT ![key[e]] = b]
        BY <2>3, <3>3 DEF NoteStored
      <4>2. b \in Buffers /\ b.conflicted = bufs[key[e]].conflicted /\ Held(b) = Held(bufs[key[e]])
        BY <2>2, <3>1, <4>1 DEF Buffers, Held
      <4> HIDE DEF b, BufsQuiet
      <4> QED BY <2>1, <3>1, <4>1, <4>2
    <3> QED BY <3>2, <3>3
  <2>4. ASSUME NEW e \in Exchanges, FlushBuf(e) PROVE BufsQuiet
    <3>1. key[e] \in StreamKeys
      BY <2>4, BusyHasKey DEF FlushBuf
    <3>2. CASE bufs[key[e]] = None
      BY <2>4, <3>2 DEF FlushBuf
    <3>3. CASE bufs[key[e]] # None
      <4> DEFINE b == [bufs[key[e]] EXCEPT !.asst = {}, !.reason = {}, !.tools = {}, !.whole = {}]
      <4>1. bufs' = [bufs EXCEPT ![key[e]] = b]
        BY <2>4, <3>3 DEF FlushBuf
      <4>2. bufs[key[e]] \in Buffers /\ {} \in Texts
        BY <2>2, <3>1, <3>3 DEF Texts
      <4>3. b \in Buffers /\ b.conflicted = bufs[key[e]].conflicted /\ Held(b) = {}
        BY <4>2 DEF Buffers, Held
      <4> HIDE DEF b, BufsQuiet
      <4> QED BY <2>1, <3>1, <3>3, <4>1, <4>3
    <3> QED BY <3>2, <3>3
  <2>5. ASSUME NEW e \in Exchanges, TakeWhole(e) PROVE BufsQuiet
    <3>1. key[e] \in StreamKeys
      BY <2>5, BusyHasKey DEF TakeWhole, Goto
    <3>2. CASE bufs[key[e]] = None
      BY <2>5, <3>2 DEF TakeWhole
    <3>3. CASE bufs[key[e]] # None
      <4> DEFINE b == [bufs[key[e]] EXCEPT !.whole = {}]
      <4>1. bufs' = [bufs EXCEPT ![key[e]] = b]
        BY <2>5, <3>3 DEF TakeWhole
      <4>2. b \in Buffers /\ b.conflicted = bufs[key[e]].conflicted /\ Held(b) \subseteq Held(bufs[key[e]])
        BY <2>2, <3>1, <3>3 DEF Buffers, Held, Texts
      <4> HIDE DEF b, BufsQuiet
      <4> QED BY <2>1, <3>1, <3>3, <4>1, <4>2
    <3> QED BY <3>2, <3>3
  <2>6. ASSUME NEW k \in StreamKeys, AgeBuf(k) PROVE BufsQuiet
    <3> DEFINE b == [bufs[k] EXCEPT !.aged = TRUE]
    <3>1. bufs[k] # None /\ bufs' = [bufs EXCEPT ![k] = b]
      BY <2>6 DEF AgeBuf, streamConflicted
    <3>2. b \in Buffers /\ b.conflicted = bufs[k].conflicted /\ Held(b) = Held(bufs[k])
      BY <2>2, <3>1 DEF Buffers, Held
    <3> HIDE DEF b, BufsQuiet
    <3> QED BY <2>1, <3>1, <3>2
  <2>7. CASE UNCHANGED streamVars
    BY <2>7 DEF streamVars
  <2> HIDE DEF BufsQuiet
  <2> QED BY <2>3, <2>4, <2>5, <2>6, <2>7, BufsWritten DEF BufWriters, Disturbs
<1> HIDE DEF BufsQuiet
<1>3. key' = key /\ Calm
  <2>1. ASSUME NEW e \in Exchanges, NEW to, to # "append", pc' = [pc EXCEPT ![e] = to] \/ pc' = pc,
               NEW s, s # "open", stage' = [stage EXCEPT ![e] = s] \/ stage' = stage
        PROVE  Calm
    BY <1>1, <2>1
  <2>2. ASSUME NEW e \in Exchanges, Chunk(e) PROVE key' = key /\ Calm
    <3>1. CASE streamConflicted(key[e]) \/ ~admitDelta(KindOf(<<e, pos[e] + 1>>))
      BY <2>2, <3>1 DEF Chunk
    <3>2. CASE ~(streamConflicted(key[e]) \/ ~admitDelta(KindOf(<<e, pos[e] + 1>>)))
      <4>1. ToAppend(e)
        BY <2>2, <3>2 DEF Chunk, Begin, Goto, ToAppend, Active, streamVars
      <4> QED BY <4>1 DEF Disturbs
    <3> QED BY <3>1, <3>2
  <2>3. ASSUME NEW e \in Exchanges, Done(e) PROVE key' = key /\ Calm
    <3> DEFINE carries == pos[e] < Size(e) /\ admitDelta(KindOf(<<e, Size(e)>>))
    <3>1. key' = key /\ bufs' = bufs /\ stage' = [stage EXCEPT ![e] = "ended"] /\ stage[e] \in {"open", "ended"}
      BY <2>3 DEF Done, streamVars
    <3>2. CASE ~streamConflicted(key[e]) /\ Consumers /\ carries
      <4>1. Begin(e, "append", "last")
        BY <2>3, <3>2 DEF Done
      <4>2. stage[e] = "open"
        <5>1. stage[e] = "ended" => pos[e] = Size(e) /\ pos[e] \in Nat
          BY DEF Finished, TypeIntact, HostType
        <5> QED BY <3>1, <3>2, <5>1
      <4>3. \A f \in Exchanges : f # e => stage'[f] = stage[f]
        BY <1>1, <3>1
      <4>4. ToAppend(e)
        BY <3>1, <3>2, <4>1, <4>2, <4>3 DEF Begin, Goto, ToAppend, Active
      <4> QED BY <4>4 DEF Disturbs
    <3>3. CASE ~(~streamConflicted(key[e]) /\ Consumers /\ carries)
      <4>1. \E to \in {"tomb", "clear", "residual"} : pc' = [pc EXCEPT ![e] = to]
        BY <2>3, <3>3 DEF Done, Begin, Goto
      <4> QED BY <2>1, <3>1, <4>1
    <3> QED BY <3>2, <3>3
  <2>4. ASSUME NEW e \in Exchanges, Respond(e) \/ Resend(e) PROVE key' = key /\ Calm
    <3>1. /\ key' = key
          /\ \E s \in {"answered", "resent"} : stage' = [stage EXCEPT ![e] = s]
          /\ \E to \in {"hasbuf", "ingest"} : pc' = [pc EXCEPT ![e] = to]
      BY <2>4 DEF Respond, Resend, Begin, Goto
    <3> QED BY <2>1, <3>1
  <2>5. ASSUME NEW e \in Exchanges, HandlerRuns(e) PROVE key' = key /\ Calm
    <3>1. key' = key /\ stage' = stage /\ ~AppendDelta(e) /\ ~ClearBuf(e)
      BY <2>5 DEF HandlerRuns, Disturbs, hostVars, OpenForDeltaFails, SegmentPoisoned, SegmentClean,
                  ClaimWon, ClaimLost, ProcessText, ProcessFails, Ingested, NoteStored, NoteMark, Tombstone,
                  Residual, OpenForResidualFails, FlushBuf, ClaimWhole, TakeWhole, PeekForWhole, ClaimTaken,
                  NeedEngine, OpenForResponse, OpenForResponseFails, Answer
    <3>2. CASE pc' = pc
      BY <2>1, <3>1, <3>2
    <3>3. CASE \E to \in PCs \ {"append"} : pc' = [pc EXCEPT ![e] = to]
      BY <2>1, <3>1, <3>3
    <3>4. ASSUME NEW from, AfterDelta(e, from, TRUE) \/ AfterDelta(e, from, FALSE) \/ Return(e, from)
          PROVE  \E to \in PCs \ {"append"} : pc' = [pc EXCEPT ![e] = to]
      BY <3>4 DEF AfterDelta, Return, Goto, PCs
    <3>5. CASE OpenForDeltaFails(e) \/ SegmentPoisoned(e) \/ SegmentClean(e) \/ Tombstone(e)
      BY <3>3, <3>4, <3>5 DEF OpenForDeltaFails, SegmentPoisoned, SegmentClean, Tombstone, Goto, PCs
    <3>6. CASE ClaimWon(e) \/ ClaimLost(e) \/ ProcessText(e) \/ ProcessFails(e)
      BY <3>2, <3>3, <3>6 DEF ClaimWon, ClaimLost, ProcessText, ProcessFails, Goto, PCs
    <3>7. CASE Ingested(e) \/ NoteStored(e) \/ NoteMark(e)
      BY <3>3, <3>4, <3>7 DEF Ingested, NoteStored, NoteMark, Goto, PCs
    <3>8. CASE Residual(e) \/ OpenForResidualFails(e) \/ FlushBuf(e) \/ ClaimWhole(e)
      BY <3>3, <3>8 DEF Residual, OpenForResidualFails, FlushBuf, ClaimWhole, Goto, PCs
    <3>9. CASE TakeWhole(e) \/ PeekForWhole(e) \/ ClaimTaken(e)
      BY <3>3, <3>9 DEF TakeWhole, PeekForWhole, ClaimTaken, Goto, PCs
    <3>10. CASE NeedEngine(e) \/ OpenForResponse(e) \/ OpenForResponseFails(e) \/ Answer(e)
      BY <3>3, <3>4, <3>10 DEF NeedEngine, OpenForResponse, OpenForResponseFails, Answer, Goto, PCs
    <3> QED BY <2>5, <3>1, <3>5, <3>6, <3>7, <3>8, <3>9, <3>10 DEF HandlerRuns
  <2>6. ASSUME NEW k \in StreamKeys, AgeBuf(k) \/ AgeMark(k) PROVE key' = key /\ Calm
    BY <2>6 DEF AgeBuf, AgeMark, hostVars
  <2>7. CASE UNCHANGED vars
    BY <2>7 DEF vars, hostVars
  <2> HIDE DEF Calm
  <2> QED BY <2>2, <2>3, <2>4, <2>5, <2>6, <2>7 DEF Next, HostCalls, Disturbs
<1> QED BY <1>2, <1>3 DEF Quiet, BufsQuiet

(* The first exchange of a key finds no buffer; the second poisons the one  *)
(* it finds, whatever the first is doing; there is no third.                *)
LEMMA HeaderInitKeeps ==
    ASSUME TypeIntact, Poisoned, Unmixed, Uncrowded', [Next]_vars,
           NEW e \in Exchanges, NEW k \in StreamKeys, NEW r \in Responses[e], HeaderInit(e, k, r)
    PROVE  Poisoned' /\ Unmixed'
<1> DEFINE b == IF bufs[k] = None THEN NewBuf ELSE [bufs[k] EXCEPT !.conflicted = TRUE, !.aged = FALSE]
<1>1. /\ pc[e] = "idle" /\ stage[e] = "new" /\ key[e] = None /\ pc' = pc
      /\ key \in [Exchanges -> StreamKeys \cup {None}] /\ None \notin StreamKeys
      /\ key' = [key EXCEPT ![e] = k] /\ stage' = [stage EXCEPT ![e] = "open"]
      /\ stage \in [Exchanges -> {"new", "open", "ended", "answered", "resent"}]
  BY NoneAssumption DEF HeaderInit, TypeIntact, HostType
<1>2. \A f \in Exchanges : f # e => key'[f] = key[f] /\ (Active(f)' <=> Active(f))
  BY <1>1 DEF Active
<1>3. key'[e] = k /\ ~Active(e) /\ \A f \in Exchanges : key[f] = k => f # e
  BY <1>1 DEF Active
<1>4. \A f, g \in Exchanges : f # e /\ g # e /\ key[f] = k /\ key[g] = k => f = g
  BY <1>1, <1>2, <1>3 DEF Uncrowded
<1>5. ~streamConflicted(k)
  BY <1>3, <1>4 DEF Poisoned
<1>6. PutBuf(k, b)
  BY <1>5 DEF HeaderInit, streamConflicted
<1>7. /\ bufs \in [StreamKeys -> Buffers \cup {None}]
      /\ b # None /\ (b.conflicted <=> bufs[k] # None)
      /\ bufs[k] # None => Held(b) = Held(bufs[k])
      /\ bufs[k] = None => Held(b) = {}
  <2>1. bufs \in [StreamKeys -> Buffers \cup {None}]
    BY DEF TypeIntact, TableOf
  <2>2. CASE bufs[k] = None
    <3>1. b = NewBuf /\ NewBuf \in Buffers /\ Held(NewBuf) = {} /\ NewBuf.conflicted = FALSE
      BY <2>2 DEF Held, NewBuf, Buffers, Texts
    <3> HIDE DEF b
    <3> QED BY <2>1, <2>2, <3>1, NoneAssumption
  <2>3. CASE bufs[k] # None
    <3>1. bufs[k] \in Buffers
      BY <2>1, <2>3
    <3>2. b \in Buffers /\ b.conflicted = TRUE /\ Held(b) = Held(bufs[k])
      BY <2>3, <3>1 DEF Held, Buffers
    <3> HIDE DEF b
    <3> QED BY <2>1, <2>3, <3>2, NoneAssumption
  <2> QED BY <2>2, <2>3
<1> HIDE DEF b
<1>8. bufs' = [bufs EXCEPT ![k] = b]
  <2> DEFINE K == KeysInUse'
  <2>1. IsFiniteSet(K) /\ KeysInUse \subseteq K
    BY KeysStay
  <2>2. Cardinality(K) <= MaxBufs
    BY DEF Uncrowded, Roomy
  <2>3. k \in K
    BY <1>1, <1>3 DEF KeysInUse
  <2>4. \A j \in StreamKeys : bufs[j] # None => j \in K
    <3>1. \A j \in StreamKeys : bufs[j] # None => j \in KeysInUse
      BY <1>1 DEF Poisoned, KeysInUse
    <3> QED BY <2>1, <3>1
  <2> HIDE DEF K
  <2> QED BY <1>6, <2>1, <2>2, <2>3, <2>4, PutInPlace
<1>9. bufs'[k] = b /\ \A j \in StreamKeys : j # k => bufs'[j] = bufs[j]
  BY <1>7, <1>8
<1>10. \A f \in Exchanges : Active(f) => key[f] \in StreamKeys
  BY ActiveHasKey
<1>11. ASSUME NEW f \in Exchanges, Active(f), key[f] = k PROVE bufs[k] # None
  <2>1. Alone(f)
    BY <1>1, <1>3, <1>4, <1>11 DEF Alone
  <2> QED BY <1>11, <2>1 DEF Poisoned
<1>12. Poisoned'
  <2>1. ASSUME NEW j \in StreamKeys, bufs'[j] # None PROVE \E f \in Exchanges : key'[f] = j
    <3>1. CASE j = k
      BY <1>3, <3>1
    <3>2. CASE j # k
      <4>1. PICK f \in Exchanges : key[f] = j
        BY <1>9, <2>1, <3>2 DEF Poisoned
      <4> QED BY <1>1, <1>2, <4>1
    <3> QED BY <3>1, <3>2
  <2>2. ASSUME NEW j \in StreamKeys, bufs'[j] # None, bufs'[j].conflicted
        PROVE  \E f, g \in Exchanges : f # g /\ key'[f] = j /\ key'[g] = j
    <3>1. CASE j = k
      <4>1. PICK f \in Exchanges : key[f] = k
        BY <1>7, <1>9, <2>2, <3>1 DEF Poisoned
      <4> QED BY <1>2, <1>3, <3>1, <4>1
    <3>2. CASE j # k
      <4>1. streamConflicted(j)
        BY <1>9, <2>2, <3>2 DEF streamConflicted
      <4>2. PICK f, g \in Exchanges : f # g /\ key[f] = j /\ key[g] = j
        BY <4>1 DEF Poisoned
      <4>3. f # e /\ g # e
        BY <1>1, <4>2
      <4> QED BY <1>2, <4>2, <4>3
    <3> QED BY <3>1, <3>2
  <2>3. ASSUME NEW f \in Exchanges, NEW g \in Exchanges, f # g, key'[f] = key'[g], Active(f)', Active(g)'
        PROVE  bufs'[key'[f]] # None /\ bufs'[key'[f]].conflicted
    <3>1. CASE key'[f] = k
      <4>1. PICK h \in Exchanges : Active(h) /\ key[h] = k
        BY <1>2, <2>3, <3>1
      <4>2. bufs[k] # None
        BY <1>11, <4>1
      <4> QED BY <1>7, <1>9, <3>1, <4>2
    <3>2. CASE key'[f] # k
      <4>1. f # e /\ g # e
        BY <1>3, <2>3, <3>2
      <4>2. Active(f) /\ Active(g) /\ key[f] = key[g] /\ key'[f] = key[f] /\ key[f] \in StreamKeys
        BY <1>2, <1>10, <2>3, <4>1
      <4>3. streamConflicted(key[f])
        BY <2>3, <4>2 DEF Poisoned
      <4> QED BY <1>9, <3>2, <4>2, <4>3 DEF streamConflicted
    <3> QED BY <3>1, <3>2
  <2>4. ASSUME NEW f \in Exchanges, Active(f)', Alone(f)' PROVE bufs'[key'[f]] # None
    <3>1. CASE key'[f] = k
      BY <1>7, <1>9, <3>1
    <3>2. CASE key'[f] # k
      <4>1. f # e /\ Active(f) /\ key'[f] = key[f] /\ key[f] \in StreamKeys
        BY <1>2, <1>3, <1>10, <2>4, <3>2
      <4>2. ASSUME NEW g \in Exchanges, g # f PROVE key[g] # key[f]
        <5>1. CASE g = e
          BY <1>1, <4>1, <5>1
        <5>2. CASE g # e
          BY <1>2, <2>4, <4>1, <4>2, <5>2 DEF Alone
        <5> QED BY <5>1, <5>2
      <4>3. Alone(f)
        BY <1>1, <4>1, <4>2 DEF Alone
      <4>4. bufs[key[f]] # None
        BY <4>1, <4>3 DEF Poisoned
      <4> QED BY <1>9, <3>2, <4>1, <4>4
    <3> QED BY <3>1, <3>2
  <2> QED BY <2>1, <2>2, <2>3, <2>4 DEF Poisoned, streamConflicted
<1>13. Unmixed'
  <2>1. ASSUME NEW j \in StreamKeys, bufs'[j] # None PROVE OneExchange(Held(bufs'[j]))
    <3>1. CASE j # k
      BY <1>9, <2>1, <3>1 DEF Unmixed
    <3>2. CASE j = k
      BY <1>7, <1>9, <3>2 DEF Unmixed, OneExchange
    <3> QED BY <3>1, <3>2
  <2>2. ASSUME NEW f \in Exchanges, Active(f)', bufs'[key'[f]] # None,
               pc'[f] = "append" \/ ~(bufs'[key'[f]] # None /\ bufs'[key'[f]].conflicted)
        PROVE  OnlyOf(Held(bufs'[key'[f]]), f)
    <3>1. CASE f = e
      <4>1. bufs[k] = None
        BY <1>1, <1>3, <1>7, <1>9, <2>2, <3>1
      <4> QED BY <1>3, <1>7, <1>9, <3>1, <4>1 DEF OnlyOf
    <3>2. CASE f # e
      <4>1. Active(f) /\ key'[f] = key[f] /\ key[f] \in StreamKeys /\ pc'[f] = pc[f]
        BY <1>1, <1>2, <1>10, <2>2, <3>2
      <4>2. CASE key[f] = k
        <5>1. bufs[k] # None
          BY <1>11, <4>1, <4>2
        <5>2. OnlyOf(Held(bufs[k]), f)
          BY <1>5, <4>1, <4>2, <5>1 DEF Unmixed
        <5> QED BY <1>7, <1>9, <4>1, <4>2, <5>1, <5>2
      <4>3. CASE key[f] # k
        <5>1. bufs'[key'[f]] = bufs[key[f]]
          BY <1>9, <4>1, <4>3
        <5> QED BY <2>2, <4>1, <5>1 DEF Unmixed, streamConflicted
      <4> QED BY <4>2, <4>3
    <3> QED BY <3>1, <3>2
  <2>3. \A f, g \in Exchanges : pc'[f] = "append" /\ pc'[g] = "append" /\ key'[f] = key'[g] => f = g
    BY <1>1, <1>2 DEF Unmixed
  <2> QED BY <2>1, <2>2, <2>3 DEF Unmixed, streamConflicted
<1> QED BY <1>12, <1>13

(* Only one exchange of a key goes to append: were another active, the      *)
(* buffer would be poisoned.                                                *)
LEMMA ToAppendKeeps ==
    ASSUME TypeIntact, Poisoned, Unmixed, NEW e \in Exchanges, ToAppend(e)
    PROVE  Poisoned' /\ Unmixed'
<1>1. /\ pc' = [pc EXCEPT ![e] = "append"] /\ pc \in [Exchanges -> PCs]
      /\ Active(e) /\ ~streamConflicted(key[e]) /\ bufs' = bufs /\ key' = key
  BY DEF ToAppend, TypeIntact, LocalType
<1>2. \A f \in Exchanges : Active(f)' => Active(f)
  BY <1>1 DEF ToAppend, Active
<1>3. Poisoned'
  <2>1. \A f, g \in Exchanges : f # g /\ key'[f] = key'[g] /\ Active(f)' /\ Active(g)'
              => streamConflicted(key[f])
    BY <1>1, <1>2 DEF Poisoned
  <2>2. \A f \in Exchanges : Active(f)' /\ Alone(f)' => bufs'[key'[f]] # None
    <3>1. \A f \in Exchanges : Alone(f)' => Alone(f)
      BY <1>1 DEF Alone
    <3> QED BY <1>1, <1>2, <3>1 DEF Poisoned
  <2> QED BY <1>1, <2>1, <2>2 DEF Poisoned, streamConflicted
<1>4. Unmixed'
  <2>1. ASSUME NEW f \in Exchanges, Active(f)', bufs[key[f]] # None,
               pc'[f] = "append" \/ ~streamConflicted(key[f])
        PROVE  OnlyOf(Held(bufs[key[f]]), f)
    <3>1. Active(f) /\ (pc[f] = "append" \/ ~streamConflicted(key[f]))
      BY <1>1, <1>2, <2>1
    <3> QED BY <2>1, <3>1 DEF Unmixed
  <2>2. \A f \in Exchanges : f # e /\ pc[f] = "append" => key[f] # key[e]
    <3>1. \A f \in Exchanges : pc[f] = "append" => Active(f)
      BY DEF Active
    <3> QED BY <1>1, <3>1 DEF Poisoned
  <2>3. \A f, g \in Exchanges : pc'[f] = "append" /\ pc'[g] = "append" /\ key'[f] = key'[g] => f = g
    <3>1. \A f \in Exchanges : pc'[f] = "append" => f = e \/ pc[f] = "append"
      BY <1>1
    <3> QED BY <1>1, <2>2, <3>1 DEF Unmixed
  <2>4. \A j \in StreamKeys : bufs'[j] # None => OneExchange(Held(bufs'[j]))
    BY <1>1 DEF Unmixed
  <2> QED BY <1>1, <2>1, <2>3, <2>4 DEF Unmixed, streamConflicted
<1> QED BY <1>3, <1>4

(* What is appended is of the exchange whose deltas are buffered already,   *)
(* and so is the segment that is cut.                                       *)
LEMMA AppendDeltaKeeps ==
    ASSUME TypeIntact, Poisoned, Unmixed, Uncrowded, [Next]_vars, NEW e \in Exchanges, AppendDelta(e)
    PROVE  Poisoned' /\ Unmixed'
<1> DEFINE k == key[e]
           d == <<e, pos[e]>>
           b == IF bufs[k] = None THEN NewBuf ELSE [bufs[k] EXCEPT !.aged = FALSE]
           segment == (IF KindOf(d) = "text" THEN b.asst ELSE b.reason) \cup {d}
           kept == IF Cuts(d) THEN {} ELSE segment
           entry == CASE KindOf(d) = "tool" -> [b EXCEPT !.tools = @ \cup {d}]
                      [] KindOf(d) = "reasoning" -> [b EXCEPT !.reason = kept]
                      [] KindOf(d) = "text" -> [b EXCEPT !.asst = kept, !.whole = @ \cup {d}]
<1>1. /\ pc[e] = "append" /\ k \in StreamKeys /\ stage[e] # "new" /\ pos[e] \in 1..Size(e)
      /\ key' = key /\ stage' = stage
  BY BusyHasKey DEF AppendDelta, TypeIntact, Control, hostVars
<1>2. d \in Deltas /\ KindOf(d) \in {"text", "reasoning", "tool"} /\ d[1] = e
  BY <1>1, DeltaType
<1>3. PutBuf(k, entry)
  BY DEF AppendDelta
<1>4. /\ bufs \in [StreamKeys -> Buffers \cup {None}]
      /\ b \in Buffers
      /\ Held(b) = IF bufs[k] = None THEN {} ELSE Held(bufs[k])
      /\ b.conflicted = (bufs[k] # None /\ bufs[k].conflicted)
  <2>1. bufs \in [StreamKeys -> Buffers \cup {None}]
    BY DEF TypeIntact, TableOf
  <2>2. CASE bufs[k] = None
    <3>1. b = [NewBuf EXCEPT !.aged = FALSE] \/ b = NewBuf
      BY <2>2
    <3> QED BY <2>1, <2>2 DEF Held, NewBuf, Buffers, Texts
  <2>3. CASE bufs[k] # None
    <3>1. bufs[k] \in Buffers
      BY <1>1, <2>1, <2>3
    <3> QED BY <2>1, <2>3, <3>1 DEF Held, Buffers
  <2> QED BY <2>2, <2>3
<1>5. /\ pc \in [Exchanges -> PCs]
      /\ \E to \in {"recheck", "idle", "residual"} : pc' = [pc EXCEPT ![e] = to]
  BY DEF AppendDelta, AfterDelta, Return, Goto, TypeIntact, LocalType
<1>6. OnlyOf(Held(b), e)
  BY <1>1, <1>4 DEF Unmixed, Active, OnlyOf
<1> HIDE DEF d, b
<1>7. /\ segment \subseteq Held(b) \cup {d}
      /\ entry \in Buffers /\ entry.conflicted = b.conflicted
      /\ Held(entry) \subseteq Held(b) \cup {d}
  <2>1. /\ b.asst \in Texts /\ b.reason \in Texts /\ b.tools \in Texts /\ b.whole \in Texts
    BY <1>4 DEF Buffers
  <2>2. /\ segment \in Texts /\ kept \in Texts /\ b.tools \cup {d} \in Texts /\ b.whole \cup {d} \in Texts
        /\ segment \subseteq Held(b) \cup {d} /\ kept \subseteq Held(b) \cup {d}
    BY <1>2, <2>1 DEF Texts, Held
  <2> HIDE DEF segment, kept
  <2>3. CASE KindOf(d) = "tool"
    BY <1>4, <2>2, <2>3 DEF Buffers, Held
  <2>4. CASE KindOf(d) = "reasoning"
    BY <1>4, <2>2, <2>4 DEF Buffers, Held
  <2>5. CASE KindOf(d) = "text"
    BY <1>4, <2>2, <2>5 DEF Buffers, Held
  <2> QED BY <1>2, <2>2, <2>3, <2>4, <2>5
<1> HIDE DEF segment, entry
<1>8. OnlyOf(segment, e) /\ OnlyOf(Held(entry), e) /\ entry # None
  BY <1>2, <1>6, <1>7, NoneAssumption DEF OnlyOf
<1>9. bufs' = [bufs EXCEPT ![k] = entry]
  <2>1. IsFiniteSet(KeysInUse)
    BY KeysStay
  <2>2. Cardinality(KeysInUse) <= MaxBufs
    BY DEF Uncrowded, Roomy
  <2>3. k \in KeysInUse
    BY <1>1, NoneAssumption DEF KeysInUse
  <2>4. \A j \in StreamKeys : bufs[j] # None => j \in KeysInUse
    BY NoneAssumption DEF Poisoned, KeysInUse
  <2> HIDE DEF k
  <2> QED BY <1>1, <1>3, <2>1, <2>2, <2>3, <2>4, PutInPlace
<1>10. bufs'[k] = entry /\ \A j \in StreamKeys : j # k => bufs'[j] = bufs[j]
  BY <1>1, <1>4, <1>9
<1>11. \A j \in StreamKeys : bufs'[j] # None /\ bufs'[j].conflicted <=> streamConflicted(j)
  BY <1>4, <1>7, <1>8, <1>10 DEF streamConflicted
<1>12. \A f \in Exchanges :
          /\ Active(f)' => Active(f) /\ key[f] \in StreamKeys
          /\ pc'[f] = "append" => pc[f] = "append" /\ f # e
  <2>1. \A f \in Exchanges :
           /\ Active(f)' => Active(f)
           /\ pc'[f] = "append" => pc[f] = "append" /\ f # e
    BY <1>1, <1>5 DEF Active
  <2> QED BY <2>1, ActiveHasKey
<1>13. Active(e)
  BY <1>1 DEF Active
<1>14. Poisoned'
  <2>1. \A j \in StreamKeys : bufs'[j] # None => \E f \in Exchanges : key'[f] = j
    BY <1>1, <1>10 DEF Poisoned
  <2>2. ASSUME NEW j \in StreamKeys, bufs'[j] # None /\ bufs'[j].conflicted
        PROVE  \E f, g \in Exchanges : f # g /\ key'[f] = j /\ key'[g] = j
    <3>1. streamConflicted(j)
      BY <1>11, <2>2
    <3> QED BY <1>1, <3>1 DEF Poisoned
  <2>3. ASSUME NEW f \in Exchanges, NEW g \in Exchanges, f # g, key'[f] = key'[g], Active(f)', Active(g)'
        PROVE  bufs'[key'[f]] # None /\ bufs'[key'[f]].conflicted
    <3>1. streamConflicted(key[f]) /\ key[f] \in StreamKeys
      BY <1>1, <1>12, <2>3 DEF Poisoned
    <3> QED BY <1>1, <1>11, <3>1
  <2>4. ASSUME NEW f \in Exchanges, Active(f)', Alone(f)' PROVE bufs'[key'[f]] # None
    <3>1. Active(f) /\ key[f] \in StreamKeys /\ Alone(f)
      BY <1>1, <1>12, <2>4 DEF Alone
    <3>2. bufs[key[f]] # None
      BY <3>1 DEF Poisoned
    <3> QED BY <1>1, <1>8, <1>10, <3>1, <3>2
  <2> QED BY <2>1, <2>2, <2>3, <2>4 DEF Poisoned, streamConflicted
<1>15. Unmixed'
  <2>1. \A j \in StreamKeys : bufs'[j] # None => OneExchange(Held(bufs'[j]))
    <3>1. OneExchange(Held(entry))
      BY <1>8 DEF OnlyOf, OneExchange
    <3> QED BY <1>10, <3>1 DEF Unmixed
  <2>2. ASSUME NEW f \in Exchanges, Active(f)', bufs'[key'[f]] # None,
               pc'[f] = "append" \/ ~(bufs'[key'[f]] # None /\ bufs'[key'[f]].conflicted)
        PROVE  OnlyOf(Held(bufs'[key'[f]]), f)
    <3>1. Active(f) /\ key[f] \in StreamKeys /\ key'[f] = key[f]
      BY <1>1, <1>12, <2>2
    <3>2. pc[f] = "append" \/ ~streamConflicted(key[f])
      BY <1>11, <1>12, <2>2, <3>1
    <3>3. CASE key[f] = k
      <4>1. f = e
        <5>1. SUFFICES ASSUME f # e PROVE FALSE
          OBVIOUS
        <5>2. streamConflicted(k)
          BY <1>13, <3>1, <3>3, <5>1 DEF Poisoned
        <5>3. pc[f] = "append"
          BY <3>2, <3>3, <5>2
        <5> QED BY <1>1, <3>3, <5>1, <5>3 DEF Unmixed
      <4> QED BY <1>8, <1>10, <3>1, <3>3, <4>1
    <3>4. CASE key[f] # k
      <4>1. bufs'[key'[f]] = bufs[key[f]]
        BY <1>10, <3>1, <3>4
      <4> QED BY <2>2, <3>1, <3>2, <4>1 DEF Unmixed
    <3> QED BY <3>3, <3>4
  <2>3. \A f, g \in Exchanges : pc'[f] = "append" /\ pc'[g] = "append" /\ key'[f] = key'[g] => f = g
    BY <1>1, <1>12 DEF Unmixed
  <2> QED BY <2>1, <2>2, <2>3 DEF Unmixed, streamConflicted
<1> QED BY <1>14, <1>15

(* The buffer is cleared by an exchange that is past its stream: if another *)
(* of the key is active, there is no third.                                 *)
LEMMA ClearBufKeeps ==
    ASSUME TypeIntact, Poisoned, Unmixed, Uncrowded, NEW e \in Exchanges, ClearBuf(e)
    PROVE  Poisoned' /\ Unmixed'
<1> DEFINE k == key[e]
<1>1. /\ pc[e] = "clear" /\ \E to \in {"idle", "answer"} : pc' = [pc EXCEPT ![e] = to]
      /\ bufs' = [bufs EXCEPT ![k] = None] /\ key' = key /\ stage' = stage
  BY DEF ClearBuf, Return, Goto, hostVars
<1>2. k \in StreamKeys /\ k # None /\ stage[e] # "open"
  BY <1>1, BusyHasKey, NoneAssumption DEF TypeIntact, Control, Streaming
<1>3. pc \in [Exchanges -> PCs] /\ bufs \in [StreamKeys -> Buffers \cup {None}]
  BY DEF TypeIntact, LocalType, TableOf
<1>4. bufs'[k] = None /\ \A j \in StreamKeys : j # k => bufs'[j] = bufs[j]
  BY <1>1, <1>2, <1>3
<1>5. \A f \in Exchanges :
         /\ Active(f)' => Active(f) /\ f # e /\ key[f] \in StreamKeys
         /\ pc'[f] = "append" => pc[f] = "append" /\ f # e
  <2>1. \A f \in Exchanges :
           /\ Active(f)' => Active(f) /\ f # e
           /\ pc'[f] = "append" => pc[f] = "append" /\ f # e
    BY <1>1, <1>2, <1>3 DEF Active
  <2> QED BY <2>1, ActiveHasKey
<1> HIDE DEF k
<1>6. Poisoned'
  <2>1. \A j \in StreamKeys : bufs'[j] # None => \E f \in Exchanges : key'[f] = j
    BY <1>1, <1>4 DEF Poisoned
  <2>2. ASSUME NEW j \in StreamKeys, bufs'[j] # None /\ bufs'[j].conflicted
        PROVE  \E f, g \in Exchanges : f # g /\ key'[f] = j /\ key'[g] = j
    <3>1. streamConflicted(j)
      BY <1>4, <2>2 DEF streamConflicted
    <3> QED BY <1>1, <3>1 DEF Poisoned
  <2>3. ASSUME NEW f \in Exchanges, NEW g \in Exchanges, f # g, key'[f] = key'[g], Active(f)', Active(g)'
        PROVE  bufs'[key'[f]] # None /\ bufs'[key'[f]].conflicted
    <3>1. f # e /\ g # e /\ key[f] = key[g] /\ key[f] \in StreamKeys
      BY <1>1, <1>5, <2>3
    <3>2. key[f] # k
      BY <1>2, <2>3, <3>1 DEF Uncrowded, k
    <3>3. streamConflicted(key[f])
      BY <1>5, <2>3, <3>1 DEF Poisoned
    <3> QED BY <1>1, <1>4, <3>1, <3>2, <3>3 DEF streamConflicted
  <2>4. ASSUME NEW f \in Exchanges, Active(f)', Alone(f)' PROVE bufs'[key'[f]] # None
    <3>1. Active(f) /\ f # e /\ key[f] \in StreamKeys /\ Alone(f)
      BY <1>1, <1>5, <2>4 DEF Alone
    <3>2. key[f] # k
      BY <3>1 DEF Alone, k
    <3>3. bufs[key[f]] # None
      BY <3>1 DEF Poisoned
    <3> QED BY <1>1, <1>4, <3>1, <3>2, <3>3
  <2> QED BY <2>1, <2>2, <2>3, <2>4 DEF Poisoned, streamConflicted
<1>7. Unmixed'
  <2>1. \A j \in StreamKeys : bufs'[j] # None => OneExchange(Held(bufs'[j]))
    BY <1>4 DEF Unmixed
  <2>2. ASSUME NEW f \in Exchanges, Active(f)', bufs'[key'[f]] # None,
               pc'[f] = "append" \/ ~(bufs'[key'[f]] # None /\ bufs'[key'[f]].conflicted)
        PROVE  OnlyOf(Held(bufs'[key'[f]]), f)
    <3>1. Active(f) /\ key[f] \in StreamKeys /\ key'[f] = key[f]
      BY <1>1, <1>5, <2>2
    <3>2. bufs'[key'[f]] = bufs[key[f]]
      BY <1>4, <2>2, <3>1
    <3>3. pc[f] = "append" \/ ~streamConflicted(key[f])
      BY <1>5, <2>2, <3>2 DEF streamConflicted
    <3> QED BY <2>2, <3>1, <3>2, <3>3 DEF Unmixed
  <2>3. \A f, g \in Exchanges : pc'[f] = "append" /\ pc'[g] = "append" /\ key'[f] = key'[g] => f = g
    BY <1>1, <1>5 DEF Unmixed
  <2> QED BY <2>1, <2>2, <2>3 DEF Unmixed, streamConflicted
<1> QED BY <1>6, <1>7

LEMMA PoisonStep ==
    ASSUME TypeIntact, Finished, Poisoned, Unmixed, Uncrowded, Uncrowded', [Next]_vars
    PROVE  Poisoned' /\ Unmixed'
<1>1. CASE ~Disturbs
  BY <1>1, OtherStepsQuiet, QuietKeeps
<1>2. CASE Disturbs
  BY <1>2, HeaderInitKeeps, ToAppendKeeps, AppendDeltaKeeps, ClearBufKeeps DEF Disturbs
<1> QED BY <1>1, <1>2

-----------------------------------------------------------------------------
(* What a handler has still to ingest. *)
LEMMA ToIngestType ==
    ASSUME NEW S, NEW t \in S, NEW kind
    PROVE  ToIngest(t, kind) \in Seq(S)
BY DEF ToIngest

LEMMA TextOwn ==
    ASSUME TypeIntact, NEW e \in Exchanges, stage[e] # "new"
    PROVE  Text(e) \in OwnTexts
BY TextType DEF Text, OwnTexts, OneExchange

LEMMA TodoStep ==
    ASSUME TypeIntact, Unmixed, TodoUnmixed, [Next]_vars
    PROVE  TodoUnmixed'
<1>1. todo \in [Exchanges -> Seq(OwnTexts)] /\ << >> \in Seq(OwnTexts)
  BY DEF TodoUnmixed
<1>2. CASE todo' = todo
  BY <1>1, <1>2 DEF TodoUnmixed
<1>3. ASSUME NEW e \in Exchanges, NEW t \in Seq(OwnTexts), todo' = [todo EXCEPT ![e] = t]
      PROVE  TodoUnmixed'
  BY <1>1, <1>3 DEF TodoUnmixed
<1>4. ASSUME NEW e \in Exchanges, todo[e] # << >>, todo' = [todo EXCEPT ![e] = Tail(todo[e])]
      PROVE  TodoUnmixed'
  <2>1. todo[e] \in Seq(OwnTexts)
    BY <1>1
  <2>2. Tail(todo[e]) \in Seq(OwnTexts)
    BY <1>4, <2>1
  <2> QED BY <1>3, <1>4, <2>2
<1>5. ASSUME NEW e \in Exchanges, NEW from, Return(e, from) PROVE TodoUnmixed'
  BY <1>1, <1>3, <1>5 DEF Return
<1>6. ASSUME NEW e \in Exchanges, NEW from, AfterDelta(e, from, TRUE) \/ AfterDelta(e, from, FALSE)
      PROVE  TodoUnmixed'
  BY <1>1, <1>3, <1>5, <1>6 DEF AfterDelta
<1>7. ASSUME NEW e \in Exchanges, HostCalls(e) PROVE TodoUnmixed'
  <2>1. CASE Resend(e)
    <3>1. stage[e] # "new" /\ todo' = [todo EXCEPT ![e] = <<Text(e)>>]
      BY <2>1 DEF Resend, Delivered
    <3>2. <<Text(e)>> \in Seq(OwnTexts)
      BY <3>1, TextOwn
    <3> QED BY <1>3, <3>1, <3>2
  <2>2. CASE ~Resend(e)
    BY <1>2, <1>7, <2>2 DEF HostCalls, HeaderInit, Chunk, Done, Respond, localVars
  <2> QED BY <2>1, <2>2
<1>8. ASSUME NEW e \in Exchanges, AppendDelta(e) PROVE TodoUnmixed'
  <2> DEFINE k == key[e]
             d == <<e, pos[e]>>
             b == IF bufs[k] = None THEN NewBuf ELSE [bufs[k] EXCEPT !.aged = FALSE]
             segment == (IF KindOf(d) = "text" THEN b.asst ELSE b.reason) \cup {d}
  <2>1. pc[e] = "append" /\ k \in StreamKeys /\ stage[e] # "new" /\ pos[e] \in 1..Size(e)
    BY <1>8, BusyHasKey DEF AppendDelta, TypeIntact, Control
  <2>2. d \in Deltas /\ d[1] = e
    BY <2>1, DeltaType
  <2>3. /\ b \in Buffers
        /\ Held(b) = IF bufs[k] = None THEN {} ELSE Held(bufs[k])
    <3>1. bufs \in [StreamKeys -> Buffers \cup {None}]
      BY DEF TypeIntact, TableOf
    <3>2. CASE bufs[k] = None
      <4>1. b = NewBuf
        BY <3>2
      <4> QED BY <3>2 DEF Held, NewBuf, Buffers, Texts
    <3>3. CASE bufs[k] # None
      <4>1. bufs[k] \in Buffers
        BY <2>1, <3>1, <3>3
      <4> QED BY <3>3, <4>1 DEF Held, Buffers
    <3> QED BY <3>2, <3>3
  <2>4. OnlyOf(Held(b), e)
    BY <2>1, <2>3 DEF Unmixed, Active, OnlyOf
  <2> HIDE DEF b, d
  <2>5. b.asst \in Texts /\ b.reason \in Texts /\ b.asst \subseteq Held(b) /\ b.reason \subseteq Held(b)
    BY <2>3 DEF Buffers, Held
  <2>6. segment \in OwnTexts
    BY <2>2, <2>4, <2>5 DEF OwnTexts, OneExchange, OnlyOf, Texts
  <2> HIDE DEF segment
  <2>7. CASE todo' = [todo EXCEPT ![e] = ToIngest(segment, KindOf(d))]
    <3>1. ToIngest(segment, KindOf(d)) \in Seq(OwnTexts)
      BY <2>6, ToIngestType
    <3> QED BY <1>3, <2>7, <3>1
  <2>8. CASE AfterDelta(e, "append", TRUE)
    BY <1>6, <2>8
  <2> QED BY <1>8, <2>7, <2>8 DEF AppendDelta, segment, b, d
<1>9. ASSUME NEW e \in Exchanges, FlushBuf(e) PROVE TodoUnmixed'
  <2> DEFINE k == key[e]
             b == IF bufs[k] = None THEN NewBuf ELSE bufs[k]
  <2>1. k \in StreamKeys
    BY <1>9, BusyHasKey DEF FlushBuf
  <2>2. b \in Buffers /\ OneExchange(Held(b))
    <3>1. bufs \in [StreamKeys -> Buffers \cup {None}]
      BY DEF TypeIntact, TableOf
    <3>2. CASE bufs[k] = None
      BY <3>2 DEF Held, NewBuf, Buffers, Texts, OneExchange
    <3>3. CASE bufs[k] # None
      BY <2>1, <3>1, <3>3 DEF Unmixed
    <3> QED BY <3>2, <3>3
  <2>3. todo' = todo \/ todo' = [todo EXCEPT ![e] =
                 ToIngest(b.asst, "text") \o ToIngest(b.reason, "reasoning") \o ToIngest(b.tools, "tool")]
    BY <1>9 DEF FlushBuf
  <2> HIDE DEF b
  <2>4. b.asst \in OwnTexts /\ b.reason \in OwnTexts /\ b.tools \in OwnTexts
    BY <2>2 DEF Buffers, Held, OneExchange, OwnTexts
  <2> DEFINE x == ToIngest(b.asst, "text")
             y == ToIngest(b.reason, "reasoning")
             z == ToIngest(b.tools, "tool")
  <2>5. x \in Seq(OwnTexts) /\ y \in Seq(OwnTexts) /\ z \in Seq(OwnTexts)
    BY <2>4, ToIngestType
  <2>6. todo' = todo \/ todo' = [todo EXCEPT ![e] = x \o y \o z]
    BY <2>3
  <2> HIDE DEF x, y, z
  <2>7. x \o y \o z \in Seq(OwnTexts)
    BY <2>5
  <2> QED BY <1>2, <1>3, <2>6, <2>7
<1>10. ASSUME NEW e \in Exchanges, Answer(e) PROVE TodoUnmixed'
  <2>1. CASE Return(e, "answer")
    BY <1>5, <2>1
  <2>2. CASE ~Return(e, "answer")
    <3>1. pc[e] = "answer" /\ todo' = [todo EXCEPT ![e] = <<Text(e)>>]
      BY <1>10, <2>2 DEF Answer
    <3>2. <<Text(e)>> \in Seq(OwnTexts)
      BY <3>1, BusyHasKey, TextOwn
    <3> QED BY <1>3, <3>1, <3>2
  <2> QED BY <2>1, <2>2
<1>11. ASSUME NEW e \in Exchanges, HandlerRuns(e) PROVE TodoUnmixed'
  <2>1. CASE OpenForDeltaFails(e) \/ SegmentPoisoned(e) \/ SegmentClean(e) \/ NoteMark(e) \/ Tombstone(e)
    BY <1>2, <1>5, <1>6, <2>1 DEF OpenForDeltaFails, SegmentPoisoned, SegmentClean, NoteMark, Tombstone, localVars
  <2>2. CASE ClaimWon(e) \/ NoteStored(e) \/ Residual(e) \/ OpenForResidualFails(e) \/ ClaimWhole(e)
    BY <1>2, <2>2 DEF ClaimWon, NoteStored, Residual, OpenForResidualFails, ClaimWhole, localVars
  <2>3. CASE ClaimLost(e) \/ ProcessText(e) \/ ProcessFails(e)
    BY <1>4, <2>3 DEF ClaimLost, ProcessText, ProcessFails, Pop, Goto, TypeIntact, Control
  <2>4. CASE Ingested(e) \/ ClearBuf(e) \/ OpenForResponseFails(e)
    BY <1>2, <1>5, <2>4 DEF Ingested, ClearBuf, OpenForResponseFails, localVars
  <2>5. CASE TakeWhole(e) \/ PeekForWhole(e) \/ ClaimTaken(e) \/ NeedEngine(e) \/ OpenForResponse(e)
    BY <1>2, <2>5 DEF TakeWhole, PeekForWhole, ClaimTaken, NeedEngine, OpenForResponse, localVars
  <2> QED BY <1>8, <1>9, <1>10, <1>11, <2>1, <2>2, <2>3, <2>4, <2>5 DEF HandlerRuns
<1>12. ASSUME NEW k \in StreamKeys, AgeBuf(k) \/ AgeMark(k) PROVE TodoUnmixed'
  BY <1>2, <1>12 DEF AgeBuf, AgeMark, localVars
<1>13. CASE UNCHANGED vars
  BY <1>2, <1>13 DEF vars, localVars
<1> QED BY <1>7, <1>11, <1>12, <1>13 DEF Next

LEMMA RowStep ==
    ASSUME TypeIntact, TodoUnmixed, RowsUnmixed, [Next]_vars
    PROVE  RowsUnmixed'
<1>1. ASSUME NEW e \in Exchanges, ProcessText(e) PROVE RowsUnmixed'
  <2>1. todo[e] \in Seq(OwnTexts) /\ todo[e] # << >>
    BY <1>1 DEF ProcessText, Goto, TypeIntact, Control, TodoUnmixed
  <2>2. Head(todo[e]) \in OwnTexts
    BY <2>1
  <2>3. rows' = rows \cup {Head(todo[e])}
    BY <1>1 DEF ProcessText
  <2> QED BY <2>2, <2>3 DEF RowsUnmixed, OwnTexts, OneExchange
<1>2. CASE rows' = rows
  BY <1>2 DEF RowsUnmixed
<1>3. ASSUME NEW e \in Exchanges, ClaimWon(e) \/ ProcessFails(e) \/ ClaimWhole(e) \/ ClaimTaken(e)
      PROVE  rows' = rows
  BY <1>3 DEF ClaimWon, ProcessFails, ClaimWhole, ClaimTaken
<1> QED BY <1>1, <1>2, <1>3, StoreWritten DEF StoreWriters, storeVars

-----------------------------------------------------------------------------
ResponseInv == TypeIntact /\ Finished /\ UncrowdedInv

LEMMA ResponseInvHolds == Spec => []ResponseInv
<1>1. Init => ResponseInv
  <2> SUFFICES ASSUME Init PROVE ResponseInv
    OBVIOUS
  <2>1. TypeIntact /\ Finished
    BY InitType DEF Init, Finished
  <2>2. Poisoned /\ Unmixed
    BY DEF Init, Poisoned, Unmixed, Active, streamConflicted
  <2>3. TodoUnmixed /\ RowsUnmixed
    BY DEF Init, TodoUnmixed, RowsUnmixed
  <2> QED BY <2>1, <2>2, <2>3 DEF ResponseInv, UncrowdedInv
<1>2. ResponseInv /\ [Next]_vars => ResponseInv'
  <2> SUFFICES ASSUME ResponseInv, [Next]_vars PROVE ResponseInv'
    OBVIOUS
  <2>1. TypeIntact' /\ Finished'
    BY TypeStep, FinishedStep DEF ResponseInv
  <2>2. ASSUME Uncrowded' PROVE Poisoned' /\ Unmixed' /\ TodoUnmixed' /\ RowsUnmixed'
    <3>1. TypeIntact /\ Finished /\ Uncrowded
      BY <2>2, UncrowdedBefore DEF ResponseInv
    <3>2. Poisoned /\ Unmixed /\ TodoUnmixed /\ RowsUnmixed
      BY <3>1 DEF ResponseInv, UncrowdedInv
    <3> QED BY <2>2, <3>1, <3>2, PoisonStep, TodoStep, RowStep
  <2> QED BY <2>1, <2>2 DEF ResponseInv, UncrowdedInv
<1> QED BY <1>1, <1>2, PTL DEF Spec

(* No stored text mixes the deltas of two responses, whatever their stream  *)
(* keys, while no key has been used three times and none of their buffers   *)
(* evicted: the second exchange poisons the buffer that it finds, and from  *)
(* then on nothing of either is appended to it or cut from it               *)
(* (intercept.go:362-401, 430-462).                                         *)
THEOREM ResponsesStayApart == Spec => [](Uncrowded => RowsUnmixed)
<1>1. ResponseInv => (Uncrowded => RowsUnmixed)
  BY DEF ResponseInv, UncrowdedInv
<1> QED BY <1>1, ResponseInvHolds, PTL

-----------------------------------------------------------------------------
(* What a step of one exchange leaves of another. *)
LEMMA OthersUntouched ==
    ASSUME TypeIntact, NEW e \in Exchanges, HostCalls(e) \/ HandlerRuns(e), NEW f \in Exchanges, f # e
    PROVE  /\ pc'[f] = pc[f] /\ task'[f] = task[f] /\ todo'[f] = todo[f] /\ whole'[f] = whole[f]
           /\ stage'[f] = stage[f] /\ pos'[f] = pos[f] /\ key'[f] = key[f] /\ resp'[f] = resp[f]
           /\ got'[f] = got[f] /\ stored'[f] = stored[f]
<1> DEFINE Same == /\ pc'[f] = pc[f] /\ task'[f] = task[f] /\ todo'[f] = todo[f] /\ whole'[f] = whole[f]
                   /\ stage'[f] = stage[f] /\ pos'[f] = pos[f] /\ key'[f] = key[f] /\ resp'[f] = resp[f]
                   /\ got'[f] = got[f] /\ stored'[f] = stored[f]
           Host == stage' = stage /\ pos' = pos /\ key' = key /\ resp' = resp
<1>1. /\ pc \in [Exchanges -> PCs] /\ todo \in [Exchanges -> Seq(Texts)] /\ whole \in [Exchanges -> Texts]
      /\ task \in [Exchanges -> {"none", "chunk", "last", "end", "answer", "full", "resend"}]
      /\ stage \in [Exchanges -> {"new", "open", "ended", "answered", "resent"}]
      /\ pos \in [Exchanges -> Nat] /\ key \in [Exchanges -> StreamKeys \cup {None}]
      /\ resp = [g \in Exchanges |-> resp[g]]
      /\ got \in [Exchanges -> [ingested : BOOLEAN, failed : BOOLEAN]] /\ stored \in [Exchanges -> BOOLEAN]
  BY DEF TypeIntact, LocalType, HostType
<1>2. ASSUME NEW k \in StreamKeys, NEW r \in Responses[e], HeaderInit(e, k, r) PROVE Same
  BY <1>1, <1>2 DEF HeaderInit, localVars
<1>3. CASE Chunk(e)
  BY <1>1, <1>3 DEF Chunk, Begin, Goto
<1>4. CASE Done(e)
  <2>1. /\ \E to, t : pc' = [pc EXCEPT ![e] = to] /\ task' = [task EXCEPT ![e] = t]
        /\ stage' = [stage EXCEPT ![e] = "ended"] /\ pos' = [pos EXCEPT ![e] = Size(e)]
        /\ UNCHANGED <<todo, whole, key, resp, got, stored>>
    BY <1>4 DEF Done, Begin, Goto
  <2> QED BY <1>1, <2>1
<1>5. CASE Respond(e) \/ Resend(e)
  BY <1>1, <1>5 DEF Respond, Resend, Begin, Goto
<1>6. ASSUME Host,
             pc' = pc \/ \E x : pc' = [pc EXCEPT ![e] = x], task' = task \/ \E x : task' = [task EXCEPT ![e] = x],
             todo' = todo \/ \E x : todo' = [todo EXCEPT ![e] = x], whole' = whole \/ \E x : whole' = [whole EXCEPT ![e] = x],
             got' = got \/ \E x : got' = [got EXCEPT ![e] = x], stored' = stored \/ \E x : stored' = [stored EXCEPT ![e] = x]
      PROVE  Same
  BY <1>1, <1>6
<1>7. ASSUME Host, NEW from, Return(e, from) \/ AfterDelta(e, from, TRUE) \/ AfterDelta(e, from, FALSE) PROVE Same
  <2>1. Return(e, from) => Same
    BY <1>6, <1>7 DEF Return, Goto
  <2>2. AfterDelta(e, from, TRUE) \/ AfterDelta(e, from, FALSE) => Same
    BY <1>6, <1>7, <2>1 DEF AfterDelta, Goto
  <2> QED BY <1>7, <2>1, <2>2
<1>8. ASSUME HandlerRuns(e) PROVE Same
  <2>1. Host
    BY <1>8 DEF HandlerRuns, hostVars, AppendDelta, OpenForDeltaFails, SegmentPoisoned, SegmentClean,
                ClaimWon, ClaimLost, ProcessText, ProcessFails, Ingested, NoteStored, NoteMark, Tombstone,
                Residual, OpenForResidualFails, FlushBuf, ClaimWhole, TakeWhole, PeekForWhole, ClaimTaken,
                ClearBuf, NeedEngine, OpenForResponse, OpenForResponseFails, Answer
  <2> HIDE DEF Same, Host
  <2>2. CASE AppendDelta(e) \/ OpenForDeltaFails(e) \/ SegmentPoisoned(e) \/ SegmentClean(e)
    BY <1>6, <1>7, <2>1, <2>2 DEF AppendDelta, OpenForDeltaFails, SegmentPoisoned, SegmentClean, Goto, localVars
  <2>3. CASE ClaimWon(e) \/ ClaimLost(e) \/ ProcessText(e) \/ ProcessFails(e)
    BY <1>6, <2>1, <2>3 DEF ClaimWon, ClaimLost, ProcessText, ProcessFails, Pop, Goto, localVars
  <2>4. CASE Ingested(e) \/ NoteStored(e) \/ NoteMark(e) \/ Tombstone(e)
    BY <1>6, <1>7, <2>1, <2>4 DEF Ingested, NoteStored, NoteMark, Tombstone, Goto, localVars
  <2>5. CASE Residual(e) \/ OpenForResidualFails(e) \/ FlushBuf(e) \/ ClaimWhole(e)
    BY <1>6, <2>1, <2>5 DEF Residual, OpenForResidualFails, FlushBuf, ClaimWhole, Goto, localVars
  <2>6. CASE TakeWhole(e) \/ PeekForWhole(e) \/ ClaimTaken(e) \/ ClearBuf(e)
    BY <1>6, <1>7, <2>1, <2>6 DEF TakeWhole, PeekForWhole, ClaimTaken, ClearBuf, Goto, localVars
  <2>7. CASE NeedEngine(e) \/ OpenForResponse(e) \/ OpenForResponseFails(e) \/ Answer(e)
    BY <1>6, <1>7, <2>1, <2>7 DEF NeedEngine, OpenForResponse, OpenForResponseFails, Answer, Goto, localVars
  <2> QED BY <1>8, <2>2, <2>3, <2>4, <2>5, <2>6, <2>7 DEF HandlerRuns
<1> QED BY <1>2, <1>3, <1>4, <1>5, <1>8 DEF HostCalls

(* Neither does the passing of time touch what is an exchange's own. *)
LEMMA TimeTouchesNone ==
    ASSUME NEW k \in StreamKeys, AgeBuf(k) \/ AgeMark(k)
    PROVE  /\ UNCHANGED <<pc, task, todo, whole, stage, pos, key, resp, got, stored>>
           /\ UNCHANGED <<seen, rows>>
BY DEF AgeBuf, AgeMark, hostVars, localVars, storeVars

-----------------------------------------------------------------------------
(* Which handler is at what. *)
Ingesting == {"ingest", "process"}
OfDelta   == {"append", "recheck", "note", "mark"} \cup Ingesting
OfEnd     == {"tomb", "residual", "flush", "claimwhole", "note", "mark", "take", "peek", "claimlast", "clear"} \cup Ingesting
OfAnswer  == {"hasbuf", "open", "flush", "claimwhole", "clear", "answer"} \cup Ingesting

Phase(e) ==
    /\ task[e] = "none"   => pc[e] = "idle"
    /\ task[e] = "chunk"  => pc[e] \in OfDelta /\ stage[e] = "open"
    /\ task[e] = "last"   => pc[e] \in OfDelta /\ stage[e] = "ended"
    /\ task[e] = "end"    => pc[e] \in OfEnd /\ stage[e] = "ended"
    /\ task[e] = "answer" => pc[e] \in OfAnswer /\ stage[e] = "answered"
    /\ task[e] = "full"   => pc[e] \in Ingesting /\ stage[e] = "answered"
    /\ task[e] = "resend" => pc[e] \in Ingesting /\ stage[e] = "resent"
    /\ pc[e] \notin Ingesting \cup {"recheck"} => todo[e] = << >>
    /\ pc[e] = "idle" => whole[e] = {}

Phases == \A e \in Exchanges : Phase(e)

LEMMA PhaseStep ==
    ASSUME TypeIntact, Phases, [Next]_vars
    PROVE  Phases'
<1>1. /\ pc \in [Exchanges -> PCs] /\ todo \in [Exchanges -> Seq(Texts)] /\ whole \in [Exchanges -> Texts]
      /\ task \in [Exchanges -> {"none", "chunk", "last", "end", "answer", "full", "resend"}]
      /\ stage \in [Exchanges -> {"new", "open", "ended", "answered", "resent"}]
      /\ \A e \in Exchanges : pc[e] = "idle" => task[e] = "none"
  BY DEF TypeIntact, LocalType, HostType, Control
<1>2. ASSUME NEW e \in Exchanges, HostCalls(e) \/ HandlerRuns(e), Phase(e)' PROVE Phases'
  <2>1. ASSUME NEW f \in Exchanges, f # e PROVE Phase(f)'
    BY <1>2, <2>1, OthersUntouched DEF Phases, Phase
  <2> QED BY <1>2, <2>1 DEF Phases
<1>3. ASSUME NEW e \in Exchanges, HostCalls(e) PROVE Phase(e)'
  <2>1. ASSUME NEW k \in StreamKeys, NEW r \in Responses[e], HeaderInit(e, k, r) PROVE Phase(e)'
    BY <1>1, <2>1 DEF HeaderInit, localVars, Phases, Phase
  <2>2. CASE Chunk(e)
    <3>1. /\ pc[e] = "idle" /\ stage[e] = "open" /\ stage' = stage /\ todo' = todo /\ whole' = whole
          /\ \/ pc' = pc /\ task' = task
             \/ pc' = [pc EXCEPT ![e] = "append"] /\ task' = [task EXCEPT ![e] = "chunk"]
      BY <2>2 DEF Chunk, Begin, Goto
    <3> QED BY <1>1, <3>1 DEF Phases, Phase, OfDelta, Ingesting
  <2>3. CASE Done(e)
    <3>1. /\ pc[e] = "idle" /\ stage' = [stage EXCEPT ![e] = "ended"] /\ todo' = todo /\ whole' = whole
          /\ \/ pc' = [pc EXCEPT ![e] = "append"] /\ task' = [task EXCEPT ![e] = "last"]
             \/ task' = [task EXCEPT ![e] = "end"] /\ \E to \in {"tomb", "clear", "residual"} : pc' = [pc EXCEPT ![e] = to]
      BY <2>3 DEF Done, Begin, Goto
    <3> QED BY <1>1, <3>1 DEF Phases, Phase, OfDelta, OfEnd, Ingesting
  <2>4. CASE Respond(e)
    BY <1>1, <2>4 DEF Respond, Begin, Goto, Phases, Phase, OfAnswer, Ingesting
  <2>5. CASE Resend(e)
    BY <1>1, <2>5 DEF Resend, Begin, Goto, Phases, Phase, Ingesting
  <2> QED BY <1>3, <2>1, <2>2, <2>3, <2>4, <2>5 DEF HostCalls
<1>4. ASSUME NEW e \in Exchanges, HandlerRuns(e) PROVE Phase(e)'
  <2>1. stage' = stage
    BY <1>4 DEF HandlerRuns, hostVars, AppendDelta, OpenForDeltaFails, SegmentPoisoned, SegmentClean,
                ClaimWon, ClaimLost, ProcessText, ProcessFails, Ingested, NoteStored, NoteMark, Tombstone,
                Residual, OpenForResidualFails, FlushBuf, ClaimWhole, TakeWhole, PeekForWhole, ClaimTaken,
                ClearBuf, NeedEngine, OpenForResponse, OpenForResponseFails, Answer
  <2>2. Phase(e)
    BY DEF Phases
  <2>3. ASSUME NEW from, Return(e, from) PROVE Phase(e)'
    BY <1>1, <2>3 DEF Return, Goto, Phase, Ingesting
  <2>4. ASSUME NEW from \in {"append", "recheck", "mark"}, AfterDelta(e, from, TRUE) \/ AfterDelta(e, from, FALSE)
        PROVE  Phase(e)'
    <3>1. CASE Return(e, from)
      BY <2>3, <3>1
    <3>2. CASE ~Return(e, from)
      <4>1. /\ task[e] = "last" /\ pc' = [pc EXCEPT ![e] = "residual"] /\ task' = [task EXCEPT ![e] = "end"]
            /\ todo' = [todo EXCEPT ![e] = << >>]
        BY <2>4, <3>2 DEF AfterDelta, Goto
      <4> QED BY <1>1, <2>1, <2>2, <4>1 DEF Phase, OfEnd, Ingesting
    <3> QED BY <3>1, <3>2
  <2>5. ASSUME NEW to \in PCs, pc' = [pc EXCEPT ![e] = to], task' = task, to # "idle",
               task[e] \in {"chunk", "last"} => to \in OfDelta, task[e] = "end" => to \in OfEnd,
               task[e] = "answer" => to \in OfAnswer, task[e] \in {"full", "resend"} => to \in Ingesting,
               task[e] # "none", to \notin Ingesting \cup {"recheck"} => todo'[e] = << >>
        PROVE  Phase(e)'
    BY <1>1, <2>1, <2>2, <2>5 DEF Phase
  <2>6. /\ pc[e] = "append"    => task[e] \in {"chunk", "last"}
        /\ pc[e] = "recheck"   => task[e] \in {"chunk", "last"}
        /\ pc[e] = "note"      => task[e] \in {"chunk", "last", "end"}
        /\ pc[e] = "mark"      => task[e] \in {"chunk", "last", "end"}
        /\ pc[e] \in {"tomb", "residual", "take", "peek", "claimlast"} => task[e] = "end"
        /\ pc[e] \in {"flush", "claimwhole", "clear"} => task[e] \in {"end", "answer"}
        /\ pc[e] \in {"hasbuf", "open", "answer"} => task[e] = "answer"
        /\ pc[e] \in Ingesting => task[e] # "none"
        /\ pc[e] \notin Ingesting \cup {"recheck"} => todo[e] = << >>
    BY <1>1, <2>2 DEF Phase, OfDelta, OfEnd, OfAnswer, Ingesting, PCs
  <2>7. CASE AppendDelta(e)
    <3>1. CASE AfterDelta(e, "append", TRUE)
      BY <2>4, <3>1
    <3>2. CASE ~AfterDelta(e, "append", TRUE)
      <4>1. pc[e] = "append" /\ pc' = [pc EXCEPT ![e] = "recheck"] /\ task' = task
        BY <2>7, <3>2 DEF AppendDelta, Goto
      <4> QED BY <2>5, <2>6, <4>1 DEF OfDelta, PCs
    <3> QED BY <3>1, <3>2
  <2>8. CASE OpenForDeltaFails(e) \/ SegmentPoisoned(e)
    BY <2>4, <2>8 DEF OpenForDeltaFails, SegmentPoisoned
  <2>9. CASE SegmentClean(e)
    BY <2>5, <2>6, <2>9 DEF SegmentClean, Goto, localVars, OfDelta, Ingesting, PCs
  <2>10. CASE ClaimWon(e)
    <3>1. pc[e] = "ingest" /\ pc' = [pc EXCEPT ![e] = "process"] /\ task' = task
      BY <2>10 DEF ClaimWon, Goto, localVars
    <3> QED BY <2>5, <2>6, <3>1 DEF OfDelta, OfEnd, OfAnswer, Ingesting, PCs
  <2>11. CASE ClaimLost(e) \/ ProcessText(e) \/ ProcessFails(e)
    <3>1. pc[e] \in Ingesting /\ pc' = [pc EXCEPT ![e] = "ingest"] /\ task' = task
      BY <1>1, <2>11 DEF ClaimLost, ProcessText, ProcessFails, Goto, Ingesting
    <3> QED BY <2>5, <2>6, <3>1 DEF OfDelta, OfEnd, OfAnswer, Ingesting, PCs
  <2>12. CASE Ingested(e)
    <3>1. CASE Return(e, "ingest")
      BY <2>3, <3>1
    <3>2. CASE ~Return(e, "ingest")
      <4>1. /\ todo'[e] = << >> /\ task' = task
            /\ \/ task[e] \in {"chunk", "last"} /\ pc' = [pc EXCEPT ![e] = "note"]
               \/ task[e] \in {"end", "answer"} /\ pc' = [pc EXCEPT ![e] = "claimwhole"]
        BY <2>12, <3>2 DEF Ingested, Goto, localVars
      <4> QED BY <2>5, <4>1 DEF OfDelta, OfEnd, OfAnswer, PCs
    <3> QED BY <3>1, <3>2
  <2>13. CASE NoteStored(e)
    BY <2>5, <2>6, <2>13 DEF NoteStored, Goto, localVars, OfDelta, OfEnd, Ingesting, PCs
  <2>14. CASE NoteMark(e)
    <3>1. CASE AfterDelta(e, "mark", TRUE)
      BY <2>4, <3>1
    <3>2. CASE ~AfterDelta(e, "mark", TRUE)
      <4>1. pc[e] = "mark" /\ task[e] = "end" /\ pc' = [pc EXCEPT ![e] = "take"] /\ task' = task /\ todo' = todo
        BY <2>14, <3>2 DEF NoteMark, Goto, localVars
      <4> QED BY <2>5, <2>6, <4>1 DEF OfEnd, Ingesting, PCs
    <3> QED BY <3>1, <3>2
  <2>15. CASE Tombstone(e) \/ OpenForResponseFails(e)
    BY <2>3, <2>15 DEF Tombstone, OpenForResponseFails
  <2>16. CASE FlushBuf(e)
    <3>1. /\ pc[e] = "flush" /\ task' = task
          /\ \/ pc' = [pc EXCEPT ![e] = "ingest"]
             \/ pc' = [pc EXCEPT ![e] = IF task[e] = "end" THEN "take" ELSE "clear"] /\ todo' = todo
      BY <2>16 DEF FlushBuf, Goto
    <3> QED BY <2>5, <2>6, <3>1 DEF OfEnd, OfAnswer, Ingesting, PCs
  <2>17. CASE Residual(e) \/ OpenForResidualFails(e) \/ TakeWhole(e) \/ PeekForWhole(e) \/ ClaimTaken(e)
    <3>1. /\ pc[e] \in {"residual", "take", "peek", "claimlast"} /\ task' = task /\ todo' = todo
          /\ \E to \in {"flush", "take", "peek", "claimlast", "clear"} : pc' = [pc EXCEPT ![e] = to]
      BY <2>17 DEF Residual, OpenForResidualFails, TakeWhole, PeekForWhole, ClaimTaken, Goto, localVars
    <3>2. task[e] = "end" /\ todo'[e] = << >>
      BY <2>6, <3>1 DEF Ingesting
    <3> QED BY <2>5, <3>1, <3>2 DEF OfEnd, Ingesting, PCs
  <2>18. CASE ClaimWhole(e)
    <3>1. /\ pc[e] = "claimwhole" /\ task' = task /\ todo' = todo
          /\ pc' = [pc EXCEPT ![e] = IF task[e] = "end" THEN "note" ELSE "clear"]
      BY <2>18 DEF ClaimWhole, Goto, localVars
    <3>2. task[e] \in {"end", "answer"} /\ todo'[e] = << >>
      BY <2>6, <3>1 DEF Ingesting
    <3> QED BY <2>5, <3>1, <3>2 DEF OfEnd, OfAnswer, Ingesting, PCs
  <2>19. CASE ClearBuf(e)
    <3>1. CASE Return(e, "clear")
      BY <2>3, <3>1
    <3>2. CASE ~Return(e, "clear")
      <4>1. pc[e] = "clear" /\ task[e] = "answer" /\ pc' = [pc EXCEPT ![e] = "answer"] /\ task' = task /\ todo' = todo
        BY <2>19, <3>2 DEF ClearBuf, Goto, localVars
      <4> QED BY <2>5, <2>6, <4>1 DEF OfAnswer, Ingesting, PCs
    <3> QED BY <3>1, <3>2
  <2>20. CASE NeedEngine(e) \/ OpenForResponse(e)
    <3>1. /\ pc[e] \in {"hasbuf", "open"} /\ task' = task /\ todo' = todo
          /\ \E to \in {"open", "flush", "answer"} : pc' = [pc EXCEPT ![e] = to]
      BY <2>20 DEF NeedEngine, OpenForResponse, Goto, localVars
    <3>2. task[e] = "answer" /\ todo'[e] = << >>
      BY <2>6, <3>1 DEF Ingesting
    <3> QED BY <2>5, <3>1, <3>2 DEF OfAnswer, Ingesting, PCs
  <2>21. CASE Answer(e)
    <3>1. CASE Return(e, "answer")
      BY <2>3, <3>1
    <3>2. CASE ~Return(e, "answer")
      <4>1. /\ pc[e] = "answer" /\ pc' = [pc EXCEPT ![e] = "ingest"] /\ task' = [task EXCEPT ![e] = "full"]
        BY <2>21, <3>2 DEF Answer, Goto
      <4> QED BY <1>1, <2>1, <2>2, <2>6, <4>1 DEF Phase, Ingesting
    <3> QED BY <3>1, <3>2
  <2> QED BY <1>4, <2>7, <2>8, <2>9, <2>10, <2>11, <2>12, <2>13, <2>14, <2>15, <2>16, <2>17, <2>18, <2>19, <2>20, <2>21
          DEF HandlerRuns
<1>5. ASSUME NEW k \in StreamKeys, AgeBuf(k) \/ AgeMark(k) PROVE Phases'
  BY <1>5, TimeTouchesNone DEF Phases, Phase
<1>6. CASE UNCHANGED vars
  BY <1>6 DEF vars, hostVars, localVars, Phases, Phase
<1> QED BY <1>2, <1>3, <1>4, <1>5, <1>6 DEF Next
-----------------------------------------------------------------------------
(* The buffer of a key, as a handler finds it. *)
BufAt(k) == IF bufs[k] = None THEN NewBuf ELSE bufs[k]

LEMMA BufAtType ==
    ASSUME TypeIntact, NEW k \in StreamKeys
    PROVE  /\ BufAt(k) \in Buffers
           /\ bufs[k] # None => bufs[k] \in Buffers /\ BufAt(k) = bufs[k]
           /\ bufs[k] = None => BufAt(k) = NewBuf /\ Held(BufAt(k)) = {} /\ ~BufAt(k).conflicted
<1>1. bufs[k] \in Buffers \cup {None}
  BY DEF TypeIntact, TableOf
<1>2. NewBuf \in Buffers /\ Held(NewBuf) = {} /\ ~NewBuf.conflicted
  BY DEF NewBuf, Buffers, Held, Texts
<1> QED BY <1>1, <1>2 DEF BufAt

LEMMA HeldType ==
    ASSUME NEW b \in Buffers
    PROVE  /\ Held(b) \in Texts
           /\ b.asst \in Texts /\ b.reason \in Texts /\ b.tools \in Texts /\ b.whole \in Texts
           /\ b.asst \subseteq Held(b) /\ b.reason \subseteq Held(b)
           /\ b.tools \subseteq Held(b) /\ b.whole \subseteq Held(b)
BY DEF Buffers, Held, Texts

(* What the append of a delta does. *)
AppendEffect(e, entry, seg) ==
    LET k == key[e]
        d == <<e, pos[e]>>
        b == BufAt(k)
    IN  /\ entry \in Buffers /\ PutBuf(k, entry)
        /\ entry.conflicted = b.conflicted
        /\ Held(entry) \subseteq Held(b) \cup {d}
        /\ entry.whole \subseteq b.whole \cup {x \in {d} : KindOf(x) = "text"}
        /\ KindOf(d) # "text" => entry.asst = b.asst
        /\ seg \in Texts /\ seg # {} /\ seg \subseteq Held(b) \cup {d}
        /\ KindOf(d) = "text" => seg = b.asst \cup {d}
        /\ \/ /\ todo' = [todo EXCEPT ![e] = << >>]
              /\ KindOf(d) = "text" => entry.asst = seg
           \/ todo' = [todo EXCEPT ![e] = ToIngest(seg, KindOf(d))]

LEMMA AppendDeltaIs ==
    ASSUME TypeIntact, Phases, NEW e \in Exchanges, AppendDelta(e)
    PROVE  /\ pc[e] = "append" /\ key[e] \in StreamKeys /\ stage[e] \in {"open", "ended"}
           /\ pos[e] \in 1..Size(e) /\ <<e, pos[e]>> \in Deltas
           /\ KindOf(<<e, pos[e]>>) \in {"text", "reasoning", "tool"}
           /\ \E entry, seg : AppendEffect(e, entry, seg)
           /\ pc'[e] \in {"recheck", "idle", "residual"}
           /\ task'[e] = "end" => pc'[e] = "residual"
           /\ \A f \in Exchanges : whole'[f] \in {whole[f], {}}
           /\ UNCHANGED <<storeVars, hostVars>>
<1> DEFINE k == key[e]
           d == <<e, pos[e]>>
           b == IF bufs[k] = None THEN NewBuf ELSE [bufs[k] EXCEPT !.aged = FALSE]
           segment == (IF KindOf(d) = "text" THEN b.asst ELSE b.reason) \cup {d}
           kept == IF Cuts(d) THEN {} ELSE segment
           entry == CASE KindOf(d) = "tool" -> [b EXCEPT !.tools = @ \cup {d}]
                      [] KindOf(d) = "reasoning" -> [b EXCEPT !.reason = kept]
                      [] KindOf(d) = "text" -> [b EXCEPT !.asst = kept, !.whole = @ \cup {d}]
<1>1. pc[e] = "append" /\ k \in StreamKeys /\ stage[e] # "new" /\ pos[e] \in 1..Size(e)
  BY BusyHasKey DEF AppendDelta, TypeIntact, Control
<1>2. d \in Deltas /\ KindOf(d) \in {"text", "reasoning", "tool"} /\ Cuts(d) \in BOOLEAN
  BY <1>1, DeltaType
<1>3. task[e] \in {"chunk", "last"} /\ stage[e] \in {"open", "ended"}
  BY <1>1 DEF Phases, Phase, OfEnd, OfAnswer, Ingesting, TypeIntact, LocalType
<1>4. /\ pc \in [Exchanges -> PCs] /\ whole \in [Exchanges -> Texts] /\ todo \in [Exchanges -> Seq(Texts)]
      /\ task \in [Exchanges -> {"none", "chunk", "last", "end", "answer", "full", "resend"}]
      /\ todo[e] = << >>
  BY <1>1 DEF TypeIntact, LocalType, Phases, Phase, Ingesting
<1>5. /\ b \in Buffers /\ Held(b) = Held(BufAt(k)) /\ b.conflicted = BufAt(k).conflicted
      /\ b.asst = BufAt(k).asst /\ b.whole = BufAt(k).whole
  <2>1. CASE bufs[k] = None
    BY <1>1, <2>1, BufAtType
  <2>2. CASE bufs[k] # None
    <3>1. bufs[k] \in Buffers /\ BufAt(k) = bufs[k]
      BY <1>1, <2>2, BufAtType
    <3> QED BY <2>2, <3>1 DEF Held, Buffers
  <2> QED BY <2>1, <2>2
<1>6. PutBuf(k, entry)
  BY DEF AppendDelta
<1>7. \/ AfterDelta(e, "append", TRUE) /\ (KindOf(d) = "tool" \/ ~Cuts(d))
      \/ /\ pc' = [pc EXCEPT ![e] = "recheck"] /\ task' = task /\ whole' = whole
         /\ todo' = [todo EXCEPT ![e] = ToIngest(segment, KindOf(d))]
  BY DEF AppendDelta, Goto
<1>8. UNCHANGED <<storeVars, hostVars>>
  BY DEF AppendDelta
<1> HIDE DEF d, b
<1>9. /\ segment \in Texts /\ segment # {} /\ segment \subseteq Held(b) \cup {d}
      /\ kept \in Texts /\ kept \subseteq Held(b) \cup {d}
      /\ b.tools \cup {d} \in Texts /\ b.whole \cup {d} \in Texts
      /\ KindOf(d) = "text" => segment = b.asst \cup {d}
      /\ ~Cuts(d) => kept = segment
  BY <1>2, <1>5, HeldType DEF Texts
<1> HIDE DEF segment, kept
<1>10. /\ entry \in Buffers /\ entry.conflicted = b.conflicted /\ Held(entry) \subseteq Held(b) \cup {d}
       /\ entry.whole \subseteq b.whole \cup {x \in {d} : KindOf(x) = "text"}
       /\ KindOf(d) # "text" => entry.asst = b.asst
       /\ KindOf(d) = "text" /\ ~Cuts(d) => entry.asst = segment
  <2>1. CASE KindOf(d) = "tool"
    BY <1>5, <1>9, <2>1 DEF Buffers, Held
  <2>2. CASE KindOf(d) = "reasoning"
    BY <1>5, <1>9, <2>2 DEF Buffers, Held
  <2>3. CASE KindOf(d) = "text"
    BY <1>5, <1>9, <2>3 DEF Buffers, Held
  <2> QED BY <1>2, <2>1, <2>2, <2>3
<1> HIDE DEF entry
<1>11. ASSUME AfterDelta(e, "append", TRUE)
       PROVE  /\ todo' = [todo EXCEPT ![e] = << >>]
              /\ pc'[e] \in {"idle", "residual"} /\ (task'[e] = "end" => pc'[e] = "residual")
              /\ \A f \in Exchanges : whole'[f] \in {whole[f], {}}
  BY <1>4, <1>11 DEF AfterDelta, Return, Goto
<1>12. AppendEffect(e, entry, segment)
  BY <1>2, <1>5, <1>6, <1>7, <1>9, <1>10, <1>11 DEF AppendEffect, d
<1>13. /\ pc'[e] \in {"recheck", "idle", "residual"}
       /\ task'[e] = "end" => pc'[e] = "residual"
       /\ \A f \in Exchanges : whole'[f] \in {whole[f], {}}
  BY <1>3, <1>4, <1>7, <1>11
<1> QED BY <1>1, <1>2, <1>3, <1>8, <1>12, <1>13 DEF d

(* Where what a buffer holds comes from. *)
LEMMA BufsFrom ==
    ASSUME TypeIntact, Phases, [Next]_vars, NEW k \in StreamKeys, bufs'[k] # None
    PROVE  \/ bufs[k] # None /\ bufs'[k].conflicted = bufs[k].conflicted /\ Held(bufs'[k]) \subseteq Held(bufs[k])
           \/ \E e \in Exchanges : \E r \in Responses[e] :
                 /\ HeaderInit(e, k, r) /\ Held(bufs'[k]) \subseteq Held(BufAt(k))
                 /\ bufs'[k].conflicted => bufs[k] # None
           \/ \E e \in Exchanges :
                 /\ AppendDelta(e) /\ key[e] = k /\ Held(bufs'[k]) \subseteq Held(BufAt(k)) \cup {<<e, pos[e]>>}
                 /\ bufs'[k].conflicted = BufAt(k).conflicted
<1> DEFINE Less == bufs[k] # None /\ bufs'[k].conflicted = bufs[k].conflicted /\ Held(bufs'[k]) \subseteq Held(bufs[k])
<1>1. /\ bufs \in [StreamKeys -> Buffers \cup {None}] /\ bufs[k] \in Buffers \cup {None}
      /\ bufs[k] = None => BufAt(k) = NewBuf /\ Held(BufAt(k)) = {} /\ ~BufAt(k).conflicted
      /\ bufs[k] # None => BufAt(k) = bufs[k]
  BY BufAtType DEF TypeIntact, TableOf
<1>2. CASE bufs' = bufs
  BY <1>2
<1>3. ASSUME NEW j \in StreamKeys, NEW x, PutBuf(j, x) PROVE bufs'[k] = IF j = k THEN x ELSE bufs[k]
  BY <1>3 DEF PutBuf, Put
<1>4. ASSUME NEW j \in StreamKeys, NEW x, bufs' = [bufs EXCEPT ![j] = x], j # k PROVE bufs'[k] = bufs[k]
  BY <1>1, <1>4
<1>5. ASSUME NEW e \in Exchanges, NEW j \in StreamKeys, NEW r \in Responses[e], HeaderInit(e, j, r), j # k
      PROVE  Less
  <2>1. \E x : PutBuf(j, x)
    BY <1>5 DEF HeaderInit
  <2> QED BY <1>3, <1>5, <2>1
<1>6. ASSUME NEW e \in Exchanges, NEW r \in Responses[e], HeaderInit(e, k, r)
      PROVE  Held(bufs'[k]) \subseteq Held(BufAt(k)) /\ (bufs'[k].conflicted => bufs[k] # None)
  <2>1. CASE bufs[k] # None /\ bufs'[k] = [bufs[k] EXCEPT !.conflicted = TRUE, !.aged = FALSE]
    BY <1>1, <2>1 DEF Held, Buffers
  <2>2. CASE bufs'[k] = NewBuf
    BY <2>2 DEF Held, NewBuf
  <2> QED BY <1>3, <1>6, <2>1, <2>2 DEF HeaderInit
<1>7. ASSUME NEW e \in Exchanges, AppendDelta(e)
      PROVE  \/ Less
             \/ /\ key[e] = k /\ Held(bufs'[k]) \subseteq Held(BufAt(k)) \cup {<<e, pos[e]>>}
                /\ bufs'[k].conflicted = BufAt(k).conflicted
  <2>1. PICK entry, seg : AppendEffect(e, entry, seg)
    BY <1>7, AppendDeltaIs
  <2>2. PutBuf(key[e], entry) /\ key[e] \in StreamKeys
    BY <1>7, <2>1, AppendDeltaIs DEF AppendEffect
  <2>3. CASE key[e] = k
    <3>1. bufs'[k] = entry
      BY <1>3, <2>2, <2>3
    <3> QED BY <2>1, <2>3, <3>1 DEF AppendEffect
  <2>4. CASE key[e] # k
    <3>1. bufs'[k] = bufs[k]
      BY <1>3, <2>2, <2>4
    <3> QED BY <3>1
  <2> QED BY <2>3, <2>4
<1>8. ASSUME NEW e \in Exchanges, NoteStored(e) \/ FlushBuf(e) \/ TakeWhole(e) \/ ClearBuf(e) PROVE Less
  <2> DEFINE j == key[e]
  <2>1. j \in StreamKeys
    BY <1>8, BusyHasKey DEF NoteStored, FlushBuf, TakeWhole, ClearBuf, Return, Goto
  <2>2. CASE bufs' = bufs
    BY <2>2
  <2>3. CASE bufs[j] # None /\ bufs' = [bufs EXCEPT ![j].storedAny = TRUE]
    BY <1>1, <2>1, <2>3 DEF Held, Buffers
  <2>4. CASE bufs[j] # None /\ bufs' = [bufs EXCEPT ![j].whole = {}]
    BY <1>1, <2>1, <2>4 DEF Held, Buffers
  <2>5. CASE bufs[j] # None /\ bufs' = [bufs EXCEPT ![j] = [bufs[j] EXCEPT !.asst = {}, !.reason = {},
                                                                           !.tools = {}, !.whole = {}]]
    BY <1>1, <2>1, <2>5 DEF Held, Buffers
  <2>6. CASE bufs' = [bufs EXCEPT ![j] = None]
    BY <1>1, <2>1, <2>6
  <2> QED BY <1>8, <2>2, <2>3, <2>4, <2>5, <2>6 DEF NoteStored, FlushBuf, TakeWhole, ClearBuf
<1>9. ASSUME NEW j \in StreamKeys, AgeBuf(j) PROVE Less
  <2>1. bufs[j] # None /\ bufs' = [bufs EXCEPT ![j].aged = TRUE]
    BY <1>9 DEF AgeBuf, streamConflicted
  <2> QED BY <1>1, <2>1 DEF Held, Buffers
<1> HIDE DEF Less
<1>10. CASE BufWriters
  BY <1>5, <1>6, <1>7, <1>8, <1>9, <1>10 DEF BufWriters, Less
<1>11. CASE UNCHANGED streamVars
  BY <1>2, <1>11 DEF streamVars, Less
<1> QED BY <1>10, <1>11, BufsWritten

(* Every delta that is buffered, being ingested or marked is of an exchange *)
(* that has begun, and on the key it is kept for; a buffer that two         *)
(* exchanges have not shared is not poisoned.                               *)
OfKey(t, k) == \A d \in t : key[d[1]] = k
TextsOf(k)  == {t \in Texts : OfKey(t, k)}

BufsOwned ==
    /\ \A k \in StreamKeys : bufs[k] # None => (\E e \in Exchanges : key[e] = k) /\ Held(bufs[k]) \in TextsOf(k)
    /\ \A k \in StreamKeys :
          streamConflicted(k) => \E e, f \in Exchanges : e # f /\ key[e] = k /\ key[f] = k
TodoOwned  == \A e \in Exchanges : todo[e] \in Seq(TextsOf(key[e]))
WholeOwned == \A e \in Exchanges : whole[e] \in TextsOf(key[e])
MarksOwned == \A t \in seen.marks : \E k \in StreamKeys : t \in TextsOf(k)
Owned      == BufsOwned /\ TodoOwned /\ WholeOwned /\ MarksOwned

(* A text stays its key's. *)
LEMMA TextsStay ==
    ASSUME TypeIntact, [Next]_vars, NEW k \in StreamKeys
    PROVE  TextsOf(k) \subseteq {t \in Texts : \A d \in t : key'[d[1]] = k}
<1>1. \A e \in Exchanges : key[e] # None => key'[e] = key[e]
  BY KeysStay
<1>2. k # None
  BY NoneAssumption
<1> QED BY <1>1, <1>2 DEF TextsOf, OfKey, Texts, Deltas

LEMMA BufsOwnedStep ==
    ASSUME TypeIntact, Phases, BufsOwned, [Next]_vars
    PROVE  BufsOwned'
<1>1. TypeIntact'
  BY TypeStep
<1>2. \A e \in Exchanges : key[e] # None => key'[e] = key[e]
  BY KeysStay
<1>3. ASSUME NEW k \in StreamKeys, bufs'[k] # None
      PROVE  /\ \E e \in Exchanges : key'[e] = k
             /\ Held(bufs'[k]) \in {t \in Texts : \A d \in t : key'[d[1]] = k}
             /\ bufs'[k].conflicted => \E e, f \in Exchanges : e # f /\ key'[e] = k /\ key'[f] = k
  <2>1. k # None /\ TextsOf(k) \subseteq {t \in Texts : \A d \in t : key'[d[1]] = k}
    BY NoneAssumption, TextsStay
  <2>2. Held(bufs'[k]) \in Texts
    <3>1. bufs'[k] \in Buffers
      BY <1>1, <1>3 DEF TypeIntact, TableOf
    <3> QED BY <3>1, HeldType
  <2>3. Held(BufAt(k)) \in TextsOf(k)
    <3>1. CASE bufs[k] = None
      BY <3>1, BufAtType DEF TextsOf, Texts, OfKey
    <3>2. CASE bufs[k] # None
      BY <3>2 DEF BufAt, BufsOwned
    <3> QED BY <3>1, <3>2
  <2>4. CASE bufs[k] # None /\ bufs'[k].conflicted = bufs[k].conflicted /\ Held(bufs'[k]) \subseteq Held(bufs[k])
    <3>1. \E e \in Exchanges : key[e] = k
      BY <2>4 DEF BufsOwned
    <3>2. bufs[k].conflicted => \E e, f \in Exchanges : e # f /\ key[e] = k /\ key[f] = k
      BY <2>4 DEF BufsOwned, streamConflicted
    <3>3. Held(bufs[k]) \in TextsOf(k)
      BY <2>4 DEF BufsOwned
    <3> QED BY <1>2, <2>1, <2>2, <2>4, <3>1, <3>2, <3>3
  <2>5. ASSUME NEW e \in Exchanges, NEW r \in Responses[e], HeaderInit(e, k, r),
               Held(bufs'[k]) \subseteq Held(BufAt(k)), bufs'[k].conflicted => bufs[k] # None
        PROVE  /\ \E f \in Exchanges : key'[f] = k
               /\ Held(bufs'[k]) \in {t \in Texts : \A d \in t : key'[d[1]] = k}
               /\ bufs'[k].conflicted => \E f, g \in Exchanges : f # g /\ key'[f] = k /\ key'[g] = k
    <3>1. key[e] = None /\ key'[e] = k
      BY <2>5 DEF HeaderInit, TypeIntact, HostType
    <3>2. bufs'[k].conflicted => \E g \in Exchanges : g # e /\ key[g] = k
      BY <2>1, <2>5, <3>1 DEF BufsOwned
    <3> QED BY <1>2, <2>1, <2>2, <2>3, <2>5, <3>1, <3>2
  <2>6. ASSUME NEW e \in Exchanges, AppendDelta(e), key[e] = k,
               Held(bufs'[k]) \subseteq Held(BufAt(k)) \cup {<<e, pos[e]>>},
               bufs'[k].conflicted = BufAt(k).conflicted
        PROVE  /\ \E f \in Exchanges : key'[f] = k
               /\ Held(bufs'[k]) \in {t \in Texts : \A d \in t : key'[d[1]] = k}
               /\ bufs'[k].conflicted => \E f, g \in Exchanges : f # g /\ key'[f] = k /\ key'[g] = k
    <3>1. key'[e] = k
      BY <1>2, <2>1, <2>6
    <3>2. bufs'[k].conflicted => \E f, g \in Exchanges : f # g /\ key[f] = k /\ key[g] = k
      BY <2>6, BufAtType DEF BufsOwned, streamConflicted
    <3> QED BY <1>2, <2>1, <2>2, <2>3, <2>6, <3>1, <3>2
  <2> QED BY <1>3, <2>4, <2>5, <2>6, BufsFrom
<1> QED BY <1>3 DEF BufsOwned, TextsOf, OfKey, streamConflicted

(* A sequence of texts keeps its type when the texts keep theirs. *)
LEMMA SeqWider ==
    ASSUME NEW S, NEW T, S \subseteq T, NEW s \in Seq(S)
    PROVE  s \in Seq(T)
OBVIOUS

LEMMA TailType ==
    ASSUME NEW S, NEW s \in Seq(S), s # << >>
    PROVE  Head(s) \in S /\ Tail(s) \in Seq(S)
OBVIOUS

LEMMA TextIsOwned ==
    ASSUME TypeIntact, NEW e \in Exchanges, stage[e] # "new"
    PROVE  Text(e) \in TextsOf(key[e])
BY TextType DEF Text, TextsOf, OfKey

LEMMA LocalOwnedStep ==
    ASSUME TypeIntact, Phases, BufsOwned, TodoOwned, WholeOwned, [Next]_vars
    PROVE  TodoOwned' /\ WholeOwned'
<1> DEFINE After(k) == {t \in Texts : \A d \in t : key'[d[1]] = k}
           Fine(e) == todo'[e] \in Seq(After(key'[e])) /\ whole'[e] \in After(key'[e])
<1>1. \A e \in Exchanges : key[e] # None => key'[e] = key[e]
  BY KeysStay
<1>2. /\ key \in [Exchanges -> StreamKeys \cup {None}] /\ todo \in [Exchanges -> Seq(Texts)]
      /\ whole \in [Exchanges -> Texts] /\ \A e \in Exchanges : pc[e] # "idle" => key[e] \in StreamKeys
      /\ None \notin StreamKeys
  BY BusyHasKey, NoneAssumption DEF TypeIntact, HostType, LocalType
<1>3. ASSUME NEW e \in Exchanges, key[e] \in StreamKeys
      PROVE  TextsOf(key[e]) \subseteq After(key'[e])
  <2>1. key'[e] = key[e]
    BY <1>1, <1>2, <1>3
  <2> QED BY <1>3, <2>1, TextsStay
<1>4. ASSUME NEW e \in Exchanges, key[e] = None PROVE todo[e] = << >> /\ whole[e] = {}
  BY <1>2, <1>4 DEF Phases, Phase, Ingesting
<1>5. ASSUME NEW e \in Exchanges
      PROVE  /\ todo[e] \in Seq(After(key'[e])) /\ whole[e] \in After(key'[e])
             /\ << >> \in Seq(After(key'[e])) /\ {} \in After(key'[e])
  <2>1. << >> \in Seq(After(key'[e])) /\ {} \in After(key'[e])
    BY DEF Texts
  <2>2. CASE key[e] = None
    BY <1>4, <2>1, <2>2
  <2>3. CASE key[e] # None
    <3>1. TextsOf(key[e]) \subseteq After(key'[e])
      BY <1>2, <1>3, <2>3
    <3>2. todo[e] \in Seq(TextsOf(key[e])) /\ whole[e] \in TextsOf(key[e])
      BY DEF TodoOwned, WholeOwned
    <3> HIDE DEF After
    <3>3. todo[e] \in Seq(After(key'[e]))
      BY <3>1, <3>2, SeqWider
    <3> QED BY <2>1, <3>1, <3>2, <3>3
  <2> QED BY <2>2, <2>3
<1> HIDE DEF After
<1>6. ASSUME NEW e \in Exchanges, todo'[e] \in {todo[e], << >>}, whole'[e] \in {whole[e], {}} PROVE Fine(e)
  BY <1>5, <1>6
<1>7. ASSUME NEW e \in Exchanges, NEW from, Return(e, from) \/ AfterDelta(e, from, TRUE) \/ AfterDelta(e, from, FALSE)
      PROVE  Fine(e)
  <2>1. todo'[e] = << >> /\ whole'[e] \in {whole[e], {}}
    BY <1>2, <1>7 DEF AfterDelta, Return
  <2> QED BY <1>6, <2>1
<1>8. ASSUME NEW e \in Exchanges, pc[e] # "idle", NEW t \in Seq(TextsOf(key[e])), todo'[e] = t,
             whole'[e] \in {whole[e], {}} \cup TextsOf(key[e])
      PROVE  Fine(e)
  <2>1. TextsOf(key[e]) \subseteq After(key'[e])
    BY <1>2, <1>3, <1>8
  <2>2. t \in Seq(After(key'[e]))
    BY <1>8, <2>1, SeqWider
  <2> QED BY <1>5, <1>8, <2>1, <2>2
<1>9. ASSUME NEW e \in Exchanges, HostCalls(e) PROVE Fine(e)
  <2>1. CASE Resend(e)
    <3>1. stage[e] # "new" /\ todo'[e] = <<Text(e)>> /\ whole'[e] = whole[e] /\ key' = key
      BY <1>2, <2>1 DEF Resend, Delivered
    <3>2. Text(e) \in TextsOf(key[e]) /\ key[e] \in StreamKeys
      BY <3>1, TextIsOwned DEF TypeIntact, HostType
    <3>3. Text(e) \in After(key'[e])
      BY <1>3, <3>2
    <3> QED BY <1>5, <3>1, <3>3
  <2>2. CASE ~Resend(e)
    <3>1. todo'[e] = todo[e] /\ whole'[e] = whole[e]
      BY <1>9, <2>2 DEF HostCalls, HeaderInit, Chunk, Done, Respond, localVars
    <3> QED BY <1>6, <3>1
  <2> QED BY <2>1, <2>2
<1>10. ASSUME NEW e \in Exchanges, AppendDelta(e) PROVE Fine(e)
  <2>1. PICK entry, seg : AppendEffect(e, entry, seg)
    BY <1>10, AppendDeltaIs
  <2> DEFINE d == <<e, pos[e]>>
  <2>2. pc[e] = "append" /\ key[e] \in StreamKeys /\ d \in Deltas /\ whole'[e] \in {whole[e], {}}
    BY <1>10, AppendDeltaIs
  <2>3. Held(BufAt(key[e])) \in TextsOf(key[e])
    BY <2>2, BufAtType DEF BufsOwned, TextsOf, OfKey, Texts
  <2>4. seg \in TextsOf(key[e])
    BY <2>1, <2>3 DEF AppendEffect, TextsOf, OfKey
  <2>5. todo'[e] = << >> \/ todo'[e] = ToIngest(seg, KindOf(d))
    BY <1>2, <2>1 DEF AppendEffect
  <2>6. todo'[e] \in Seq(TextsOf(key[e]))
    <3>1. << >> \in Seq(TextsOf(key[e])) /\ ToIngest(seg, KindOf(d)) \in Seq(TextsOf(key[e]))
      BY <2>4, ToIngestType
    <3> QED BY <2>5, <3>1
  <2> QED BY <1>8, <2>2, <2>6
<1>11. ASSUME NEW e \in Exchanges, FlushBuf(e) PROVE Fine(e)
  <2> DEFINE k == key[e]
             b == BufAt(k)
             x == ToIngest(b.asst, "text")
             y == ToIngest(b.reason, "reasoning")
             z == ToIngest(b.tools, "tool")
  <2>1. pc[e] = "flush" /\ k \in StreamKeys
    BY <1>2, <1>11 DEF FlushBuf
  <2>2. b \in Buffers /\ Held(b) \in TextsOf(k)
    BY <2>1, BufAtType DEF BufsOwned, TextsOf, OfKey, Texts
  <2>3. \/ todo'[e] = todo[e] /\ whole'[e] = whole[e]
        \/ todo'[e] = x \o y \o z /\ whole'[e] = b.whole
    BY <1>2, <1>11 DEF FlushBuf, BufAt
  <2> HIDE DEF b
  <2>4. b.asst \in TextsOf(k) /\ b.reason \in TextsOf(k) /\ b.tools \in TextsOf(k) /\ b.whole \in TextsOf(k)
    BY <2>2, HeldType DEF TextsOf, OfKey
  <2>5. x \in Seq(TextsOf(k)) /\ y \in Seq(TextsOf(k)) /\ z \in Seq(TextsOf(k))
    BY <2>4, ToIngestType
  <2> HIDE DEF x, y, z
  <2>6. x \o y \o z \in Seq(TextsOf(k))
    BY <2>5
  <2> QED BY <1>6, <1>8, <2>1, <2>3, <2>4, <2>6
<1>12. ASSUME NEW e \in Exchanges, TakeWhole(e) PROVE Fine(e)
  <2> DEFINE k == key[e]
  <2>1. pc[e] = "take" /\ k \in StreamKeys /\ todo'[e] = todo[e] /\ whole'[e] = BufAt(k).whole
    BY <1>2, <1>12 DEF TakeWhole, Goto, BufAt
  <2>2. BufAt(k) \in Buffers /\ Held(BufAt(k)) \in TextsOf(k)
    BY <2>1, BufAtType DEF BufsOwned, TextsOf, OfKey, Texts
  <2>3. BufAt(k).whole \in TextsOf(k)
    BY <2>2, HeldType DEF TextsOf, OfKey
  <2>4. todo[e] \in Seq(TextsOf(k))
    BY DEF TodoOwned
  <2> QED BY <1>8, <2>1, <2>3, <2>4
<1>13. ASSUME NEW e \in Exchanges, ClaimLost(e) \/ ProcessText(e) \/ ProcessFails(e) PROVE Fine(e)
  <2>1. pc[e] # "idle" /\ todo[e] # << >> /\ todo'[e] = Tail(todo[e]) /\ whole'[e] = whole[e]
    BY <1>2, <1>13 DEF ClaimLost, ProcessText, ProcessFails, Pop, Goto, TypeIntact, Control
  <2>2. todo[e] \in Seq(TextsOf(key[e]))
    BY DEF TodoOwned
  <2>3. Tail(todo[e]) \in Seq(TextsOf(key[e]))
    BY <2>1, <2>2, TailType
  <2> QED BY <1>8, <2>1, <2>3
<1>14. ASSUME NEW e \in Exchanges, Answer(e) PROVE Fine(e)
  <2>1. CASE Return(e, "answer")
    BY <1>7, <2>1
  <2>2. CASE ~Return(e, "answer")
    <3>1. pc[e] = "answer" /\ todo'[e] = <<Text(e)>> /\ whole'[e] = whole[e]
      BY <1>2, <1>14, <2>2 DEF Answer
    <3>2. <<Text(e)>> \in Seq(TextsOf(key[e]))
      BY <3>1, BusyHasKey, TextIsOwned
    <3> QED BY <1>8, <3>1, <3>2
  <2> QED BY <2>1, <2>2
<1>15. ASSUME NEW e \in Exchanges, HandlerRuns(e) PROVE Fine(e)
  <2>1. CASE OpenForDeltaFails(e) \/ SegmentPoisoned(e) \/ SegmentClean(e) \/ NoteMark(e) \/ Tombstone(e)
    BY <1>6, <1>7, <2>1 DEF OpenForDeltaFails, SegmentPoisoned, SegmentClean, NoteMark, Tombstone, localVars
  <2>2. CASE ClaimWon(e) \/ NoteStored(e) \/ Residual(e) \/ OpenForResidualFails(e) \/ ClaimWhole(e)
    BY <1>6, <2>2 DEF ClaimWon, NoteStored, Residual, OpenForResidualFails, ClaimWhole, localVars
  <2>3. CASE Ingested(e) \/ ClearBuf(e) \/ OpenForResponseFails(e)
    BY <1>6, <1>7, <2>3 DEF Ingested, ClearBuf, OpenForResponseFails, localVars
  <2>4. CASE PeekForWhole(e) \/ ClaimTaken(e) \/ NeedEngine(e) \/ OpenForResponse(e)
    BY <1>6, <2>4 DEF PeekForWhole, ClaimTaken, NeedEngine, OpenForResponse, localVars
  <2> QED BY <1>10, <1>11, <1>12, <1>13, <1>14, <1>15, <2>1, <2>2, <2>3, <2>4 DEF HandlerRuns
<1>16. ASSUME NEW e \in Exchanges, HostCalls(e) \/ HandlerRuns(e), NEW f \in Exchanges PROVE Fine(f)
  <2>1. CASE f = e
    BY <1>9, <1>15, <1>16, <2>1
  <2>2. CASE f # e
    <3>1. todo'[f] = todo[f] /\ whole'[f] = whole[f]
      BY <1>16, <2>2, OthersUntouched
    <3> QED BY <1>6, <3>1
  <2> QED BY <2>1, <2>2
<1>17. ASSUME NEW f \in Exchanges, UNCHANGED <<todo, whole>> PROVE Fine(f)
  BY <1>6, <1>17
<1>18. UNCHANGED vars => UNCHANGED <<todo, whole>>
  BY DEF vars, localVars
<1>19. \A f \in Exchanges : Fine(f)
  BY <1>16, <1>17, <1>18, TimeTouchesNone DEF Next
<1> QED BY <1>19 DEF TodoOwned, WholeOwned, TextsOf, OfKey, After

(* What a claim adds to the marks. *)
LEMMA MarksGrow ==
    ASSUME TypeIntact, [Next]_vars, NEW t \in seen'.marks, t \notin seen.marks
    PROVE  \E e \in Exchanges : \/ ClaimWon(e) /\ t = Head(todo[e])
                                \/ (ClaimWhole(e) \/ ClaimTaken(e)) /\ t = whole[e]
<1>1. ASSUME NEW h PROVE Claimed(seen, h).marks \subseteq seen.marks \cup {h}
  BY DEF Claimed
<1>2. ASSUME NEW h PROVE Unmarked(seen, h).marks \subseteq seen.marks
  BY DEF Unmarked, TypeIntact, SeenType
<1>3. ASSUME NEW e \in Exchanges, ProcessText(e) \/ ProcessFails(e) PROVE FALSE
  BY <1>2, <1>3 DEF ProcessText, ProcessFails
<1>4. ASSUME NEW e \in Exchanges, ClaimWon(e) PROVE t = Head(todo[e])
  BY <1>1, <1>4 DEF ClaimWon
<1>5. ASSUME NEW e \in Exchanges, ClaimWhole(e) \/ ClaimTaken(e) PROVE t = whole[e]
  BY <1>1, <1>5 DEF ClaimWhole, ClaimTaken, MarkSeen
<1> QED BY <1>3, <1>4, <1>5, StoreWritten DEF StoreWriters, storeVars

LEMMA OwnedStep ==
    ASSUME TypeIntact, Phases, Owned, [Next]_vars
    PROVE  Owned'
<1>1. BufsOwned' /\ TodoOwned' /\ WholeOwned'
  BY BufsOwnedStep, LocalOwnedStep DEF Owned
<1>2. ASSUME NEW t \in seen'.marks PROVE \E k \in StreamKeys : t \in TextsOf(k)
  <2>1. CASE t \in seen.marks
    BY <2>1 DEF Owned, MarksOwned
  <2>2. ASSUME NEW e \in Exchanges, ClaimWon(e), t = Head(todo[e])
        PROVE  \E k \in StreamKeys : t \in TextsOf(k)
    <3>1. todo[e] \in Seq(TextsOf(key[e])) /\ todo[e] # << >> /\ pc[e] # "idle"
      BY <2>2 DEF Owned, TodoOwned, ClaimWon, Goto
    <3> QED BY <2>2, <3>1, TailType, BusyHasKey
  <2>3. ASSUME NEW e \in Exchanges, ClaimWhole(e) \/ ClaimTaken(e), t = whole[e]
        PROVE  \E k \in StreamKeys : t \in TextsOf(k)
    <3>1. whole[e] \in TextsOf(key[e]) /\ pc[e] # "idle"
      BY <2>3 DEF Owned, WholeOwned, ClaimWhole, ClaimTaken, Goto
    <3> QED BY <2>3, <3>1, BusyHasKey
  <2> QED BY <1>2, <2>1, <2>2, <2>3, MarksGrow
<1>3. MarksOwned'
  <2>1. \A k \in StreamKeys : TextsOf(k) \subseteq {t \in Texts : \A d \in t : key'[d[1]] = k}
    BY TextsStay
  <2> QED BY <1>2, <2>1 DEF MarksOwned, TextsOf, OfKey
<1> QED BY <1>1, <1>3 DEF Owned

-----------------------------------------------------------------------------
(* Where the deltas of an exchange that shares its key with none are.       *)
InRows       == UNION rows
Told(e)      == {d \in Text(e) : d[2] <= pos[e]}
Buffered(e)  == BufAt(key[e]).asst
BufWhole(e)  == BufAt(key[e]).whole
InHand(e)    == UNION InOrder(todo[e])
AtAppend(e)  == IF pc[e] = "append" THEN {<<e, pos[e]>>} ELSE {}

(* The buffer has been flushed for the last time, or is about to be cleared. *)
Flushed(e) ==
    \/ stage[e] = "answered" /\ pc[e] \notin {"hasbuf", "open", "flush"}
    \/ task[e] = "end" /\ pc[e] \notin {"residual", "flush"}

Accounted(e) == Told(e) \subseteq InRows \cup Buffered(e) \cup InHand(e) \cup AtAppend(e)
Emptied(e)   == Flushed(e) => Buffered(e) = {}
WholeTold(e) == whole[e] \subseteq Told(e) /\ BufWhole(e) \subseteq Told(e)
Backed(e) ==
    \A t \in seen.marks : (\A d \in t : d[1] = e) =>
        t \subseteq InRows \/ (pc[e] = "process" /\ t = Head(todo[e]))

KeptOf(e) == Accounted(e) /\ Emptied(e) /\ WholeTold(e) /\ Backed(e)

(* Nothing of such an exchange is lost while no buffer is evicted.          *)
KeptInv == Roomy /\ IngestAssistant => \A e \in Exchanges : Alone(e) => KeptOf(e)

(* No buffer but that of the exchange's own key changes. *)
LEMMA BufsInPlace ==
    ASSUME TypeIntact, BufsOwned, [Next]_vars, Roomy', NEW k \in StreamKeys,
           \E e \in Exchanges : key'[e] = k, NEW b, PutBuf(k, b)
    PROVE  bufs' = [bufs EXCEPT ![k] = b]
<1> DEFINE K == KeysInUse'
<1>1. IsFiniteSet(K) /\ Cardinality(K) <= MaxBufs
  BY KeysStay DEF Roomy
<1>2. k \in K
  BY NoneAssumption DEF KeysInUse
<1>3. \A j \in StreamKeys : bufs[j] # None => j \in K
  <2>1. \A j \in StreamKeys : bufs[j] # None => j \in KeysInUse
    BY NoneAssumption DEF BufsOwned, KeysInUse
  <2> QED BY <2>1, KeysStay
<1> HIDE DEF K
<1> QED BY <1>1, <1>2, <1>3, PutInPlace

LEMMA BufsElsewhere ==
    ASSUME TypeIntact, Phases, BufsOwned, [Next]_vars, Roomy', NEW e \in Exchanges, HostCalls(e) \/ HandlerRuns(e),
           NEW k \in StreamKeys, k # key'[e]
    PROVE  bufs'[k] = bufs[k]
<1>1. bufs \in [StreamKeys -> Buffers \cup {None}]
  BY DEF TypeIntact, TableOf
<1>2. ASSUME NEW j \in StreamKeys, key'[e] = j, NEW b, PutBuf(j, b) PROVE bufs'[k] = bufs[k]
  <2>1. bufs' = [bufs EXCEPT ![j] = b]
    BY <1>2, BufsInPlace
  <2> QED BY <1>1, <1>2, <2>1
<1>3. ASSUME NEW j \in StreamKeys, NEW r \in Responses[e], HeaderInit(e, j, r) PROVE bufs'[k] = bufs[k]
  <2>1. key'[e] = j /\ \E b : PutBuf(j, b)
    BY <1>3 DEF HeaderInit, TypeIntact, HostType
  <2> QED BY <1>2, <2>1
<1>4. CASE AppendDelta(e)
  <2>1. PICK entry, seg : AppendEffect(e, entry, seg)
    BY <1>4, AppendDeltaIs
  <2>2. key'[e] = key[e] /\ key[e] \in StreamKeys /\ PutBuf(key[e], entry)
    BY <1>4, <2>1, AppendDeltaIs DEF AppendEffect, hostVars
  <2> QED BY <1>2, <2>2
<1>5. CASE NoteStored(e) \/ FlushBuf(e) \/ TakeWhole(e) \/ ClearBuf(e)
  <2>1. key'[e] = key[e] /\ (bufs' = bufs \/ \E x : bufs' = [bufs EXCEPT ![key[e]] = x])
    BY <1>5 DEF NoteStored, FlushBuf, TakeWhole, ClearBuf, hostVars
  <2> QED BY <1>1, <2>1
<1>6. CASE bufs' = bufs
  BY <1>6
<1>7. ASSUME HostCalls(e), ~ \E j \in StreamKeys, r \in Responses[e] : HeaderInit(e, j, r) PROVE bufs' = bufs
  BY <1>7 DEF HostCalls, Chunk, Done, Respond, Resend, streamVars
<1>8. ASSUME HandlerRuns(e), ~(AppendDelta(e) \/ NoteStored(e) \/ FlushBuf(e) \/ TakeWhole(e) \/ ClearBuf(e))
      PROVE  bufs' = bufs
  BY <1>8 DEF HandlerRuns, OpenForDeltaFails, SegmentPoisoned, SegmentClean, ClaimWon,
              ClaimLost, ProcessText, ProcessFails, Ingested, NoteMark, Tombstone, Residual,
              OpenForResidualFails, ClaimWhole, PeekForWhole, ClaimTaken, NeedEngine, OpenForResponse,
              OpenForResponseFails, Answer, streamVars
<1> QED BY <1>3, <1>4, <1>5, <1>6, <1>7, <1>8

(* An exchange that is alone on its key has always been, and what is of its *)
(* key is its own.                                                          *)
LEMMA AloneBefore ==
    ASSUME TypeIntact, [Next]_vars, NEW e \in Exchanges, key[e] # None, Alone(e)'
    PROVE  Alone(e)
BY KeysStay DEF Alone

LEMMA AloneMine ==
    ASSUME TypeIntact, BufsOwned, NEW e \in Exchanges, Alone(e)
    PROVE  /\ key[e] \in StreamKeys /\ stage[e] # "new" /\ ~streamConflicted(key[e])
           /\ ~BufAt(key[e]).conflicted
           /\ \A t \in TextsOf(key[e]) : \A d \in t : d[1] = e
<1>1. key[e] \in StreamKeys /\ stage[e] # "new"
  BY DEF TypeIntact, HostType, Alone
<1>2. ~streamConflicted(key[e])
  BY <1>1 DEF BufsOwned, Alone
<1>3. ~BufAt(key[e]).conflicted
  BY <1>1, <1>2, BufAtType DEF streamConflicted
<1>4. \A t \in TextsOf(key[e]) : \A d \in t : d[1] = e
  BY DEF TextsOf, OfKey, Alone, Texts, Deltas
<1> QED BY <1>1, <1>2, <1>3, <1>4

LEMMA ToldSame ==
    ASSUME NEW e \in Exchanges, resp'[e] = resp[e], pos'[e] = pos[e]
    PROVE  Told(e)' = Told(e)
<1>1. Text(e)' = Text(e)
  BY DEF Text, KindOf, Size
<1> QED BY <1>1 DEF Told

LEMMA RowsStay ==
    ASSUME [Next]_vars
    PROVE  rows \subseteq rows'
<1>1. ASSUME NEW e \in Exchanges,
             ClaimWon(e) \/ ProcessText(e) \/ ProcessFails(e) \/ ClaimWhole(e) \/ ClaimTaken(e)
      PROVE  rows \subseteq rows'
  BY <1>1 DEF ClaimWon, ProcessText, ProcessFails, ClaimWhole, ClaimTaken
<1> QED BY <1>1, StoreWritten DEF StoreWriters, storeVars

(* A step that delivers nothing to an exchange and leaves its buffer loses  *)
(* nothing, if it takes texts from a handler only into rows, and marks only *)
(* what is stored or being stored.                                          *)
LEMMA SteadyKeeps ==
    ASSUME NEW e \in Exchanges, KeptOf(e), rows \subseteq rows',
           key'[e] = key[e], resp'[e] = resp[e], pos'[e] = pos[e],
           Buffered(e)' = Buffered(e), BufWhole(e)' = BufWhole(e),
           InHand(e) \subseteq InHand(e)' \cup InRows',
           AtAppend(e) \subseteq AtAppend(e)',
           whole'[e] \subseteq whole[e],
           Flushed(e)' => Flushed(e) \/ Buffered(e) = {},
           \A t \in seen'.marks \ seen.marks : (\A d \in t : d[1] = e) =>
               t \subseteq InRows' \/ (pc'[e] = "process" /\ t = Head(todo'[e])),
           pc[e] = "process" => \/ Head(todo[e]) \subseteq InRows'
                                \/ pc'[e] = "process" /\ Head(todo'[e]) = Head(todo[e])
    PROVE  KeptOf(e)'
<1>1. Told(e)' = Told(e)
  BY ToldSame
<1>2. InRows \subseteq InRows'
  BY DEF InRows
<1>3. Accounted(e)'
  BY <1>1, <1>2 DEF KeptOf, Accounted
<1>4. Emptied(e)'
  BY DEF KeptOf, Emptied
<1>5. WholeTold(e)'
  BY <1>1 DEF KeptOf, WholeTold
<1>6. Backed(e)'
  BY <1>2 DEF KeptOf, Backed
<1> QED BY <1>3, <1>4, <1>5, <1>6 DEF KeptOf

(* The step of another exchange. *)
LEMMA OthersKeep ==
    ASSUME TypeIntact, Phases, Owned, [Next]_vars, Roomy', NEW e \in Exchanges, Alone(e), Alone(e)', KeptOf(e),
           NEW f \in Exchanges, f # e, HostCalls(f) \/ HandlerRuns(f)
    PROVE  KeptOf(e)'
<1>1. /\ pc'[e] = pc[e] /\ task'[e] = task[e] /\ todo'[e] = todo[e] /\ whole'[e] = whole[e]
      /\ stage'[e] = stage[e] /\ pos'[e] = pos[e] /\ key'[e] = key[e] /\ resp'[e] = resp[e]
  BY OthersUntouched
<1>2. key[e] \in StreamKeys /\ key[e] # key'[f]
  BY <1>1, AloneMine DEF Owned, Alone
<1>3. bufs'[key[e]] = bufs[key[e]]
  BY <1>2, BufsElsewhere DEF Owned
<1>4. Buffered(e)' = Buffered(e) /\ BufWhole(e)' = BufWhole(e)
  BY <1>1, <1>3 DEF Buffered, BufWhole, BufAt
<1>5. InHand(e)' = InHand(e) /\ AtAppend(e)' = AtAppend(e) /\ (Flushed(e)' <=> Flushed(e))
  BY <1>1 DEF InHand, InOrder, AtAppend, Flushed
<1>6. \A g \in Exchanges : key[g] = key[e] => g = e
  BY DEF Alone
<1>7. ASSUME NEW t \in seen'.marks \ seen.marks, \A d \in t : d[1] = e
      PROVE  t \subseteq InRows'
  <2>1. PICK g \in Exchanges : \/ ClaimWon(g) /\ t = Head(todo[g])
                               \/ (ClaimWhole(g) \/ ClaimTaken(g)) /\ t = whole[g]
    BY MarksGrow
  <2>2. g # e
    BY <1>1, <2>1 DEF ClaimWon, ClaimWhole, ClaimTaken, Goto, TypeIntact, LocalType, PCs
  <2>3. t \in TextsOf(key[g])
    <3>1. CASE ClaimWon(g) /\ t = Head(todo[g])
      BY <3>1, TailType DEF ClaimWon, Owned, TodoOwned
    <3>2. CASE t = whole[g]
      BY <3>2 DEF Owned, WholeOwned
    <3> QED BY <2>1, <3>1, <3>2
  <2>4. t = {}
    BY <1>6, <1>7, <2>2, <2>3 DEF TextsOf, OfKey
  <2> QED BY <2>4
<1> QED BY <1>1, <1>4, <1>5, <1>7, RowsStay, SteadyKeeps

(* The passing of time, and no step at all. *)
LEMMA TimeKeeps ==
    ASSUME TypeIntact, Owned, [Next]_vars, NEW e \in Exchanges, Alone(e), KeptOf(e),
           UNCHANGED vars \/ \E k \in StreamKeys : AgeBuf(k) \/ AgeMark(k)
    PROVE  KeptOf(e)'
<1>1. UNCHANGED <<pc, task, todo, whole, stage, pos, key, resp, seen, rows>>
  BY TimeTouchesNone DEF vars, hostVars, localVars, storeVars
<1>2. key[e] \in StreamKeys /\ ~streamConflicted(key[e])
  BY AloneMine DEF Owned
<1>3. bufs'[key[e]] = bufs[key[e]]
  <2>1. ASSUME NEW k \in StreamKeys, AgeBuf(k) PROVE bufs'[key[e]] = bufs[key[e]]
    <3>1. k # key[e] /\ \E x : bufs' = [bufs EXCEPT ![k] = x]
      BY <1>2, <2>1 DEF AgeBuf
    <3> QED BY <1>2, <3>1 DEF TypeIntact, TableOf
  <2>2. ASSUME NEW k \in StreamKeys, AgeMark(k) PROVE bufs'[key[e]] = bufs[key[e]]
    BY <2>2 DEF AgeMark, streamVars
  <2> QED BY <2>1, <2>2 DEF vars, streamVars
<1>4. Buffered(e)' = Buffered(e) /\ BufWhole(e)' = BufWhole(e)
  BY <1>1, <1>3 DEF Buffered, BufWhole, BufAt
<1>5. InHand(e)' = InHand(e) /\ AtAppend(e)' = AtAppend(e) /\ (Flushed(e)' <=> Flushed(e))
  BY <1>1 DEF InHand, InOrder, AtAppend, Flushed
<1> QED BY <1>1, <1>4, <1>5, SteadyKeeps

LEMMA QuietlyKept ==
    ASSUME NEW e \in Exchanges, KeptOf(e), UNCHANGED storeVars,
           key'[e] = key[e], resp'[e] = resp[e], pos'[e] = pos[e],
           Buffered(e)' = Buffered(e), BufWhole(e)' = BufWhole(e),
           pc[e] \notin {"append", "process"}, todo'[e] = todo[e] \/ todo[e] = << >>,
           whole'[e] \in {whole[e], {}},
           Flushed(e)' => Flushed(e) \/ Buffered(e) = {}
    PROVE  KeptOf(e)'
<1>1. InHand(e) \subseteq InHand(e)'
  BY EmptyIs DEF InHand, InOrder
<1>2. AtAppend(e) = {}
  BY DEF AtAppend
<1> QED BY <1>1, <1>2, SteadyKeeps DEF storeVars

(* The steps of the exchange itself that leave its buffered text. *)
LEMMA QuietStepsKeep ==
    ASSUME TypeIntact, Phases, Owned, NEW e \in Exchanges, Alone(e), KeptOf(e),
           \/ Respond(e) \/ Resend(e) \/ SegmentClean(e) \/ Ingested(e) \/ NoteStored(e) \/ NoteMark(e)
           \/ Tombstone(e) \/ Residual(e) \/ PeekForWhole(e) \/ NeedEngine(e) \/ OpenForResponse(e) \/ Answer(e)
    PROVE  KeptOf(e)'
<1>1. /\ pc \in [Exchanges -> PCs] /\ todo \in [Exchanges -> Seq(Texts)] /\ whole \in [Exchanges -> Texts]
      /\ task \in [Exchanges -> {"none", "chunk", "last", "end", "answer", "full", "resend"}]
      /\ stage \in [Exchanges -> {"new", "open", "ended", "answered", "resent"}]
      /\ bufs \in [StreamKeys -> Buffers \cup {None}] /\ (pc[e] = "idle" => task[e] = "none")
  BY DEF TypeIntact, LocalType, HostType, TableOf, Control
<1>2. Phase(e) /\ key[e] \in StreamKeys
  BY AloneMine DEF Phases, Owned
<1>3. ~hasStreamBuf(key[e]) => Buffered(e) = {}
  BY DEF hasStreamBuf, Buffered, BufAt, NewBuf
<1>4. UNCHANGED storeVars /\ key' = key /\ resp' = resp /\ pos' = pos
  BY DEF Respond, Resend, SegmentClean, Ingested, NoteStored, NoteMark, Tombstone, Residual, PeekForWhole,
         NeedEngine, OpenForResponse, Answer, hostVars
<1>5. Buffered(e)' = Buffered(e) /\ BufWhole(e)' = BufWhole(e)
  <2>1. CASE bufs' = bufs
    BY <1>4, <2>1 DEF Buffered, BufWhole, BufAt
  <2>2. CASE NoteStored(e) /\ bufs[key[e]] # None /\ bufs' = [bufs EXCEPT ![key[e]].storedAny = TRUE]
    <3>1. bufs[key[e]] \in Buffers
      BY <1>1, <1>2, <2>2
    <3>2. bufs'[key[e]] = [bufs[key[e]] EXCEPT !.storedAny = TRUE]
      BY <1>1, <1>2, <2>2
    <3>3. bufs'[key[e]] \in Buffers /\ bufs'[key[e]].asst = bufs[key[e]].asst
          /\ bufs'[key[e]].whole = bufs[key[e]].whole
      BY <3>1, <3>2 DEF Buffers
    <3> QED BY <1>4, <2>2, <3>3, NoneAssumption DEF Buffered, BufWhole, BufAt
  <2> QED BY <2>1, <2>2 DEF Respond, Resend, SegmentClean, Ingested, NoteStored, NoteMark, Tombstone, Residual,
                            PeekForWhole, NeedEngine, OpenForResponse, Answer, streamVars
<1> DEFINE Goal == /\ pc[e] \notin {"append", "process"} /\ (todo'[e] = todo[e] \/ todo[e] = << >>)
                   /\ whole'[e] \in {whole[e], {}}
                   /\ Flushed(e)' => Flushed(e) \/ Buffered(e) = {}
<1>6. ASSUME Respond(e) \/ Resend(e) PROVE Goal
  <2>1. /\ pc[e] = "idle" /\ todo[e] = << >> /\ whole'[e] = whole[e]
        /\ \/ stage'[e] = "answered" /\ pc'[e] = "hasbuf" /\ task'[e] = "answer"
           \/ stage'[e] = "resent" /\ task'[e] = "resend"
    BY <1>1, <1>2, <1>6 DEF Respond, Resend, Begin, Goto, Phase, Ingesting
  <2> QED BY <2>1 DEF Flushed
<1>7. ASSUME stage' = stage, NEW from, from \notin {"append", "process"}, Return(e, from),
             Flushed(e) \/ stage[e] # "answered", todo[e] = << >>
      PROVE  Goal
  BY <1>1, <1>7 DEF Return, Goto, Flushed
<1>8. ASSUME SegmentClean(e) PROVE Goal
  <2>1. pc[e] = "recheck" /\ task[e] \in {"chunk", "last"} /\ stage[e] \in {"open", "ended"}
    BY <1>1, <1>2, <1>8 DEF SegmentClean, Goto, Phase, OfEnd, OfAnswer, Ingesting
  <2>2. todo' = todo /\ whole' = whole /\ task' = task /\ stage' = stage
    BY <1>8 DEF SegmentClean, localVars, hostVars
  <2> QED BY <2>1, <2>2 DEF Flushed
<1>9. ASSUME Ingested(e) PROVE Goal
  <2>1. pc[e] = "ingest" /\ stage' = stage /\ todo[e] = << >>
    BY <1>9 DEF Ingested, Goto, Return, hostVars
  <2>2. CASE Return(e, "ingest")
    BY <1>7, <2>1, <2>2 DEF Flushed
  <2>3. CASE pc'[e] \in {"note", "claimwhole"} /\ UNCHANGED localVars
    BY <2>1, <2>3 DEF Flushed, localVars
  <2> QED BY <1>1, <1>9, <2>2, <2>3 DEF Ingested, Goto
<1>10. ASSUME NoteStored(e) \/ PeekForWhole(e) PROVE Goal
  <2>1. pc[e] \in {"note", "peek"} /\ UNCHANGED <<todo, whole, task, stage>>
    BY <1>10 DEF NoteStored, PeekForWhole, Goto, localVars, hostVars
  <2> QED BY <2>1 DEF Flushed
<1>11. ASSUME NoteMark(e) PROVE Goal
  <2>1. pc[e] = "mark" /\ stage' = stage /\ todo[e] = << >>
    BY <1>2, <1>11 DEF NoteMark, AfterDelta, Return, Goto, hostVars, Phase, Ingesting
  <2>2. CASE Return(e, "mark")
    BY <1>7, <2>1, <2>2 DEF Flushed
  <2>3. CASE task[e] = "last" /\ pc'[e] = "residual" /\ whole' = whole
    <3>1. stage[e] = "ended"
      BY <1>2, <2>3 DEF Phase
    <3> QED BY <2>1, <2>3, <3>1 DEF Flushed
  <2>4. CASE task[e] = "end" /\ UNCHANGED localVars
    BY <2>1, <2>4 DEF Flushed, localVars
  <2> QED BY <1>1, <1>11, <2>2, <2>3, <2>4 DEF NoteMark, AfterDelta, Goto
<1>12. ASSUME Tombstone(e) PROVE Goal
  <2>1. pc[e] = "tomb" /\ stage' = stage /\ Return(e, "tomb") /\ todo[e] = << >>
    BY <1>2, <1>12 DEF Tombstone, Return, Goto, hostVars, Phase, Ingesting
  <2> QED BY <1>7, <2>1 DEF Flushed
<1>13. ASSUME Residual(e) \/ NeedEngine(e) \/ OpenForResponse(e) PROVE Goal
  <2>1. /\ pc[e] \in {"residual", "hasbuf", "open"} /\ UNCHANGED <<todo, whole, task, stage>>
        /\ \/ pc'[e] \in {"flush", "open"} \/ ~hasStreamBuf(key[e])
    BY <1>1, <1>13 DEF Residual, NeedEngine, OpenForResponse, Goto, localVars, hostVars
  <2>2. pc'[e] = "open" => task[e] # "end"
    <3>1. pc'[e] = "open" => pc[e] = "hasbuf"
      BY <1>1, <1>13 DEF Residual, NeedEngine, OpenForResponse, Goto
    <3> QED BY <1>2, <3>1 DEF Phase, OfEnd, Ingesting
  <2> QED BY <1>3, <2>1, <2>2 DEF Flushed
<1>14. ASSUME Answer(e) PROVE Goal
  <2>1. /\ pc[e] = "answer" /\ task[e] = "answer" /\ stage[e] = "answered" /\ todo[e] = << >>
        /\ whole'[e] \in {whole[e], {}}
    BY <1>1, <1>2, <1>14 DEF Answer, Return, Phase, OfDelta, OfEnd, Ingesting
  <2> QED BY <2>1 DEF Flushed
<1>15. Goal
  BY <1>6, <1>8, <1>9, <1>10, <1>11, <1>12, <1>13, <1>14
<1> QED BY <1>4, <1>5, <1>15, QuietlyKept

(* The texts of a handler are its head and the texts of its tail. *)
LEMMA HeadAndTail ==
    ASSUME NEW S, NEW s \in Seq(S), s # << >>
    PROVE  InOrder(s) \subseteq {Head(s)} \cup InOrder(Tail(s))
<1> SUFFICES ASSUME NEW i \in 1..Len(s) PROVE s[i] \in {Head(s)} \cup InOrder(Tail(s))
  BY DEF InOrder
<1>1. CASE i = 1
  BY <1>1
<1>2. CASE i # 1
  <2>1. i - 1 \in 1..Len(Tail(s)) /\ Tail(s)[i - 1] = s[i]
    BY <1>2
  <2> QED BY <2>1 DEF InOrder
<1> QED BY <1>1, <1>2

(* The steps of the exchange itself that claim and store texts. *)
LEMMA StoreStepsKeep ==
    ASSUME TypeIntact, Phases, Owned, [Next]_vars, NEW e \in Exchanges, Alone(e), KeptOf(e),
           ClaimWon(e) \/ ClaimLost(e) \/ ProcessText(e) \/ ClaimWhole(e) \/ ClaimTaken(e)
    PROVE  KeptOf(e)'
<1>1. /\ pc \in [Exchanges -> PCs] /\ todo \in [Exchanges -> Seq(Texts)]
      /\ task \in [Exchanges -> {"none", "chunk", "last", "end", "answer", "full", "resend"}]
      /\ todo[e] \in Seq(TextsOf(key[e]))
  BY DEF TypeIntact, LocalType, Owned, TodoOwned
<1>2. Phase(e)
  BY DEF Phases
<1>3. /\ key' = key /\ resp' = resp /\ pos' = pos /\ stage' = stage /\ bufs' = bufs
      /\ whole' = whole /\ task' = task
  BY DEF ClaimWon, ClaimLost, ProcessText, ClaimWhole, ClaimTaken, hostVars, streamVars, localVars
<1>4. Buffered(e)' = Buffered(e) /\ BufWhole(e)' = BufWhole(e)
  BY <1>3 DEF Buffered, BufWhole, BufAt
<1>5. AtAppend(e) = {} /\ (Flushed(e)' => Flushed(e))
  <2>1. pc[e] \in {"ingest", "process", "claimwhole", "claimlast"}
    BY DEF ClaimWon, ClaimLost, ProcessText, ClaimWhole, ClaimTaken, Goto
  <2> QED BY <1>3, <2>1 DEF AtAppend, Flushed
<1>6. ASSUME NEW h, h \in Texts PROVE Claimed(seen, h).marks \subseteq seen.marks \cup {h}
  BY DEF Claimed
<1>7. \A t \in TextsOf(key[e]) : \A d \in t : d[1] = e
  BY AloneMine DEF Owned
<1>8. CASE ClaimWon(e)
  <2>1. /\ pc[e] = "ingest" /\ pc'[e] = "process" /\ todo' = todo
        /\ todo[e] # << >> /\ seen' = Claimed(seen, Head(todo[e])) /\ rows' = rows
    BY <1>1, <1>8 DEF ClaimWon, Goto, localVars
  <2>2. seen'.marks \subseteq seen.marks \cup {Head(todo[e])}
    <3>1. Head(todo[e]) \in Texts
      BY <1>1, <2>1, TailType
    <3> QED BY <1>6, <2>1, <3>1
  <2>3. InHand(e)' = InHand(e)
    BY <2>1 DEF InHand, InOrder
  <2> QED BY <1>3, <1>4, <1>5, <2>1, <2>2, <2>3, SteadyKeeps
<1>9. CASE ClaimLost(e) \/ ProcessText(e)
  <2> DEFINE h == Head(todo[e])
  <2>1. /\ pc[e] \in {"ingest", "process"} /\ todo[e] # << >> /\ todo'[e] = Tail(todo[e]) /\ seen' = seen
        /\ pc[e] = "process" => rows' = rows \cup {h}
        /\ pc[e] = "ingest" => h \in seen.marks
    BY <1>1, <1>9 DEF ClaimLost, ProcessText, Pop, Goto, TypeIntact, Control, storeVars
  <2>2. h \in TextsOf(key[e])
    BY <1>1, <2>1, TailType
  <2>3. h \subseteq InRows'
    <3>1. CASE pc[e] = "process"
      BY <2>1, <3>1 DEF InRows
    <3>2. CASE pc[e] = "ingest"
      <4>1. h \subseteq InRows
        BY <1>7, <2>1, <2>2, <3>2 DEF KeptOf, Backed
      <4> QED BY <4>1, RowsStay DEF InRows
    <3> QED BY <2>1, <3>1, <3>2
  <2>4. InHand(e) \subseteq InHand(e)' \cup InRows'
    <3>1. InOrder(todo[e]) \subseteq {h} \cup InOrder(todo'[e])
      BY <1>1, <2>1, HeadAndTail
    <3>2. InHand(e)' = UNION InOrder(todo'[e])
      BY DEF InHand, InOrder
    <3> HIDE DEF h
    <3> QED BY <2>3, <3>1, <3>2 DEF InHand
  <2> QED BY <1>3, <1>4, <1>5, <2>1, <2>3, <2>4, RowsStay, SteadyKeeps
<1>10. CASE ClaimWhole(e) \/ ClaimTaken(e)
  <2>1. /\ pc[e] \in {"claimwhole", "claimlast"} /\ todo' = todo /\ rows' = rows
        /\ seen' = seen \/ seen' = Claimed(seen, whole[e])
    BY <1>10 DEF ClaimWhole, ClaimTaken, Goto, MarkSeen, localVars
  <2>2. seen'.marks \subseteq seen.marks \cup {whole[e]}
    <3>1. whole[e] \in Texts
      BY DEF TypeIntact, LocalType
    <3> QED BY <1>6, <2>1, <3>1
  <2>3. Flushed(e) /\ todo[e] = << >>
    <3>1. todo[e] = << >>
      BY <1>2, <2>1 DEF Phase, Ingesting
    <3>2. task[e] \in {"end", "answer"}
      BY <1>1, <1>2, <2>1 DEF Phase, OfDelta, Ingesting
    <3>3. task[e] = "answer" => stage[e] = "answered"
      BY <1>2 DEF Phase
    <3> QED BY <2>1, <3>1, <3>2, <3>3 DEF Flushed
  <2>4. InHand(e) = {} /\ Buffered(e) = {}
    BY <2>3, EmptyIs DEF InHand, KeptOf, Emptied
  <2>5. whole[e] \subseteq InRows
    BY <1>5, <2>4 DEF KeptOf, Accounted, WholeTold
  <2>6. InHand(e)' = InHand(e)
    BY <2>1 DEF InHand, InOrder
  <2>7. InRows' = InRows
    BY <2>1 DEF InRows
  <2> QED BY <1>3, <1>4, <1>5, <2>1, <2>2, <2>5, <2>6, <2>7, SteadyKeeps
<1> QED BY <1>8, <1>9, <1>10

LEMMA BackedSame ==
    ASSUME NEW e \in Exchanges, UNCHANGED storeVars, pc[e] # "process", Backed(e)
    PROVE  Backed(e)'
BY DEF Backed, InRows, storeVars

(* The append of a delta of the exchange itself. *)
LEMMA AppendKeeps ==
    ASSUME TypeIntact, Phases, Owned, [Next]_vars, Roomy', IngestAssistant,
           NEW e \in Exchanges, Alone(e), KeptOf(e), AppendDelta(e)
    PROVE  KeptOf(e)'
<1> DEFINE k == key[e]
           d == <<e, pos[e]>>
<1>1. /\ pc[e] = "append" /\ k \in StreamKeys /\ stage[e] \in {"open", "ended"}
      /\ pos[e] \in 1..Size(e) /\ d \in Deltas
      /\ pc'[e] \in {"recheck", "idle", "residual"} /\ (task'[e] = "end" => pc'[e] = "residual")
      /\ whole'[e] \in {whole[e], {}} /\ UNCHANGED storeVars
      /\ key' = key /\ stage' = stage /\ pos' = pos /\ resp' = resp
  BY AppendDeltaIs DEF hostVars
<1>2. PICK entry, seg : AppendEffect(e, entry, seg)
  BY AppendDeltaIs
<1>3. todo[e] = << >> /\ todo \in [Exchanges -> Seq(Texts)] /\ bufs \in [StreamKeys -> Buffers \cup {None}]
  BY <1>1 DEF Phases, Phase, Ingesting, TypeIntact, LocalType, TableOf
<1>4. bufs'[k] = entry /\ entry \in Buffers /\ entry # None
  <2>1. PutBuf(k, entry) /\ entry \in Buffers /\ key'[e] = k
    BY <1>1, <1>2 DEF AppendEffect
  <2>2. bufs' = [bufs EXCEPT ![k] = entry]
    BY <1>1, <2>1, BufsInPlace DEF Owned
  <2> QED BY <1>1, <1>3, <2>1, <2>2, NoneAssumption
<1>5. Buffered(e)' = entry.asst /\ BufWhole(e)' = entry.whole
  BY <1>1, <1>4 DEF Buffered, BufWhole, BufAt
<1>6. Told(e)' = Told(e) /\ InRows' = InRows
  BY <1>1, ToldSame DEF InRows, storeVars
<1>7. d \in Told(e) <=> KindOf(d) = "text"
  BY <1>1 DEF Told, Text
<1>8. Accounted(e)'
  <2>1. Told(e) \subseteq InRows \cup Buffered(e) \cup {d}
    <3>1. InHand(e) = {} /\ AtAppend(e) = {d}
      BY <1>1, <1>3, EmptyIs DEF InHand, AtAppend
    <3> QED BY <3>1 DEF KeptOf, Accounted
  <2>2. CASE KindOf(d) # "text"
    <3>1. entry.asst = Buffered(e)
      BY <1>2, <2>2 DEF AppendEffect, Buffered
    <3> QED BY <1>5, <1>6, <1>7, <2>1, <2>2, <3>1 DEF Accounted
  <2>3. CASE KindOf(d) = "text"
    <3>1. seg = Buffered(e) \cup {d}
      BY <1>2, <2>3 DEF AppendEffect, Buffered
    <3>2. CASE entry.asst = seg
      BY <1>5, <1>6, <2>1, <3>1, <3>2 DEF Accounted
    <3>3. CASE todo'[e] = ToIngest(seg, KindOf(d))
      <4>1. todo'[e] = <<seg>>
        BY <2>3, <3>1, <3>3 DEF ToIngest, Durable
      <4>2. InHand(e)' = seg
        BY <4>1 DEF InHand, InOrder
      <4> QED BY <1>6, <2>1, <3>1, <4>2 DEF Accounted
    <3> QED BY <1>2, <1>3, <2>3, <3>2, <3>3 DEF AppendEffect
  <2> QED BY <2>2, <2>3
<1>9. ~Flushed(e)'
  BY <1>1 DEF Flushed
<1>10. WholeTold(e)'
  <2>1. entry.whole \subseteq BufWhole(e) \cup {x \in {d} : KindOf(x) = "text"}
    BY <1>2 DEF AppendEffect, BufWhole
  <2>2. entry.whole \subseteq Told(e)
    BY <1>7, <2>1 DEF KeptOf, WholeTold
  <2> QED BY <1>1, <1>5, <1>6, <2>2 DEF KeptOf, WholeTold
<1>11. Backed(e)'
  BY <1>1, BackedSame DEF KeptOf
<1> QED BY <1>8, <1>9, <1>10, <1>11 DEF KeptOf, Emptied

(* The flush of the buffer, and the steps that end it. *)
LEMMA FlushKeeps ==
    ASSUME TypeIntact, Phases, Owned, IngestAssistant, NEW e \in Exchanges, Alone(e), KeptOf(e), FlushBuf(e)
    PROVE  KeptOf(e)'
<1> DEFINE k == key[e]
           b == BufAt(k)
           x == ToIngest(b.asst, "text")
           y == ToIngest(b.reason, "reasoning")
           z == ToIngest(b.tools, "tool")
<1>1. k \in StreamKeys /\ ~b.conflicted /\ b \in Buffers
  BY AloneMine, BufAtType DEF Owned
<1>2. todo \in [Exchanges -> Seq(Texts)] /\ whole \in [Exchanges -> Texts] /\ bufs \in [StreamKeys -> Buffers \cup {None}]
  BY DEF TypeIntact, LocalType, TableOf
<1>3. /\ pc[e] = "flush" /\ UNCHANGED storeVars /\ key' = key /\ stage' = stage /\ pos' = pos /\ resp' = resp
      /\ bufs' = IF bufs[k] = None THEN bufs
                 ELSE [bufs EXCEPT ![k] = [b EXCEPT !.asst = {}, !.reason = {}, !.tools = {}, !.whole = {}]]
      /\ todo'[e] = x \o y \o z /\ whole'[e] = b.whole
  BY <1>1, <1>2 DEF FlushBuf, Goto, hostVars, BufAt
<1>4. Buffered(e)' = {} /\ BufWhole(e)' = {}
  <2>1. CASE bufs[k] = None
    BY <1>3, <2>1 DEF Buffered, BufWhole, BufAt, NewBuf
  <2>2. CASE bufs[k] # None
    <3>1. bufs'[k] = [b EXCEPT !.asst = {}, !.reason = {}, !.tools = {}, !.whole = {}]
      BY <1>1, <1>2, <1>3, <2>2
    <3> HIDE DEF b
    <3>2. bufs'[k] \in Buffers /\ bufs'[k].asst = {} /\ bufs'[k].whole = {}
      BY <1>1, <3>1 DEF Buffers, Texts
    <3> QED BY <1>3, <3>2, NoneAssumption DEF Buffered, BufWhole, BufAt
  <2> QED BY <2>1, <2>2
<1>5. Told(e)' = Told(e) /\ InRows' = InRows
  BY <1>3, ToldSame DEF InRows, storeVars
<1>6. Buffered(e) \subseteq InHand(e)'
  <2>1. CASE b.asst = {}
    BY <2>1 DEF Buffered
  <2>2. CASE b.asst # {}
    <3>1. x = <<b.asst>>
      BY <2>2 DEF ToIngest, Durable
    <3>2. y \in Seq(Texts) /\ z \in Seq(Texts) /\ b.asst \in Texts
      BY <1>1, HeldType, ToIngestType
    <3> HIDE DEF y, z, b
    <3>3. <<b.asst>> \o y \o z \in Seq(Texts) /\ (<<b.asst>> \o y \o z)[1] = b.asst /\ Len(<<b.asst>> \o y \o z) >= 1
      BY <3>2
    <3>4. b.asst \in InOrder(<<b.asst>> \o y \o z)
      BY <3>3 DEF InOrder
    <3>5. todo'[e] = <<b.asst>> \o y \o z
      BY <1>3, <3>1
    <3>6. b.asst \in InOrder(todo'[e])
      BY <3>4, <3>5
    <3>7. InHand(e)' = UNION InOrder(todo'[e])
      BY DEF InHand, InOrder
    <3> QED BY <3>6, <3>7 DEF Buffered, b
  <2> QED BY <2>1, <2>2
<1>7. Accounted(e)'
  <2>1. InHand(e) = {} /\ AtAppend(e) = {}
    BY <1>3, EmptyIs DEF Phases, Phase, Ingesting, InHand, AtAppend
  <2> QED BY <1>5, <1>6, <2>1 DEF KeptOf, Accounted
<1>8. WholeTold(e)'
  BY <1>3, <1>4, <1>5 DEF KeptOf, WholeTold, BufWhole
<1>9. Backed(e)'
  BY <1>3, BackedSame DEF KeptOf
<1> QED BY <1>4, <1>7, <1>8, <1>9 DEF KeptOf, Emptied

LEMMA TakeKeeps ==
    ASSUME TypeIntact, Phases, Owned, NEW e \in Exchanges, Alone(e), KeptOf(e), TakeWhole(e) \/ ClearBuf(e)
    PROVE  KeptOf(e)'
<1> DEFINE k == key[e]
<1>1. k \in StreamKeys /\ bufs \in [StreamKeys -> Buffers \cup {None}] /\ BufAt(k) \in Buffers
  BY AloneMine, BufAtType DEF Owned, TypeIntact, TableOf
<1>2. /\ todo \in [Exchanges -> Seq(Texts)] /\ whole \in [Exchanges -> Texts]
      /\ task \in [Exchanges -> {"none", "chunk", "last", "end", "answer", "full", "resend"}]
  BY DEF TypeIntact, LocalType
<1>3. /\ pc[e] \in {"take", "clear"} /\ UNCHANGED storeVars
      /\ key' = key /\ stage' = stage /\ pos' = pos /\ resp' = resp
  BY DEF TakeWhole, ClearBuf, Return, Goto, hostVars
<1>4. todo[e] = << >> /\ Flushed(e) /\ Buffered(e) = {}
  <2>1. todo[e] = << >> /\ (task[e] = "answer" => stage[e] = "answered")
    BY <1>3 DEF Phases, Phase, Ingesting
  <2>2. task[e] \in {"end", "answer"}
    BY <1>2, <1>3 DEF Phases, Phase, OfDelta, Ingesting
  <2>3. Flushed(e)
    BY <1>3, <2>1, <2>2 DEF Flushed
  <2> QED BY <2>1, <2>3 DEF KeptOf, Emptied
<1>5. Told(e)' = Told(e) /\ InRows' = InRows
  BY <1>3, ToldSame DEF InRows, storeVars
<1>6. /\ Buffered(e)' = {} /\ BufWhole(e)' = {}
      /\ whole'[e] \in {whole[e], BufWhole(e), {}}
  <2>1. CASE TakeWhole(e)
    <3>1. whole'[e] = BufWhole(e)
      BY <1>2, <2>1 DEF TakeWhole, BufWhole, BufAt
    <3>2. CASE bufs[k] = None
      BY <1>3, <2>1, <3>2 DEF TakeWhole, Buffered, BufWhole, BufAt, NewBuf
    <3>3. CASE bufs[k] # None
      <4>1. bufs'[k] = [bufs[k] EXCEPT !.whole = {}] /\ bufs[k] \in Buffers
        BY <1>1, <2>1, <3>3 DEF TakeWhole
      <4>2. bufs'[k] \in Buffers /\ bufs'[k].asst = bufs[k].asst /\ bufs'[k].whole = {}
        BY <4>1 DEF Buffers, Texts
      <4> QED BY <1>3, <1>4, <3>1, <3>3, <4>2, NoneAssumption DEF Buffered, BufWhole, BufAt
    <3> QED BY <3>1, <3>2, <3>3
  <2>2. CASE ClearBuf(e)
    <3>1. bufs'[k] = None
      BY <1>1, <2>2 DEF ClearBuf
    <3>2. whole'[e] \in {whole[e], {}}
      BY <1>2, <2>2 DEF ClearBuf, Return, localVars
    <3> QED BY <1>3, <3>1, <3>2 DEF Buffered, BufWhole, BufAt, NewBuf
  <2> QED BY <2>1, <2>2
<1>7. Accounted(e)'
  <2>1. InHand(e) = {} /\ AtAppend(e) = {}
    BY <1>3, <1>4, EmptyIs DEF InHand, AtAppend
  <2> QED BY <1>4, <1>5, <2>1 DEF KeptOf, Accounted
<1>8. WholeTold(e)'
  BY <1>5, <1>6 DEF KeptOf, WholeTold
<1>9. Backed(e)'
  BY <1>3, BackedSame DEF KeptOf
<1> QED BY <1>6, <1>7, <1>8, <1>9 DEF KeptOf, Emptied

(* The deliveries of the host. *)
LEMMA BeginKeeps ==
    ASSUME TypeIntact, Phases, Owned, [Next]_vars, Roomy', NEW e \in Exchanges, Alone(e)',
           NEW k \in StreamKeys, NEW r \in Responses[e], HeaderInit(e, k, r)
    PROVE  KeptOf(e)'
<1>1. /\ pc[e] = "idle" /\ stage[e] = "new" /\ pc' = pc /\ task' = task /\ whole' = whole /\ todo' = todo
      /\ pos' = pos /\ UNCHANGED storeVars /\ key'[e] = k /\ stage'[e] = "open"
      /\ \A f \in Exchanges : f # e => key'[f] = key[f]
  BY DEF HeaderInit, localVars, TypeIntact, HostType
<1>2. key[e] = None /\ pos[e] = 0 /\ whole[e] = {} /\ task[e] = "none"
  BY <1>1 DEF TypeIntact, HostType, Control, Phases, Phase
<1>3. bufs[k] = None
  <2>1. \A f \in Exchanges : key[f] # k
    BY <1>1, <1>2, NoneAssumption DEF Alone
  <2> QED BY <2>1 DEF Owned, BufsOwned
<1>4. bufs'[k] = NewBuf
  <2>1. PutBuf(k, NewBuf)
    BY <1>3 DEF HeaderInit
  <2>2. bufs' = [bufs EXCEPT ![k] = NewBuf]
    BY <1>1, <2>1, BufsInPlace DEF Owned
  <2> QED BY <2>2 DEF TypeIntact, TableOf
<1>5. Told(e)' = {}
  BY <1>1, <1>2 DEF Told, Text
<1>6. Accounted(e)'
  BY <1>5 DEF Accounted
<1>7. Emptied(e)'
  BY <1>1, <1>2 DEF Emptied, Flushed
<1>8. WholeTold(e)'
  <2>1. BufWhole(e)' = {}
    BY <1>1, <1>4 DEF BufWhole, BufAt, NewBuf
  <2> QED BY <1>1, <1>2, <2>1 DEF WholeTold
<1>9. ASSUME NEW t \in seen'.marks, \A d \in t : d[1] = e PROVE t = {}
  BY <1>1, <1>2, <1>9, NoneAssumption DEF Owned, MarksOwned, TextsOf, OfKey, storeVars
<1>10. Backed(e)'
  BY <1>9 DEF Backed
<1> QED BY <1>6, <1>7, <1>8, <1>10 DEF KeptOf

(* What a delivery adds to what was told is about to be appended.           *)
LEMMA DeliveryTold ==
    ASSUME TypeIntact, Phases, Owned, IngestAssistant, NEW e \in Exchanges, Alone(e), Chunk(e) \/ Done(e)
    PROVE  /\ pc[e] = "idle" /\ UNCHANGED <<streamVars, markVars, storeVars, key, resp, todo, whole, got, stored>>
           /\ AtAppend(e) = {} /\ Told(e) \subseteq Told(e)' /\ Told(e)' \subseteq Told(e) \cup AtAppend(e)'
           /\ stage[e] \in {"open", "ended"} /\ stage'[e] \in {"open", "ended"}
           /\ \/ pc'[e] \in {"idle", "append"} /\ task'[e] \in {"none", "chunk"} /\ stage'[e] = "open"
              \/ pc'[e] = "append" /\ task'[e] = "last"
              \/ pc'[e] = "residual" /\ task'[e] = "end"
<1> DEFINE d == <<e, pos'[e]>>
<1>1. /\ pc[e] = "idle" /\ UNCHANGED <<streamVars, markVars, storeVars, key, resp, todo, whole, got, stored>>
      /\ stage[e] \in {"open", "ended"} /\ stage'[e] \in {"open", "ended"}
  BY DEF Chunk, Done, Begin, Goto, TypeIntact, HostType
<1>2. /\ pc \in [Exchanges -> PCs] /\ pos \in [Exchanges -> Nat] /\ pos[e] \in 0..Size(e) /\ Size(e) \in Nat
      /\ task \in [Exchanges -> {"none", "chunk", "last", "end", "answer", "full", "resend"}]
      /\ ~streamConflicted(key[e]) /\ task[e] = "none" /\ todo[e] = << >>
  <2>1. stage[e] # "new" /\ ~streamConflicted(key[e])
    BY AloneMine DEF Owned
  <2>2. resp[e] \in Responses[e] /\ pos[e] \in 0..Size(e)
    BY <2>1 DEF TypeIntact, HostType
  <2>3. Size(e) \in Nat
    <3>1. resp[e].deltas \in Seq([kind : {"text", "reasoning", "tool"}, cut : BOOLEAN])
      BY <2>2, ResponsesAssumption
    <3> QED BY <3>1, LenProperties DEF Size
  <2> QED BY <1>1, <2>1, <2>2, <2>3 DEF TypeIntact, HostType, LocalType, Control, Phases, Phase, Ingesting
<1>3. admitDelta("text") /\ Consumers
  BY DEF admitDelta, Consumers
<1>4. /\ pos'[e] >= pos[e] /\ pos'[e] <= pos[e] + 1 /\ pos'[e] \in Nat
      /\ \/ pc'[e] \in {"idle", "append"} /\ task'[e] \in {"none", "chunk"} /\ stage'[e] = "open"
         \/ pc'[e] = "append" /\ task'[e] = "last"
         \/ pc'[e] = "residual" /\ task'[e] = "end"
      /\ pc'[e] = "append" \/ pos'[e] = pos[e] \/ KindOf(d) # "text"
  <2>1. CASE Chunk(e)
    <3>1. pos'[e] = pos[e] + 1 /\ stage'[e] = "open"
      BY <1>2, <2>1 DEF Chunk
    <3>2. CASE ~admitDelta(KindOf(d))
      BY <1>2, <1>3, <2>1, <3>1, <3>2 DEF Chunk, Begin, Goto
    <3>3. CASE admitDelta(KindOf(d))
      BY <1>2, <2>1, <3>1, <3>3 DEF Chunk, Begin, Goto
    <3> QED BY <3>2, <3>3
  <2>2. CASE Done(e)
    <3>1. pos'[e] = Size(e) /\ pos[e] >= Size(e) - 1
      BY <1>2, <2>2 DEF Done
    <3>2. CASE pos[e] < Size(e) /\ admitDelta(KindOf(<<e, Size(e)>>))
      <4>1. Begin(e, "append", "last")
        BY <1>2, <1>3, <2>2, <3>2 DEF Done
      <4> QED BY <1>2, <3>1, <4>1 DEF Begin, Goto
    <3>3. CASE ~(pos[e] < Size(e) /\ admitDelta(KindOf(<<e, Size(e)>>)))
      <4>1. Begin(e, "residual", "end")
        BY <1>2, <1>3, <2>2, <3>3 DEF Done
      <4>2. pos[e] = Size(e) \/ KindOf(d) # "text"
        BY <1>2, <1>3, <3>1, <3>3
      <4> QED BY <1>2, <3>1, <4>1, <4>2 DEF Begin, Goto
    <3> QED BY <3>2, <3>3
  <2> QED BY <2>1, <2>2
<1>5. Text(e)' = Text(e)
  BY <1>1 DEF Text, KindOf, Size
<1>6. ASSUME NEW x \in Text(e) PROVE x = <<e, x[2]>> /\ x[2] \in Nat /\ KindOf(x) = "text"
  BY <1>2 DEF Text
<1>7. Told(e)' = {x \in Text(e) : x[2] <= pos'[e]}
  BY <1>5 DEF Told
<1>8. ASSUME NEW x \in Text(e) PROVE x[2] <= pos[e] => x[2] <= pos'[e]
  BY <1>2, <1>4, <1>6
<1>9. ASSUME NEW x \in Text(e), x[2] <= pos'[e], ~(x[2] <= pos[e])
      PROVE  x = d /\ pc'[e] = "append"
  BY <1>2, <1>4, <1>6, <1>9
<1>10. Told(e)' \subseteq Told(e) \cup AtAppend(e)'
  BY <1>7, <1>9 DEF Told, AtAppend
<1>11. Told(e) \subseteq Told(e)' /\ AtAppend(e) = {}
  BY <1>1, <1>7, <1>8 DEF Told, AtAppend
<1> QED BY <1>1, <1>4, <1>10, <1>11

LEMMA DeliveryKeeps ==
    ASSUME TypeIntact, Phases, Owned, IngestAssistant, NEW e \in Exchanges, Alone(e), KeptOf(e), Chunk(e) \/ Done(e)
    PROVE  KeptOf(e)'
<1>1. /\ pc[e] = "idle" /\ UNCHANGED <<streamVars, storeVars, key, resp, todo, whole>>
      /\ stage'[e] \in {"open", "ended"}
      /\ AtAppend(e) = {} /\ Told(e) \subseteq Told(e)' /\ Told(e)' \subseteq Told(e) \cup AtAppend(e)'
      /\ task'[e] # "end" \/ pc'[e] = "residual"
  BY DeliveryTold
<1>2. Buffered(e)' = Buffered(e) /\ BufWhole(e)' = BufWhole(e) /\ InHand(e)' = InHand(e) /\ InRows' = InRows
  BY <1>1 DEF Buffered, BufWhole, BufAt, InHand, InOrder, InRows, storeVars, streamVars
<1>3. Accounted(e)'
  BY <1>1, <1>2 DEF KeptOf, Accounted
<1>4. Emptied(e)'
  BY <1>1 DEF Emptied, Flushed
<1>5. WholeTold(e)'
  BY <1>1, <1>2 DEF KeptOf, WholeTold
<1>6. Backed(e)'
  BY <1>1, BackedSame DEF KeptOf
<1> QED BY <1>3, <1>4, <1>5, <1>6 DEF KeptOf

-----------------------------------------------------------------------------
NoFailures == Faults \subseteq {"age"}

LEMMA KeptStep ==
    ASSUME NoFailures, TypeIntact, Phases, Owned, KeptInv, [Next]_vars
    PROVE  KeptInv'
<1> SUFFICES ASSUME Roomy', IngestAssistant, NEW e \in Exchanges, Alone(e)' PROVE KeptOf(e)'
  BY DEF KeptInv
<1>1. Roomy
  BY RoomyBefore
<1>2. key[e] # None => Alone(e) /\ KeptOf(e)
  BY <1>1, AloneBefore DEF KeptInv
<1>3. ASSUME key[e] = None, HostCalls(e) \/ HandlerRuns(e)
      PROVE  \E k \in StreamKeys, r \in Responses[e] : HeaderInit(e, k, r)
  <2>1. pc[e] = "idle" /\ stage[e] = "new"
    BY <1>3, NoneAssumption DEF TypeIntact, HostType, Control
  <2>2. ~HandlerRuns(e)
    BY <2>1 DEF HandlerRuns, AppendDelta, OpenForDeltaFails, SegmentPoisoned, SegmentClean, ClaimWon, ClaimLost,
            ProcessText, ProcessFails, Ingested, NoteStored, NoteMark, Tombstone, Residual,
            OpenForResidualFails, FlushBuf, ClaimWhole, TakeWhole, PeekForWhole, ClaimTaken, ClearBuf,
            NeedEngine, OpenForResponse, OpenForResponseFails, Answer, AfterDelta, Return, Goto
  <2> QED BY <1>3, <2>1, <2>2 DEF HostCalls, Chunk, Done, Respond, Resend, Delivered
<1>4. CASE \E k \in StreamKeys, r \in Responses[e] : HeaderInit(e, k, r)
  BY <1>4, BeginKeeps
<1>5. ASSUME HostCalls(e) \/ HandlerRuns(e), key[e] # None PROVE KeptOf(e)'
  <2>1. Alone(e) /\ KeptOf(e) /\ ~streamConflicted(key[e])
    BY <1>2, <1>5, AloneMine DEF Owned
  <2>2. CASE Chunk(e) \/ Done(e)
    BY <2>1, <2>2, DeliveryKeeps
  <2>3. CASE \/ Respond(e) \/ Resend(e) \/ SegmentClean(e) \/ Ingested(e) \/ NoteStored(e) \/ NoteMark(e)
             \/ Tombstone(e) \/ Residual(e) \/ PeekForWhole(e) \/ NeedEngine(e) \/ OpenForResponse(e) \/ Answer(e)
    BY <2>1, <2>3, QuietStepsKeep
  <2>4. CASE ClaimWon(e) \/ ClaimLost(e) \/ ProcessText(e) \/ ClaimWhole(e) \/ ClaimTaken(e)
    BY <2>1, <2>4, StoreStepsKeep
  <2>5. CASE AppendDelta(e)
    BY <2>1, <2>5, AppendKeeps
  <2>6. CASE FlushBuf(e) \/ TakeWhole(e) \/ ClearBuf(e)
    BY <2>1, <2>6, FlushKeeps, TakeKeeps
  <2>7. ~(OpenForDeltaFails(e) \/ ProcessFails(e) \/ OpenForResidualFails(e) \/ OpenForResponseFails(e) \/ SegmentPoisoned(e))
    BY <2>1 DEF NoFailures, OpenForDeltaFails, ProcessFails, OpenForResidualFails, OpenForResponseFails, SegmentPoisoned
  <2> QED BY <1>4, <1>5, <2>2, <2>3, <2>4, <2>5, <2>6, <2>7 DEF HostCalls, HandlerRuns
<1>6. ASSUME NEW f \in Exchanges, HostCalls(f) \/ HandlerRuns(f), f # e PROVE KeptOf(e)'
  <2>1. key[e] # None
    <3>1. key'[e] = key[e]
      BY <1>6, OthersUntouched
    <3> QED BY <3>1 DEF Alone
  <2> QED BY <1>2, <1>6, <2>1, OthersKeep
<1>7. ASSUME UNCHANGED vars \/ \E k \in StreamKeys : AgeBuf(k) \/ AgeMark(k) PROVE KeptOf(e)'
  <2>1. key[e] # None
    <3>1. key' = key
      BY <1>7, TimeTouchesNone DEF vars, hostVars
    <3> QED BY <3>1 DEF Alone
  <2> QED BY <1>2, <1>7, <2>1, TimeKeeps
<1> QED BY <1>3, <1>4, <1>5, <1>6, <1>7 DEF Next

DeliveryInv == TypeIntact /\ Finished /\ Phases /\ Owned /\ KeptInv

LEMMA DeliveryInvHolds ==
    ASSUME NoFailures
    PROVE  Spec => []DeliveryInv
<1>1. Init => DeliveryInv
  <2> SUFFICES ASSUME Init PROVE DeliveryInv
    OBVIOUS
  <2>1. TypeIntact /\ Finished /\ Phases
    BY InitType DEF Init, Finished, Phases, Phase
  <2>2. Owned
    BY DEF Init, Owned, BufsOwned, TodoOwned, WholeOwned, MarksOwned, streamConflicted, NoneSeen,
           TextsOf, OfKey, Texts
  <2>3. KeptInv
    BY DEF Init, KeptInv, Alone
  <2> QED BY <2>1, <2>2, <2>3 DEF DeliveryInv
<1>2. DeliveryInv /\ [Next]_vars => DeliveryInv'
  BY TypeStep, FinishedStep, PhaseStep, OwnedStep, KeptStep DEF DeliveryInv
<1> QED BY <1>1, <1>2, PTL DEF Spec

(* All that was delivered to an exchange whose buffer has been flushed is   *)
(* stored, but for what the handler is about to ingest.                     *)
LEMMA FlushedIsStored ==
    ASSUME DeliveryInv, Roomy, IngestAssistant, NEW e \in Exchanges, Alone(e),
           stage[e] = "answered", pc[e] \in {"idle", "answer"}
    PROVE  Covered(Text(e))
<1>1. KeptOf(e)
  BY DEF DeliveryInv, KeptInv
<1>2. Buffered(e) = {} /\ InHand(e) = {} /\ AtAppend(e) = {}
  <2>1. Buffered(e) = {}
    BY <1>1 DEF KeptOf, Emptied, Flushed
  <2>2. todo[e] = << >>
    BY DEF DeliveryInv, Phases, Phase, Ingesting
  <2> QED BY <2>1, <2>2, EmptyIs DEF InHand, AtAppend
<1>3. Told(e) \subseteq InRows
  BY <1>1, <1>2 DEF KeptOf, Accounted
<1>4. Text(e) = Told(e)
  <2>1. pos[e] = Size(e)
    BY DEF DeliveryInv, Finished
  <2> QED BY <2>1 DEF Told, Text
<1> QED BY <1>3, <1>4 DEF Covered, InRows

(* Once the assembled body of a streamed response has been handled, all of  *)
(* its text is durably stored, by its segments or by the body: for an       *)
(* exchange that shares its stream key with no other, while no buffer has   *)
(* been evicted and no engine call fails, however marks and poison age      *)
(* (intercept.go:190-246, 478-610).                                         *)
THEOREM AnsweredIsStored ==
    ASSUME NoFailures
    PROVE  Spec => [](Roomy => AnsweredStored)
<1>1. DeliveryInv => (Roomy => AnsweredStored)
  BY FlushedIsStored DEF AnsweredStored
<1> QED BY <1>1, DeliveryInvHolds, PTL

(* Nor is the assembled body skipped for a stream of which something was    *)
(* lost: what HandleResponse reads off the mark and off its own flush then  *)
(* tells the truth (intercept.go:216-241, 608-611, 696-701).                *)
THEOREM SkipsLoseNothing ==
    ASSUME NoFailures
    PROVE  Spec => [](Roomy /\ IngestAssistant => SkipLosesNothing)
<1>1. DeliveryInv => (Roomy /\ IngestAssistant => SkipLosesNothing)
  <2> SUFFICES ASSUME DeliveryInv, Roomy, IngestAssistant, NEW e \in Exchanges, pc[e] = "answer", Alone(e)
               PROVE  Covered(Text(e))
    BY DEF SkipLosesNothing
  <2>1. stage[e] = "answered"
    BY DEF DeliveryInv, TypeIntact, LocalType, Phases, Phase, OfDelta, OfEnd, Ingesting
  <2> QED BY <2>1, FlushedIsStored
<1> QED BY <1>1, DeliveryInvHolds, PTL

(* Nor does any claim stand for text that is neither stored nor being       *)
(* stored: the stale claim on a whole message that the source admits, and   *)
(* a failing ingest leaves (intercept.go:686-692), needs that failure.      *)
THEOREM ClaimsAreBacked ==
    ASSUME NoFailures
    PROVE  Spec => [](Roomy /\ IngestAssistant => ClaimKeepsText)
<1>1. DeliveryInv => (Roomy /\ IngestAssistant => ClaimKeepsText)
  <2> SUFFICES ASSUME DeliveryInv, Roomy, IngestAssistant, NEW t \in seen.marks, \A d \in t : Alone(d[1])
               PROVE  Covered(t) \/ \E e \in Exchanges : pc[e] = "process" /\ Head(todo[e]) = t
    BY DEF ClaimKeepsText
  <2>1. CASE t = {}
    BY <2>1 DEF Covered
  <2>2. CASE t # {}
    <3>1. PICK k \in StreamKeys : t \in TextsOf(k)
      BY DEF DeliveryInv, Owned, MarksOwned
    <3>2. PICK c \in t : TRUE
      BY <2>2
    <3> DEFINE e == c[1]
    <3>3. e \in Exchanges /\ key[e] = k /\ Alone(e)
      BY <3>1, <3>2 DEF TextsOf, OfKey, Texts, Deltas
    <3>4. \A d \in t : d[1] = e
      BY <3>1, <3>3, AloneMine DEF DeliveryInv, Owned
    <3>5. Backed(e)
      BY <3>3 DEF DeliveryInv, KeptInv, KeptOf
    <3> HIDE DEF e
    <3> QED BY <3>3, <3>4, <3>5 DEF Backed, Covered, InRows
  <2> QED BY <2>1, <2>2
<1> QED BY <1>1, DeliveryInvHolds, PTL

-----------------------------------------------------------------------------
(* That no text is stored twice needs more: no fault at all, for a failed   *)
(* call or an expired mark lets the assembled body in beside its segments,  *)
(* and a dedupe set that forgets no claim.                                  *)
NoFaults  == Faults = {}
Remembers == seen.marks \subseteq seen'.marks

(* What is stored is of exchanges that have begun, a mark is of a key that  *)
(* is in use, and what is in the order of the claims is claimed.            *)
RowsBegun  == \A d \in InRows : key[d[1]] # None
MarksKeyed == \A k \in StreamKeys : marks[k] # None => \E e \in Exchanges : key[e] = k
SeenExact  == InOrder(seen.order) \subseteq seen.marks
Ledger     == RowsBegun /\ MarksKeyed /\ SeenExact

(* A claim that forgets none is itself remembered. *)
LEMMA ClaimRemembered ==
    ASSUME SeenType, SeenExact, NEW h \in Texts, seen' = Claimed(seen, h), Remembers
    PROVE  h \in seen'.marks /\ SeenExact'
<1> DEFINE order == Append(seen.order, h)
           n     == Len(order)
           part  == MaxSeen \div 4
           drop  == IF n > MaxSeen THEN n - MaxSeen + part ELSE 0
<1>1. /\ order \in Seq(Texts) /\ n = Len(seen.order) + 1 /\ Len(seen.order) \in Nat
      /\ order[n] = h /\ \A i \in 1..Len(seen.order) : order[i] = seen.order[i]
  BY DEF SeenType
<1>2. MaxSeen \in Nat \ {0} /\ part \in Nat
  <2>1. \A m \in Nat \ {0} : m \div 4 \in Nat
    OBVIOUS
  <2> QED BY <2>1, MaxSeenAssumption
<1>3. /\ seen'.marks = (seen.marks \cup {h}) \ {order[i] : i \in 1..drop}
      /\ seen'.order = SubSeq(order, drop + 1, n)
  BY DEF Claimed
<1> HIDE DEF part, order
<1>4. n <= MaxSeen
  <2> SUFFICES ASSUME n > MaxSeen PROVE FALSE
    BY <1>1, <1>2
  <2>1. drop >= 1 /\ drop \in Nat /\ 1 \in 1..Len(seen.order)
    BY <1>1, <1>2
  <2>2. 1 \in 1..drop
    BY <2>1
  <2> HIDE DEF drop
  <2>3. order[1] \notin seen'.marks
    BY <1>3, <2>2
  <2>4. order[1] \in seen.marks
    BY <1>1, <2>1 DEF SeenExact, InOrder
  <2> QED BY <2>3, <2>4 DEF Remembers
<1>5. drop = 0
  BY <1>1, <1>2, <1>4
<1>6. seen'.marks = seen.marks \cup {h}
  BY <1>3, <1>5
<1>7. seen'.order = order
  BY <1>1, <1>3, <1>5
<1>8. InOrder(order) \subseteq InOrder(seen.order) \cup {h}
  <2> SUFFICES ASSUME NEW i \in 1..n PROVE order[i] \in InOrder(seen.order) \cup {h}
    BY DEF InOrder
  <2>1. i = n \/ i \in 1..Len(seen.order)
    BY <1>1
  <2> QED BY <1>1, <2>1 DEF InOrder
<1> QED BY <1>6, <1>7, <1>8 DEF SeenExact

(* What is stored was being ingested. *)
LEMMA RowsGrow ==
    ASSUME [Next]_vars, NEW t \in rows', t \notin rows
    PROVE  \E e \in Exchanges : ProcessText(e) /\ t = Head(todo[e]) /\ rows' = rows \cup {Head(todo[e])}
<1>1. ASSUME NEW e \in Exchanges, ClaimWon(e) \/ ProcessFails(e) \/ ClaimWhole(e) \/ ClaimTaken(e)
      PROVE  rows' = rows
  BY <1>1 DEF ClaimWon, ProcessFails, ClaimWhole, ClaimTaken
<1>2. ASSUME NEW e \in Exchanges, ProcessText(e) PROVE rows' = rows \cup {Head(todo[e])}
  BY <1>2 DEF ProcessText
<1> QED BY <1>1, <1>2, StoreWritten DEF StoreWriters, storeVars

LEMMA LedgerStep ==
    ASSUME NoFaults, TypeIntact, Phases, Owned, Ledger, [Next]_vars, Remembers
    PROVE  Ledger'
<1>1. \A e \in Exchanges : key[e] # None => key'[e] = key[e]
  BY KeysStay
<1>2. RowsBegun'
  <2> SUFFICES ASSUME NEW t \in rows', NEW d \in t PROVE key'[d[1]] # None
    BY DEF RowsBegun, InRows
  <2>1. rows \subseteq Texts /\ rows' \subseteq Texts
    BY StoreStep DEF TypeIntact
  <2>2. d[1] \in Exchanges
    BY <2>1 DEF Texts, Deltas
  <2>3. key[d[1]] # None
    <3>1. CASE t \in rows
      BY <3>1 DEF Ledger, RowsBegun, InRows
    <3>2. CASE t \notin rows
      <4>1. PICK e \in Exchanges : ProcessText(e) /\ t = Head(todo[e])
        BY <3>2, RowsGrow
      <4>2. pc[e] = "process" /\ todo[e] # << >> /\ todo[e] \in Seq(TextsOf(key[e]))
        BY <4>1 DEF ProcessText, Goto, TypeIntact, Control, Owned, TodoOwned
      <4>3. t \in TextsOf(key[e]) /\ key[e] \in StreamKeys
        BY <4>1, <4>2, TailType, BusyHasKey
      <4> QED BY <4>3, NoneAssumption DEF TextsOf, OfKey
    <3> QED BY <3>1, <3>2
  <2> QED BY <1>1, <2>2, <2>3
<1>3. MarksKeyed'
  <2> SUFFICES ASSUME NEW k \in StreamKeys, marks'[k] # None PROVE \E e \in Exchanges : key'[e] = k
    BY DEF MarksKeyed
  <2>1. marks[k] # None => \E e \in Exchanges : key'[e] = k
    BY <1>1, NoneAssumption DEF Ledger, MarksKeyed
  <2>2. ASSUME NEW e \in Exchanges, NEW f, PutMark(key[e], f), pc[e] # "idle" PROVE \E g \in Exchanges : key'[g] = k
    <3>1. key[e] \in StreamKeys /\ key'[e] = key[e]
      BY <1>1, <2>2, BusyHasKey, NoneAssumption
    <3>2. marks[k] # None \/ k = key[e]
      BY <2>2, <3>1 DEF PutMark, Put
    <3> QED BY <2>1, <3>1, <3>2
  <2>3. ASSUME NEW e \in Exchanges, NoteMark(e) \/ Tombstone(e) PROVE marks' = marks \/ (pc[e] # "idle" /\ \E f : PutMark(key[e], f))
    BY <2>3 DEF NoteMark, Tombstone, AfterDelta, Return, Goto, markVars
  <2>4. ASSUME NEW e \in Exchanges, Answer(e) PROVE marks[k] # None
    BY <2>4 DEF Answer, TypeIntact, TableOf
  <2>5. ASSUME NEW j \in StreamKeys, AgeMark(j) PROVE FALSE
    BY <2>5 DEF AgeMark, NoFaults
  <2> QED BY <2>1, <2>2, <2>3, <2>4, <2>5, MarksWritten DEF MarkWriters, markVars
<1>4. SeenExact'
  <2>1. CASE seen' = seen
    BY <2>1 DEF Ledger, SeenExact
  <2>2. ASSUME NEW h \in Texts, seen' = Claimed(seen, h) PROVE SeenExact'
    BY <2>2, ClaimRemembered DEF Ledger, TypeIntact
  <2>3. ASSUME NEW e \in Exchanges, ClaimWon(e) PROVE SeenExact'
    <3>1. Head(todo[e]) \in Texts /\ seen' = Claimed(seen, Head(todo[e]))
      BY <2>3, HeadType DEF ClaimWon
    <3> QED BY <2>2, <3>1
  <2>4. ASSUME NEW e \in Exchanges, ClaimWhole(e) \/ ClaimTaken(e) PROVE SeenExact'
    <3>1. whole[e] \in Texts /\ (seen' = seen \/ seen' = Claimed(seen, whole[e]))
      BY <2>4 DEF ClaimWhole, ClaimTaken, MarkSeen, TypeIntact, LocalType
    <3> QED BY <2>1, <2>2, <3>1
  <2>5. ASSUME NEW e \in Exchanges, ProcessText(e) PROVE seen' = seen
    BY <2>5 DEF ProcessText
  <2>6. ASSUME NEW e \in Exchanges, ProcessFails(e) PROVE FALSE
    BY <2>6 DEF ProcessFails, NoFaults
  <2> QED BY <2>1, <2>3, <2>4, <2>5, <2>6, StoreWritten DEF StoreWriters, storeVars
<1> QED BY <1>2, <1>3, <1>4 DEF Ledger

(* No mark but that of the exchange's own key changes. *)
LEMMA MarksInPlace ==
    ASSUME TypeIntact, MarksKeyed, [Next]_vars, Roomy', NEW e \in Exchanges, pc[e] # "idle",
           NEW failed, PutMark(key[e], failed)
    PROVE  marks' = [marks EXCEPT ![key[e]] =
                        [failed |-> failed \/ (marks[key[e]] # None /\ marks[key[e]].failed), aged |-> FALSE]]
<1> DEFINE K == KeysInUse'
           entry == [failed |-> failed \/ (marks[key[e]] # None /\ marks[key[e]].failed), aged |-> FALSE]
<1>1. IsFiniteSet(K) /\ Cardinality(K) <= MaxBufs /\ KeysInUse \subseteq K
  BY KeysStay DEF Roomy
<1>2. key[e] \in StreamKeys /\ key[e] \in KeysInUse
  BY BusyHasKey, NoneAssumption DEF KeysInUse
<1>3. \A j \in StreamKeys : marks[j] # None => j \in KeysInUse
  BY NoneAssumption DEF MarksKeyed, KeysInUse
<1>4. TableOf(marks, markOrder, Marks) /\ marks' = Put(marks, markOrder, key[e], entry)
  BY DEF TypeIntact, PutMark
<1> HIDE DEF K, entry
<1>5. marks' = [marks EXCEPT ![key[e]] = entry]
  BY <1>1, <1>2, <1>3, <1>4, PutEvictsNone
<1> QED BY <1>5 DEF entry

LEMMA MarksElsewhere ==
    ASSUME NoFaults, TypeIntact, MarksKeyed, [Next]_vars, Roomy', NEW k \in StreamKeys,
           \/ \E e \in Exchanges : (HostCalls(e) \/ HandlerRuns(e)) /\ k # key'[e]
           \/ UNCHANGED vars \/ \E j \in StreamKeys : AgeBuf(j) \/ AgeMark(j)
    PROVE  marks'[k] = marks[k]
<1>1. marks \in [StreamKeys -> Marks \cup {None}]
  BY DEF TypeIntact, TableOf
<1>2. CASE UNCHANGED vars \/ \E j \in StreamKeys : AgeBuf(j) \/ AgeMark(j)
  BY <1>2 DEF vars, markVars, AgeBuf, AgeMark, NoFaults
<1>3. ASSUME NEW e \in Exchanges, HostCalls(e) \/ HandlerRuns(e), k # key'[e] PROVE marks'[k] = marks[k]
  <2>1. CASE HostCalls(e)
    BY <2>1 DEF HostCalls, HeaderInit, Chunk, Done, Respond, Resend, markVars
  <2>2. CASE NoteMark(e) \/ Tombstone(e)
    <3>1. key' = key /\ pc[e] # "idle" /\ (marks' = marks \/ \E f : PutMark(key[e], f))
      BY <2>2 DEF NoteMark, Tombstone, AfterDelta, Return, Goto, hostVars, markVars
    <3> QED BY <1>1, <1>3, <3>1, MarksInPlace
  <2>3. CASE Answer(e)
    BY <1>1, <1>3, <2>3 DEF Answer, hostVars
  <2>4. CASE HandlerRuns(e) /\ ~(NoteMark(e) \/ Tombstone(e) \/ Answer(e))
    BY <2>4 DEF HandlerRuns, AppendDelta, OpenForDeltaFails, SegmentPoisoned, SegmentClean,
                ClaimWon, ClaimLost, ProcessText, ProcessFails, Ingested, NoteStored, Residual,
                OpenForResidualFails, FlushBuf, ClaimWhole, TakeWhole, PeekForWhole, ClaimTaken, ClearBuf,
                NeedEngine, OpenForResponse, OpenForResponseFails, markVars
  <2> QED BY <1>3, <2>1, <2>2, <2>3, <2>4
<1> QED BY <1>2, <1>3

-----------------------------------------------------------------------------
(* What is stored of an exchange, what its handler has in hand and what is  *)
(* left in its buffer do not overlap.                                       *)
Buf(e)        == BufAt(key[e])
Parts(b)      == b.asst \cup b.reason \cup b.tools
PartsApart(b) == b.asst \cap b.reason = {} /\ b.asst \cap b.tools = {} /\ b.reason \cap b.tools = {}
Apart(s)      == \A i, j \in 1..Len(s) : i # j => s[i] \cap s[j] = {}

(* The handler has the assembled body or the resent message in hand.        *)
HasMessage(e) == task[e] \in {"full", "resend"}

(* Of a text, what is of e was delivered, and is not about to be appended.  *)
Earlier(e, t) == \A d \in t : d[1] = e => d[2] <= pos[e] /\ (pc[e] = "append" => d[2] # pos[e])

RowsApart(e) == \A r, t \in rows : r # t => \A d \in r \cap t : d[1] # e

SegmentsApart(e) ==
    /\ RowsApart(e)
    /\ PartsApart(Buf(e))
    /\ Apart(todo[e])
    /\ Parts(Buf(e)) \cap InRows = {}
    /\ HasMessage(e) \/ InHand(e) \cap (InRows \cup Parts(Buf(e))) = {}
    /\ Earlier(e, InRows) /\ Earlier(e, Parts(Buf(e))) /\ Earlier(e, InHand(e))

LEMMA PartsType ==
    ASSUME NEW b \in Buffers
    PROVE  Parts(b) \in Texts /\ Parts(b) \subseteq Held(b)
BY DEF Buffers, Held, Parts, Texts

LEMMA InHandType ==
    ASSUME TypeIntact, NEW e \in Exchanges
    PROVE  InHand(e) \in Texts
<1>1. todo[e] \in Seq(Texts)
  BY DEF TypeIntact, LocalType
<1>2. InOrder(todo[e]) \subseteq Texts
  BY <1>1, ElementOfSeq DEF InOrder
<1> QED BY <1>2 DEF InHand, Texts

LEMMA EmptyApart == Apart(<< >>) /\ \A x : Apart(<<x>>) /\ InOrder(<<x>>) = {x}
<1>1. \A x : Len(<<x>>) = 1 /\ <<x>>[1] = x /\ Len(<< >>) = 0
  OBVIOUS
<1>2. Apart(<< >>) /\ \A x : Apart(<<x>>)
  BY <1>1 DEF Apart
<1>3. \A x : InOrder(<<x>>) = {x}
  BY <1>1 DEF InOrder
<1> QED BY <1>2, <1>3

LEMMA TailApart ==
    ASSUME NEW S, NEW s \in Seq(S), s # << >>, Apart(s)
    PROVE  /\ Apart(Tail(s)) /\ InOrder(Tail(s)) \subseteq InOrder(s) /\ Head(s) \in InOrder(s)
           /\ \A t \in InOrder(Tail(s)) : t \cap Head(s) = {}
<1>1. Len(Tail(s)) = Len(s) - 1 /\ Len(s) \in Nat \ {0} /\ Head(s) = s[1]
  OBVIOUS
<1>2. \A i \in 1..Len(Tail(s)) : i + 1 \in 1..Len(s) /\ Tail(s)[i] = s[i + 1]
  OBVIOUS
<1>3. Apart(Tail(s))
  <2> SUFFICES ASSUME NEW i \in 1..Len(Tail(s)), NEW j \in 1..Len(Tail(s)), i # j
               PROVE  Tail(s)[i] \cap Tail(s)[j] = {}
    BY DEF Apart
  <2>1. i + 1 # j + 1
    BY <1>1
  <2> QED BY <1>2, <2>1 DEF Apart
<1>4. ASSUME NEW t \in InOrder(Tail(s)) PROVE t \in InOrder(s) /\ t \cap Head(s) = {}
  <2>1. PICK i \in 1..Len(Tail(s)) : t = Tail(s)[i]
    BY DEF InOrder
  <2>2. i + 1 # 1 /\ 1 \in 1..Len(s)
    BY <1>1, <2>1
  <2>3. t = s[i + 1] /\ i + 1 \in 1..Len(s)
    BY <1>2, <2>1
  <2> QED BY <1>1, <2>2, <2>3 DEF Apart, InOrder
<1>5. Head(s) \in InOrder(s)
  BY <1>1 DEF InOrder
<1> QED BY <1>3, <1>4, <1>5

LEMMA ConcatApart ==
    ASSUME NEW S, NEW s \in Seq(S), NEW t \in Seq(S), Apart(s), Apart(t),
           \A x \in InOrder(s), y \in InOrder(t) : x \cap y = {}
    PROVE  Apart(s \o t) /\ InOrder(s \o t) = InOrder(s) \cup InOrder(t)
<1> DEFINE u == s \o t
           m == Len(s)
           n == Len(t)
<1>1. m \in Nat /\ n \in Nat /\ Len(u) = m + n
  OBVIOUS
<1>2. /\ \A i \in 1..m : u[i] = s[i] /\ i \in 1..Len(u)
      /\ \A i \in 1..n : u[m + i] = t[i] /\ m + i \in 1..Len(u)
  OBVIOUS
<1>3. \A i \in 1..Len(u) : i \in 1..m \/ (i - m \in 1..n /\ m + (i - m) = i)
  BY <1>1
<1> HIDE DEF u
<1>4. ASSUME NEW i \in 1..Len(u)
      PROVE  (i \in 1..m /\ u[i] = s[i]) \/ (i - m \in 1..n /\ u[i] = t[i - m] /\ ~(i \in 1..m))
  BY <1>1, <1>2, <1>3
<1>5. Apart(u)
  <2> SUFFICES ASSUME NEW i \in 1..Len(u), NEW j \in 1..Len(u), i # j PROVE u[i] \cap u[j] = {}
    BY DEF Apart
  <2>1. CASE i \in 1..m /\ j \in 1..m
    BY <1>2, <2>1 DEF Apart
  <2>2. CASE ~(i \in 1..m) /\ ~(j \in 1..m)
    <3>1. i - m \in 1..n /\ j - m \in 1..n /\ u[i] = t[i - m] /\ u[j] = t[j - m]
      BY <1>4, <2>2
    <3>2. i - m # j - m
      BY <1>1
    <3> QED BY <3>1, <3>2 DEF Apart
  <2>3. CASE i \in 1..m /\ ~(j \in 1..m)
    <3>1. u[i] \in InOrder(s) /\ u[j] \in InOrder(t)
      BY <1>4, <2>3 DEF InOrder
    <3> QED BY <3>1
  <2>4. CASE ~(i \in 1..m) /\ j \in 1..m
    <3>1. u[j] \in InOrder(s) /\ u[i] \in InOrder(t)
      BY <1>4, <2>4 DEF InOrder
    <3> QED BY <3>1
  <2> QED BY <2>1, <2>2, <2>3, <2>4
<1>6. InOrder(u) \subseteq InOrder(s) \cup InOrder(t)
  BY <1>4 DEF InOrder
<1>7. InOrder(s) \subseteq InOrder(u) /\ InOrder(t) \subseteq InOrder(u)
  BY <1>2 DEF InOrder
<1> QED BY <1>5, <1>6, <1>7 DEF u

LEMMA IngestApart ==
    ASSUME NEW A \in Texts, NEW kind
    PROVE  /\ ToIngest(A, kind) \in Seq(Texts) /\ Apart(ToIngest(A, kind))
           /\ InOrder(ToIngest(A, kind)) \subseteq {A}
BY EmptyApart, EmptyIs, ToIngestType DEF ToIngest

(* Three texts that do not overlap, each ingested or not. *)
LEMMA FlushApart ==
    ASSUME NEW b \in Buffers, PartsApart(b)
    PROVE  LET s == ToIngest(b.asst, "text") \o ToIngest(b.reason, "reasoning") \o ToIngest(b.tools, "tool")
           IN  Apart(s) /\ UNION InOrder(s) \subseteq Parts(b)
<1> DEFINE x == ToIngest(b.asst, "text")
           y == ToIngest(b.reason, "reasoning")
           z == ToIngest(b.tools, "tool")
<1>1. /\ x \in Seq(Texts) /\ Apart(x) /\ InOrder(x) \subseteq {b.asst}
      /\ y \in Seq(Texts) /\ Apart(y) /\ InOrder(y) \subseteq {b.reason}
      /\ z \in Seq(Texts) /\ Apart(z) /\ InOrder(z) \subseteq {b.tools}
  BY HeldType, IngestApart
<1> HIDE DEF x, y, z
<1>2. x \o y \in Seq(Texts)
  BY <1>1
<1>3. Apart(x \o y) /\ InOrder(x \o y) = InOrder(x) \cup InOrder(y)
  <2>1. \A p \in InOrder(x), q \in InOrder(y) : p \cap q = {}
    BY <1>1 DEF PartsApart
  <2> QED BY <1>1, <2>1, ConcatApart
<1> DEFINE w == x \o y
<1>4. Apart(w) /\ w \in Seq(Texts) /\ \A p \in InOrder(w) : p \in {b.asst, b.reason}
  BY <1>1, <1>2, <1>3
<1> HIDE DEF w
<1>5. \A p \in InOrder(w), q \in InOrder(z) : p \cap q = {}
  BY <1>1, <1>4 DEF PartsApart
<1>6. Apart(w \o z) /\ InOrder(w \o z) = InOrder(w) \cup InOrder(z)
  BY <1>1, <1>4, <1>5, ConcatApart
<1>7. UNION InOrder(w \o z) \subseteq Parts(b)
  BY <1>1, <1>4, <1>6 DEF Parts
<1> QED BY <1>6, <1>7 DEF w, x, y, z

(* Deltas delivered before stay earlier as long as the next to append is    *)
(* one that comes after them.                                               *)
LEMMA EarlierStays ==
    ASSUME TypeIntact, NEW e \in Exchanges, NEW t, t \subseteq Deltas, Earlier(e, t), NEW u, u \subseteq t,
           pos'[e] \in Nat, pos'[e] >= pos[e], pc'[e] = "append" => pos'[e] > pos[e] \/ (pc[e] = "append" /\ pos'[e] = pos[e])
    PROVE  \A d \in u : d[1] = e => d[2] <= pos'[e] /\ (pc'[e] = "append" => d[2] # pos'[e])
<1> SUFFICES ASSUME NEW d \in u, d[1] = e PROVE d[2] <= pos'[e] /\ (pc'[e] = "append" => d[2] # pos'[e])
  OBVIOUS
<1>1. d[2] \in Nat /\ pos[e] \in Nat
  BY DEF Deltas, TypeIntact, HostType
<1>2. d[2] <= pos[e] /\ (pc[e] = "append" => d[2] # pos[e])
  BY DEF Earlier
<1> QED BY <1>1, <1>2

(* A step that stores nothing, and leaves no more in the buffer or in hand  *)
(* than there was.                                                          *)
LEMMA ApartStays ==
    ASSUME TypeIntact, NEW e \in Exchanges, key[e] \in StreamKeys, SegmentsApart(e), rows' = rows,
           Buf(e)'.asst \subseteq Buf(e).asst, Buf(e)'.reason \subseteq Buf(e).reason, Buf(e)'.tools \subseteq Buf(e).tools,
           todo'[e] \in {todo[e], << >>}, HasMessage(e) => HasMessage(e)' \/ todo'[e] = << >>,
           pos'[e] \in Nat, pos'[e] >= pos[e], pc'[e] = "append" => pos'[e] > pos[e] \/ (pc[e] = "append" /\ pos'[e] = pos[e])
    PROVE  SegmentsApart(e)'
<1>1. InRows' = InRows /\ RowsApart(e)'
  BY DEF InRows, RowsApart, SegmentsApart
<1>2. Parts(Buf(e)') \subseteq Parts(Buf(e)) /\ PartsApart(Buf(e)')
  BY DEF Parts, PartsApart, SegmentsApart
<1>3. Apart(todo'[e]) /\ InHand(e)' \subseteq InHand(e) /\ (todo'[e] = << >> => InHand(e)' = {})
  <2>1. InHand(e)' = UNION InOrder(todo'[e])
    BY DEF InHand, InOrder
  <2> QED BY <2>1, EmptyApart, EmptyIs DEF SegmentsApart, InHand
<1>4. InRows \subseteq Deltas /\ Parts(Buf(e)) \subseteq Deltas /\ InHand(e) \subseteq Deltas
  <2>1. Buf(e) \in Buffers
    BY BufAtType DEF Buf
  <2> QED BY <2>1, PartsType, InHandType DEF TypeIntact, InRows, Texts
<1>5. Earlier(e, InRows)' /\ Earlier(e, Parts(Buf(e)))' /\ Earlier(e, InHand(e))'
  <2>1. \A d \in InRows : d[1] = e => d[2] <= pos'[e] /\ (pc'[e] = "append" => d[2] # pos'[e])
    BY <1>4, EarlierStays DEF SegmentsApart
  <2>2. \A d \in Parts(Buf(e)') : d[1] = e => d[2] <= pos'[e] /\ (pc'[e] = "append" => d[2] # pos'[e])
    BY <1>2, <1>4, EarlierStays DEF SegmentsApart
  <2>3. \A d \in InHand(e)' : d[1] = e => d[2] <= pos'[e] /\ (pc'[e] = "append" => d[2] # pos'[e])
    BY <1>3, <1>4, EarlierStays DEF SegmentsApart
  <2>4. Earlier(e, InRows)'
    BY <1>1, <2>1 DEF Earlier
  <2>5. Earlier(e, Parts(Buf(e)))'
    BY <2>2 DEF Earlier, Parts
  <2>6. Earlier(e, InHand(e))'
    BY <2>3 DEF Earlier
  <2> QED BY <2>4, <2>5, <2>6
<1>6. PartsApart(Buf(e))' /\ Apart(todo[e])' /\ Parts(Buf(e))' = Parts(Buf(e)')
  BY <1>2, <1>3 DEF PartsApart, Apart, Parts
<1> QED BY <1>1, <1>2, <1>3, <1>5, <1>6 DEF SegmentsApart

(* The append of a delta, part by part of the buffer. *)
AppendedTo(e, entry, seg) ==
    LET d == <<e, pos[e]>>
        b == Buf(e)
    IN  /\ entry \in Buffers /\ PutBuf(key[e], entry)
        /\ entry.storedAny = b.storedAny
        /\ entry.whole = b.whole \cup {x \in {d} : KindOf(x) = "text"}
        /\ Parts(entry) \subseteq Parts(b) \cup {d} /\ seg \subseteq Parts(b) \cup {d}
        /\ todo'[e] \in {<< >>, <<seg>>}
        /\ PartsApart(b) /\ d \notin Parts(b) =>
              PartsApart(entry) /\ (todo'[e] = << >> \/ seg \cap Parts(entry) = {})

LEMMA AppendParts ==
    ASSUME TypeIntact, Phases, NEW e \in Exchanges, AppendDelta(e)
    PROVE  /\ \E entry, seg : AppendedTo(e, entry, seg)
           /\ \/ pc'[e] = "recheck" /\ task' = task
              \/ pc'[e] = "idle" /\ task[e] = "chunk" /\ task'[e] = "none"
              \/ pc'[e] = "residual" /\ task[e] = "last" /\ task'[e] = "end"
           /\ task[e] \in {"chunk", "last"}
<1> DEFINE k == key[e]
           d == <<e, pos[e]>>
           b == IF bufs[k] = None THEN NewBuf ELSE [bufs[k] EXCEPT !.aged = FALSE]
           segment == (IF KindOf(d) = "text" THEN b.asst ELSE b.reason) \cup {d}
           kept == IF Cuts(d) THEN {} ELSE segment
           entry == CASE KindOf(d) = "tool" -> [b EXCEPT !.tools = @ \cup {d}]
                      [] KindOf(d) = "reasoning" -> [b EXCEPT !.reason = kept]
                      [] KindOf(d) = "text" -> [b EXCEPT !.asst = kept, !.whole = @ \cup {d}]
<1>1. pc[e] = "append" /\ k \in StreamKeys /\ stage[e] # "new" /\ pos[e] \in 1..Size(e)
  BY BusyHasKey DEF AppendDelta, TypeIntact, Control
<1>2. d \in Deltas /\ KindOf(d) \in {"text", "reasoning", "tool"} /\ Cuts(d) \in BOOLEAN
  BY <1>1, DeltaType
<1>3. task[e] \in {"chunk", "last"}
  BY <1>1 DEF Phases, Phase, OfEnd, OfAnswer, Ingesting, TypeIntact, LocalType
<1>4. /\ pc \in [Exchanges -> PCs] /\ todo \in [Exchanges -> Seq(Texts)]
      /\ task \in [Exchanges -> {"none", "chunk", "last", "end", "answer", "full", "resend"}]
      /\ todo[e] = << >>
  BY <1>1 DEF TypeIntact, LocalType, Phases, Phase, Ingesting
<1>5. /\ b \in Buffers /\ b.asst = Buf(e).asst /\ b.reason = Buf(e).reason /\ b.tools = Buf(e).tools
      /\ b.whole = Buf(e).whole /\ b.storedAny = Buf(e).storedAny
  <2>1. CASE bufs[k] = None
    BY <2>1 DEF Buf, BufAt, NewBuf, Buffers, Texts
  <2>2. CASE bufs[k] # None
    <3>1. bufs[k] \in Buffers
      BY <1>1, <2>2, BufAtType
    <3> QED BY <2>2, <3>1 DEF Buf, BufAt, Buffers
  <2> QED BY <2>1, <2>2
<1>6. /\ PutBuf(k, entry)
      /\ \/ /\ KindOf(d) # "tool" /\ Cuts(d) /\ pc' = [pc EXCEPT ![e] = "recheck"] /\ task' = task
            /\ todo' = [todo EXCEPT ![e] = ToIngest(segment, KindOf(d))]
         \/ /\ ~(KindOf(d) # "tool" /\ Cuts(d)) /\ AfterDelta(e, "append", TRUE)
  BY DEF AppendDelta, Goto
<1>7. /\ ~(KindOf(d) # "tool" /\ Cuts(d)) => todo'[e] = << >>
      /\ KindOf(d) # "tool" /\ Cuts(d) => todo'[e] \in {<< >>, <<segment>>}
      /\ \/ pc'[e] = "recheck" /\ task' = task
         \/ pc'[e] = "idle" /\ task[e] = "chunk" /\ task'[e] = "none"
         \/ pc'[e] = "residual" /\ task[e] = "last" /\ task'[e] = "end"
  <2>1. CASE AfterDelta(e, "append", TRUE) /\ ~(KindOf(d) # "tool" /\ Cuts(d))
    BY <1>4, <2>1 DEF AfterDelta, Return, Goto
  <2>2. CASE ~(AfterDelta(e, "append", TRUE) /\ ~(KindOf(d) # "tool" /\ Cuts(d)))
    <3>1. todo'[e] = ToIngest(segment, KindOf(d)) /\ pc'[e] = "recheck" /\ task' = task /\ KindOf(d) # "tool" /\ Cuts(d)
      BY <1>4, <1>6, <2>2
    <3> HIDE DEF segment, d, b
    <3> QED BY <3>1 DEF ToIngest
  <2> QED BY <2>1, <2>2
<1> HIDE DEF b, d, k
<1>8. /\ b.asst \in Texts /\ b.reason \in Texts /\ b.tools \in Texts /\ b.whole \in Texts
  BY <1>5 DEF Buffers
<1>9. segment \in Texts /\ kept \in Texts /\ b.tools \cup {d} \in Texts /\ b.whole \cup {d} \in Texts
  BY <1>2, <1>8 DEF Texts
<1>10. segment = (IF KindOf(d) = "text" THEN b.asst ELSE b.reason) \cup {d} /\ kept = (IF Cuts(d) THEN {} ELSE segment)
  OBVIOUS
<1> HIDE DEF segment, kept
<1>11. /\ entry \in Buffers /\ entry.storedAny = b.storedAny
       /\ entry.whole = b.whole \cup {x \in {d} : KindOf(x) = "text"}
       /\ KindOf(d) = "tool" => entry.asst = b.asst /\ entry.reason = b.reason /\ entry.tools = b.tools \cup {d}
       /\ KindOf(d) = "reasoning" => entry.asst = b.asst /\ entry.reason = kept /\ entry.tools = b.tools
       /\ KindOf(d) = "text" => entry.asst = kept /\ entry.reason = b.reason /\ entry.tools = b.tools
  BY <1>2, <1>5, <1>8, <1>9 DEF Buffers
<1> HIDE DEF entry
<1>12. Parts(b) = Parts(Buf(e)) /\ (PartsApart(b) <=> PartsApart(Buf(e)))
  BY <1>5 DEF Parts, PartsApart
<1>13. Parts(entry) \subseteq Parts(b) \cup {d} /\ segment \subseteq Parts(b) \cup {d}
  BY <1>2, <1>10, <1>11 DEF Parts
<1>14. ASSUME PartsApart(b), d \notin Parts(b)
       PROVE  PartsApart(entry) /\ (todo'[e] = << >> \/ segment \cap Parts(entry) = {})
  <2>1. CASE KindOf(d) = "tool"
    BY <1>7, <1>11, <1>14, <2>1 DEF PartsApart, Parts
  <2>2. CASE KindOf(d) = "reasoning"
    BY <1>7, <1>10, <1>11, <1>14, <2>2 DEF PartsApart, Parts
  <2>3. CASE KindOf(d) = "text"
    BY <1>7, <1>10, <1>11, <1>14, <2>3 DEF PartsApart, Parts
  <2> QED BY <1>2, <2>1, <2>2, <2>3
<1>15. AppendedTo(e, entry, segment)
  <2>1. todo'[e] \in {<< >>, <<segment>>}
    BY <1>7
  <2> QED BY <1>5, <1>6, <1>11, <1>12, <1>13, <1>14, <2>1 DEF AppendedTo, d, k
<1> QED BY <1>3, <1>7, <1>15

(* What the other steps leave of the buffer. *)
LEMMA BufSame ==
    ASSUME NEW e \in Exchanges, key'[e] = key[e], bufs'[key[e]] = bufs[key[e]]
    PROVE  Buf(e)' = Buf(e)
BY DEF Buf, BufAt

LEMMA BufNoted ==
    ASSUME TypeIntact, NEW e \in Exchanges, NoteStored(e)
    PROVE  /\ Buf(e)'.asst = Buf(e).asst /\ Buf(e)'.reason = Buf(e).reason /\ Buf(e)'.tools = Buf(e).tools
           /\ Buf(e)'.whole = Buf(e).whole
           /\ Buf(e).storedAny => Buf(e)'.storedAny
           /\ bufs[key[e]] # None => bufs'[key[e]] # None /\ (Buf(e)'.storedAny <=> Buf(e).storedAny \/ got[e].ingested)
<1> DEFINE k == key[e]
<1>1. pc[e] # "idle" /\ key' = key
  BY DEF NoteStored, Goto, hostVars
<1>2. k \in StreamKeys /\ bufs \in [StreamKeys -> Buffers \cup {None}]
  BY <1>1, BusyHasKey DEF TypeIntact, TableOf
<1>3. bufs' = IF got[e].ingested /\ bufs[k] # None THEN [bufs EXCEPT ![k].storedAny = TRUE] ELSE bufs
  BY DEF NoteStored
<1>4. CASE got[e].ingested /\ bufs[k] # None
  <2>1. bufs'[k] = [bufs[k] EXCEPT !.storedAny = TRUE] /\ bufs[k] \in Buffers
    BY <1>2, <1>3, <1>4
  <2>2. /\ bufs'[k] \in Buffers /\ bufs'[k].asst = bufs[k].asst /\ bufs'[k].reason = bufs[k].reason
        /\ bufs'[k].tools = bufs[k].tools /\ bufs'[k].whole = bufs[k].whole /\ bufs'[k].storedAny = TRUE
    BY <2>1 DEF Buffers
  <2>3. Buf(e) = bufs[k] /\ Buf(e)' = bufs'[k] /\ bufs'[k] # None
    BY <1>1, <1>4, <2>2, NoneAssumption DEF Buf, BufAt
  <2> QED BY <1>4, <2>2, <2>3
<1>5. CASE ~(got[e].ingested /\ bufs[k] # None)
  <2>1. Buf(e)' = Buf(e) /\ bufs' = bufs
    BY <1>1, <1>3, <1>5, BufSame
  <2> QED BY <1>5, <2>1
<1> QED BY <1>4, <1>5

LEMMA BufDrained ==
    ASSUME TypeIntact, NEW e \in Exchanges, FlushBuf(e) \/ TakeWhole(e) \/ ClearBuf(e)
    PROVE  /\ Buf(e)'.asst \subseteq Buf(e).asst /\ Buf(e)'.reason \subseteq Buf(e).reason /\ Buf(e)'.tools \subseteq Buf(e).tools
           /\ FlushBuf(e) => Parts(Buf(e)') = {} /\ PartsApart(Buf(e)')
           /\ key' = key /\ key[e] \in StreamKeys
<1> DEFINE k == key[e]
<1>1. pc[e] # "idle" /\ key' = key
  BY DEF FlushBuf, TakeWhole, ClearBuf, Return, Goto, hostVars
<1>2. k \in StreamKeys /\ bufs \in [StreamKeys -> Buffers \cup {None}]
  BY <1>1, BusyHasKey DEF TypeIntact, TableOf
<1>3. CASE bufs[k] = None
  <2>1. bufs'[k] = None
    BY <1>2, <1>3 DEF FlushBuf, TakeWhole, ClearBuf
  <2>2. Buf(e)' = NewBuf /\ Buf(e) = NewBuf
    BY <1>1, <1>3, <2>1 DEF Buf, BufAt
  <2> QED BY <1>1, <1>2, <2>2 DEF NewBuf, Parts, PartsApart
<1>4. CASE bufs[k] # None
  <2>1. bufs[k] \in Buffers /\ Buf(e) = bufs[k]
    BY <1>2, <1>4 DEF Buf, BufAt
  <2>2. CASE FlushBuf(e)
    <3>1. bufs'[k] = [bufs[k] EXCEPT !.asst = {}, !.reason = {}, !.tools = {}, !.whole = {}]
      BY <1>2, <1>4, <2>2 DEF FlushBuf
    <3>2. bufs'[k] \in Buffers /\ bufs'[k].asst = {} /\ bufs'[k].reason = {} /\ bufs'[k].tools = {}
      BY <2>1, <3>1 DEF Buffers, Texts
    <3>3. Buf(e)' = bufs'[k]
      BY <1>1, <3>2, NoneAssumption DEF Buf, BufAt
    <3> QED BY <1>1, <1>2, <2>1, <3>2, <3>3 DEF Parts, PartsApart
  <2>3. CASE TakeWhole(e)
    <3>1. bufs'[k] = [bufs[k] EXCEPT !.whole = {}]
      BY <1>2, <1>4, <2>3 DEF TakeWhole
    <3>2. /\ bufs'[k] \in Buffers /\ bufs'[k].asst = bufs[k].asst /\ bufs'[k].reason = bufs[k].reason
          /\ bufs'[k].tools = bufs[k].tools
      BY <2>1, <3>1 DEF Buffers, Texts
    <3>3. Buf(e)' = bufs'[k]
      BY <1>1, <3>2, NoneAssumption DEF Buf, BufAt
    <3>4. ~FlushBuf(e)
      BY <2>3 DEF TakeWhole, FlushBuf, Goto
    <3> QED BY <1>1, <1>2, <2>1, <3>2, <3>3, <3>4
  <2>4. CASE ClearBuf(e)
    <3>1. bufs'[k] = None
      BY <1>2, <2>4 DEF ClearBuf
    <3>2. Buf(e)' = NewBuf
      BY <1>1, <3>1 DEF Buf, BufAt
    <3>3. ~FlushBuf(e)
      BY <2>4 DEF ClearBuf, FlushBuf, Return, Goto
    <3> QED BY <1>1, <1>2, <3>2, <3>3 DEF NewBuf
  <2> QED BY <2>2, <2>3, <2>4
<1> QED BY <1>3, <1>4

(* A handler that has the whole message in hand has lost its claim, or is   *)
(* about to.                                                                *)
MessageLoses(e) ==
    HasMessage(e) => /\ IngestAssistant /\ pc[e] = "ingest" /\ Text(e) # {}
                     /\ todo[e] \in {<< >>, <<Text(e)>>}

(* The steps of the exchange that neither store nor take anything in hand.  *)
LEMMA ApartQuietly ==
    ASSUME TypeIntact, Phases, Finished, NEW e \in Exchanges, key[e] \in StreamKeys, SegmentsApart(e), MessageLoses(e),
           \/ Chunk(e) \/ Done(e) \/ Respond(e) \/ SegmentPoisoned(e) \/ SegmentClean(e) \/ ClaimWon(e) \/ Ingested(e)
           \/ NoteStored(e) \/ NoteMark(e) \/ Tombstone(e) \/ Residual(e) \/ ClaimWhole(e) \/ TakeWhole(e)
           \/ PeekForWhole(e) \/ ClaimTaken(e) \/ ClearBuf(e) \/ NeedEngine(e) \/ OpenForResponse(e)
    PROVE  SegmentsApart(e)'
<1>1. /\ pc \in [Exchanges -> PCs] /\ pos \in [Exchanges -> Nat] /\ todo \in [Exchanges -> Seq(Texts)]
      /\ task \in [Exchanges -> {"none", "chunk", "last", "end", "answer", "full", "resend"}]
      /\ Phase(e) /\ (pc[e] = "idle" => task[e] = "none")
  BY DEF TypeIntact, LocalType, HostType, Phases, Control
<1>2. key' = key /\ rows' = rows
  BY DEF Chunk, Done, Respond, SegmentPoisoned, SegmentClean, ClaimWon, Ingested, NoteStored, NoteMark, Tombstone,
         Residual, ClaimWhole, TakeWhole, PeekForWhole, ClaimTaken, ClearBuf, NeedEngine, OpenForResponse,
         hostVars, storeVars
<1>3. Buf(e)'.asst \subseteq Buf(e).asst /\ Buf(e)'.reason \subseteq Buf(e).reason /\ Buf(e)'.tools \subseteq Buf(e).tools
  <2>1. CASE bufs' = bufs
    BY <1>2, <2>1, BufSame
  <2> QED BY <2>1, BufNoted, BufDrained
          DEF Chunk, Done, Respond, SegmentPoisoned, SegmentClean, ClaimWon, Ingested, NoteMark, Tombstone,
              Residual, ClaimWhole, PeekForWhole, ClaimTaken, NeedEngine, OpenForResponse, streamVars
<1>4. /\ todo'[e] \in {todo[e], << >>} /\ (HasMessage(e) => HasMessage(e)' \/ todo'[e] = << >>)
      /\ pos'[e] \in Nat /\ pos'[e] >= pos[e]
      /\ pc'[e] = "append" => pos'[e] > pos[e]
  <2>1. CASE Chunk(e)
    BY <1>1, <2>1 DEF Chunk, Begin, Goto, HasMessage
  <2>2. CASE Done(e)
    <3>1. /\ stage[e] # "new" /\ pc[e] = "idle" /\ todo' = todo /\ pos' = [pos EXCEPT ![e] = Size(e)]
          /\ pos[e] >= Size(e) - 1
      BY <2>2 DEF Done, Begin, Goto
    <3>2. pos[e] \in 0..Size(e)
      BY <3>1 DEF TypeIntact, HostType
    <3>3. Size(e) \in Nat
      <4>1. resp[e] \in Responses[e]
        BY <3>1 DEF TypeIntact, HostType
      <4>2. resp[e].deltas \in Seq([kind : {"text", "reasoning", "tool"}, cut : BOOLEAN])
        BY <4>1, ResponsesAssumption
      <4> QED BY <4>2, LenProperties DEF Size
    <3>4. pc'[e] = "append" => pos[e] < Size(e)
      BY <1>1, <2>2 DEF Done, Begin, Goto
    <3> QED BY <1>1, <3>1, <3>2, <3>3, <3>4 DEF HasMessage
  <2>3. CASE Respond(e)
    BY <1>1, <2>3 DEF Respond, Begin, Goto, HasMessage
  <2>4. ASSUME pos' = pos, NEW from, Return(e, from) \/ AfterDelta(e, from, TRUE) PROVE <1>4!:
    BY <1>1, <2>4 DEF Return, AfterDelta, Goto
  <2>5. ASSUME pos' = pos, todo' = todo, task' = task, pc'[e] # "append" PROVE <1>4!:
    BY <1>1, <2>5 DEF HasMessage
  <2>6. CASE SegmentPoisoned(e) \/ SegmentClean(e) \/ ClaimWon(e) \/ Ingested(e) \/ NoteStored(e) \/ NoteMark(e) \/ Tombstone(e)
    <3>1. /\ pos' = pos
          /\ \/ \E from : Return(e, from) \/ AfterDelta(e, from, TRUE)
             \/ todo' = todo /\ task' = task /\ pc'[e] # "append"
      BY <1>1, <2>6 DEF SegmentPoisoned, SegmentClean, ClaimWon, Ingested, NoteStored, NoteMark, Tombstone,
                        hostVars, localVars, Goto
    <3> QED BY <2>4, <2>5, <3>1
  <2>7. CASE Residual(e) \/ ClaimWhole(e) \/ TakeWhole(e) \/ PeekForWhole(e) \/ ClaimTaken(e) \/ ClearBuf(e) \/ NeedEngine(e) \/ OpenForResponse(e)
    <3>1. /\ pos' = pos
          /\ \/ \E from : Return(e, from)
             \/ todo' = todo /\ task' = task /\ pc'[e] # "append"
      BY <1>1, <2>7 DEF Residual, ClaimWhole, TakeWhole, PeekForWhole, ClaimTaken, ClearBuf, NeedEngine, OpenForResponse,
                        hostVars, localVars, Goto
    <3> QED BY <2>4, <2>5, <3>1
  <2> QED BY <2>1, <2>2, <2>3, <2>6, <2>7
<1> QED BY <1>2, <1>3, <1>4, ApartStays
(* The append of a delta: it was neither stored nor buffered before.        *)
LEMMA AppendApart ==
    ASSUME TypeIntact, Phases, Owned, [Next]_vars, Roomy', NEW e \in Exchanges, SegmentsApart(e), AppendDelta(e)
    PROVE  SegmentsApart(e)'
<1> DEFINE d == <<e, pos[e]>>
<1>1. /\ pc[e] = "append" /\ key[e] \in StreamKeys /\ pos[e] \in Nat /\ pc'[e] # "append"
      /\ key' = key /\ rows' = rows /\ pos' = pos
  BY AppendDeltaIs DEF hostVars, storeVars, TypeIntact, HostType
<1>2. PICK entry, seg : AppendedTo(e, entry, seg)
  BY AppendParts
<1>3. Buf(e)' = entry
  <2>1. bufs' = [bufs EXCEPT ![key[e]] = entry]
    BY <1>1, <1>2, BufsInPlace DEF Owned, AppendedTo
  <2>2. bufs'[key[e]] = entry /\ entry # None
    BY <1>1, <1>2, <2>1, NoneAssumption DEF TypeIntact, TableOf, AppendedTo
  <2> QED BY <1>1, <2>2 DEF Buf, BufAt
<1>4. d \notin Parts(Buf(e)) /\ d \notin InRows
  BY <1>1 DEF SegmentsApart, Earlier
<1>5. /\ PartsApart(entry) /\ Parts(entry) \subseteq Parts(Buf(e)) \cup {d} /\ seg \subseteq Parts(Buf(e)) \cup {d}
      /\ todo'[e] = << >> \/ (todo'[e] = <<seg>> /\ seg \cap Parts(entry) = {})
  BY <1>2, <1>4 DEF AppendedTo, SegmentsApart
<1>6. InRows' = InRows /\ RowsApart(e)'
  BY <1>1 DEF InRows, RowsApart, SegmentsApart
<1>7. Apart(todo'[e]) /\ InHand(e)' = UNION InOrder(todo'[e])
  BY <1>5, EmptyApart DEF InHand, InOrder
<1>8. InHand(e)' = {} \/ (InHand(e)' = seg /\ seg \cap Parts(entry) = {})
  <2>1. CASE todo'[e] = << >>
    BY <1>7, <2>1, EmptyIs
  <2>2. CASE todo'[e] = <<seg>> /\ seg \cap Parts(entry) = {}
    <3>1. InOrder(<<seg>>) = {seg}
      BY EmptyApart
    <3> QED BY <1>7, <2>2, <3>1
  <2> QED BY <1>5, <2>1, <2>2
<1>9. Parts(entry) \cap InRows = {} /\ InHand(e)' \cap (InRows \cup Parts(entry)) = {}
  BY <1>4, <1>5, <1>8 DEF SegmentsApart
<1>10. \A x \in InRows \cup Parts(entry) \cup InHand(e)' : x[1] = e => x[2] <= pos[e]
  <2>1. \A x \in InRows \cup Parts(Buf(e)) \cup {d} : x[1] = e => x[2] <= pos[e]
    BY <1>1 DEF SegmentsApart, Earlier
  <2>2. InRows \cup Parts(entry) \cup InHand(e)' \subseteq InRows \cup Parts(Buf(e)) \cup {d}
    BY <1>5, <1>8
  <2> QED BY <2>1, <2>2
<1>11. Earlier(e, InRows)' /\ Earlier(e, Parts(Buf(e)))' /\ Earlier(e, InHand(e))'
  <2>1. Parts(Buf(e))' = Parts(entry)
    BY <1>3 DEF Parts
  <2> QED BY <1>1, <1>6, <1>10, <2>1 DEF Earlier
<1>12. PartsApart(Buf(e))' /\ Apart(todo[e])' /\ Parts(Buf(e))' = Parts(entry)
  BY <1>3, <1>5, <1>7 DEF PartsApart, Apart, Parts
<1> QED BY <1>6, <1>9, <1>11, <1>12 DEF SegmentsApart

(* The steps that take a text out of the handler's hand.                    *)
LEMMA IngestedApart ==
    ASSUME TypeIntact, NEW e \in Exchanges, SegmentsApart(e), MessageLoses(e), ClaimLost(e) \/ ProcessText(e)
    PROVE  SegmentsApart(e)'
<1> DEFINE h == Head(todo[e])
<1>1. /\ todo[e] # << >> /\ todo[e] \in Seq(Texts) /\ pc[e] \in {"ingest", "process"} /\ pc'[e] = "ingest"
      /\ todo'[e] = Tail(todo[e]) /\ task' = task /\ key' = key /\ pos' = pos /\ bufs' = bufs
  BY DEF ClaimLost, ProcessText, Pop, Goto, TypeIntact, LocalType, Control, streamVars, hostVars
<1>2. /\ Apart(Tail(todo[e])) /\ h \in InOrder(todo[e]) /\ InOrder(Tail(todo[e])) \subseteq InOrder(todo[e])
      /\ \A t \in InOrder(Tail(todo[e])) : t \cap h = {}
  BY <1>1, TailApart DEF SegmentsApart
<1>3. InHand(e)' = UNION InOrder(Tail(todo[e])) /\ Apart(todo[e])'
  BY <1>1, <1>2 DEF InHand, InOrder, Apart
<1>4. h \subseteq InHand(e) /\ InHand(e)' \subseteq InHand(e) /\ InHand(e)' \cap h = {}
  BY <1>2, <1>3 DEF InHand
<1>5. Buf(e)' = Buf(e) /\ Parts(Buf(e))' = Parts(Buf(e)) /\ PartsApart(Buf(e))' /\ (HasMessage(e)' <=> HasMessage(e))
  <2>1. Buf(e)' = Buf(e)
    BY <1>1, BufSame
  <2> QED BY <1>1, <2>1 DEF Parts, PartsApart, HasMessage, SegmentsApart
<1>6. \/ rows' = rows
      \/ rows' = rows \cup {h} /\ ~HasMessage(e)
  BY DEF ClaimLost, ProcessText, Goto, MessageLoses, storeVars
<1>7. CASE rows' = rows
  <2>1. InRows' = InRows /\ RowsApart(e)'
    BY <1>7 DEF InRows, RowsApart, SegmentsApart
  <2>2. Earlier(e, InRows)' /\ Earlier(e, Parts(Buf(e)))' /\ Earlier(e, InHand(e))'
    BY <1>1, <1>4, <1>5, <2>1 DEF Earlier, SegmentsApart
  <2> QED BY <1>3, <1>4, <1>5, <2>1, <2>2 DEF SegmentsApart
<1>8. CASE rows' = rows \cup {h} /\ ~HasMessage(e)
  <2>1. InRows' = InRows \cup h
    BY <1>8 DEF InRows
  <2>2. h \cap InRows = {} /\ h \cap Parts(Buf(e)) = {} /\ InHand(e)' \cap (InRows \cup Parts(Buf(e))) = {}
    BY <1>4, <1>8 DEF SegmentsApart
  <2>3. RowsApart(e)'
    <3> SUFFICES ASSUME NEW r \in rows', NEW t \in rows', r # t, NEW d \in r \cap t PROVE d[1] # e
      BY DEF RowsApart
    <3>1. CASE r \in rows /\ t \in rows
      BY <3>1 DEF SegmentsApart, RowsApart
    <3>2. CASE ~(r \in rows /\ t \in rows)
      <4>1. (r = h /\ t \subseteq InRows) \/ (t = h /\ r \subseteq InRows)
        BY <1>8, <3>2 DEF InRows
      <4> QED BY <2>2, <4>1
    <3> QED BY <3>1, <3>2
  <2> HIDE DEF h
  <2>4. Earlier(e, InRows)' /\ Earlier(e, Parts(Buf(e)))' /\ Earlier(e, InHand(e))'
    BY <1>1, <1>4, <1>5, <2>1 DEF Earlier, SegmentsApart
  <2>5. Parts(Buf(e)) \cap InRows' = {} /\ InHand(e)' \cap (InRows' \cup Parts(Buf(e))) = {}
    BY <1>4, <2>1, <2>2 DEF SegmentsApart
  <2> QED BY <1>3, <1>5, <2>3, <2>4, <2>5 DEF SegmentsApart
<1> QED BY <1>6, <1>7, <1>8

(* The flush takes what is left in the buffer in hand.                      *)
LEMMA FlushedApart ==
    ASSUME TypeIntact, Owned, NEW e \in Exchanges, Alone(e), SegmentsApart(e), FlushBuf(e)
    PROVE  SegmentsApart(e)'
<1> DEFINE b == Buf(e)
           s == ToIngest(b.asst, "text") \o ToIngest(b.reason, "reasoning") \o ToIngest(b.tools, "tool")
<1>1. key[e] \in StreamKeys /\ ~b.conflicted /\ b \in Buffers
  BY AloneMine, BufAtType DEF Owned, Buf
<1>2. /\ todo'[e] = s /\ rows' = rows /\ pos' = pos /\ key' = key /\ pc'[e] = "ingest"
  BY <1>1 DEF FlushBuf, Goto, hostVars, storeVars, Buf, BufAt, TypeIntact, LocalType
<1>3. Parts(Buf(e)') = {} /\ PartsApart(Buf(e)')
  BY BufDrained
<1>4. Apart(s) /\ UNION InOrder(s) \subseteq Parts(b)
  BY <1>1, FlushApart DEF SegmentsApart
<1> HIDE DEF b, s
<1>5. InHand(e)' \subseteq Parts(Buf(e)) /\ Apart(todo[e])'
  BY <1>2, <1>4 DEF InHand, InOrder, Apart, b
<1>6. InRows' = InRows /\ RowsApart(e)' /\ Parts(Buf(e))' = {} /\ PartsApart(Buf(e))'
  BY <1>2, <1>3 DEF InRows, RowsApart, SegmentsApart, Parts, PartsApart
<1>7. Earlier(e, InRows)' /\ Earlier(e, Parts(Buf(e)))' /\ Earlier(e, InHand(e))'
  BY <1>2, <1>5, <1>6 DEF Earlier, SegmentsApart
<1> QED BY <1>5, <1>6, <1>7 DEF SegmentsApart

(* The assembled body, or the resent message, comes in hand when all of the *)
(* response was delivered.                                                  *)
LEMMA MessageApart ==
    ASSUME TypeIntact, Phases, Finished, NEW e \in Exchanges, key[e] \in StreamKeys, SegmentsApart(e), Answer(e) \/ Resend(e)
    PROVE  SegmentsApart(e)'
<1>1. /\ pc \in [Exchanges -> PCs] /\ pos \in [Exchanges -> Nat] /\ todo \in [Exchanges -> Seq(Texts)]
      /\ task \in [Exchanges -> {"none", "chunk", "last", "end", "answer", "full", "resend"}]
      /\ pc[e] \in {"answer", "idle"} /\ Phase(e) /\ (pc[e] = "idle" => task[e] = "none")
  BY DEF TypeIntact, LocalType, HostType, Phases, Control, Answer, Resend, Begin, Goto
<1>2. /\ key' = key /\ rows' = rows /\ pos' = pos /\ resp' = resp /\ bufs' = bufs /\ pc'[e] # "append"
  BY <1>1 DEF Answer, Resend, Return, Begin, Goto, hostVars, storeVars, streamVars
<1>3. Buf(e)' = Buf(e) /\ Parts(Buf(e))' = Parts(Buf(e)) /\ PartsApart(Buf(e))'
  <2>1. Buf(e)' = Buf(e)
    BY <1>2, BufSame
  <2> QED BY <2>1 DEF Parts, PartsApart, SegmentsApart
<1>4. InRows' = InRows /\ RowsApart(e)'
  BY <1>2 DEF InRows, RowsApart, SegmentsApart
<1>5. CASE todo'[e] = << >>
  <2>1. ~HasMessage(e)
    BY <1>1 DEF HasMessage, Phase, Ingesting
  <2>2. pos'[e] \in Nat /\ pos'[e] >= pos[e] /\ pc'[e] # "append"
    BY <1>1, <1>2
  <2>3. Buf(e)'.asst \subseteq Buf(e).asst /\ Buf(e)'.reason \subseteq Buf(e).reason /\ Buf(e)'.tools \subseteq Buf(e).tools
    BY <1>3
  <2> QED BY <1>2, <1>5, <2>1, <2>2, <2>3, ApartStays
<1>6. CASE todo'[e] = <<Text(e)>> /\ task'[e] \in {"full", "resend"}
  <2>1. Apart(todo[e])' /\ InHand(e)' = Text(e)
    <3>1. Apart(todo'[e]) /\ InOrder(todo'[e]) = {Text(e)}
      BY <1>6, EmptyApart
    <3>2. InHand(e)' = UNION InOrder(todo'[e])
      BY DEF InHand, InOrder
    <3> QED BY <3>1, <3>2 DEF Apart
  <2>2. pos[e] = Size(e)
    <3>1. Answer(e) => stage[e] \notin {"new", "open"}
      BY <1>1 DEF Answer, Goto, Phase, OfDelta, OfEnd, Ingesting
    <3>2. Resend(e) => stage[e] \notin {"new", "open"} \/ pos[e] = Size(e)
      BY DEF Resend, Delivered
    <3> QED BY <3>1, <3>2 DEF Finished
  <2>3. \A d \in Text(e) : d[2] <= pos[e]
    BY <2>2 DEF Text
  <2>4. Earlier(e, InRows)' /\ Earlier(e, Parts(Buf(e)))' /\ Earlier(e, InHand(e))'
    BY <1>2, <1>3, <1>4, <2>1, <2>3 DEF Earlier, SegmentsApart
  <2>5. HasMessage(e)'
    BY <1>6 DEF HasMessage
  <2> QED BY <1>3, <1>4, <2>1, <2>4, <2>5 DEF SegmentsApart
<1>7. todo'[e] = << >> \/ (todo'[e] = <<Text(e)>> /\ task'[e] \in {"full", "resend"})
  BY <1>1 DEF Answer, Resend, Return, Begin, Goto
<1> QED BY <1>5, <1>6, <1>7

(* No step of the exchange itself makes texts overlap that did not.         *)
LEMMA ApartStep ==
    ASSUME NoFaults, TypeIntact, Phases, Finished, Owned, [Next]_vars, Roomy',
           NEW e \in Exchanges, Alone(e), SegmentsApart(e), MessageLoses(e), HostCalls(e) \/ HandlerRuns(e)
    PROVE  SegmentsApart(e)'
<1>1. key[e] \in StreamKeys /\ stage[e] # "new"
  BY AloneMine DEF Owned
<1>2. ~(OpenForDeltaFails(e) \/ ProcessFails(e) \/ OpenForResidualFails(e) \/ OpenForResponseFails(e))
  BY DEF NoFaults, OpenForDeltaFails, ProcessFails, OpenForResidualFails, OpenForResponseFails
<1>3. ~ \E k \in StreamKeys, r \in Responses[e] : HeaderInit(e, k, r)
  BY <1>1 DEF HeaderInit
<1>4. CASE AppendDelta(e)
  BY <1>4, AppendApart
<1>5. CASE ClaimLost(e) \/ ProcessText(e)
  BY <1>5, IngestedApart
<1>6. CASE FlushBuf(e)
  BY <1>6, FlushedApart
<1>7. CASE Answer(e) \/ Resend(e)
  BY <1>1, <1>7, MessageApart
<1>8. CASE \/ Chunk(e) \/ Done(e) \/ Respond(e) \/ SegmentPoisoned(e) \/ SegmentClean(e) \/ ClaimWon(e) \/ Ingested(e)
           \/ NoteStored(e) \/ NoteMark(e) \/ Tombstone(e) \/ Residual(e) \/ ClaimWhole(e) \/ TakeWhole(e)
           \/ PeekForWhole(e) \/ ClaimTaken(e) \/ ClearBuf(e) \/ NeedEngine(e) \/ OpenForResponse(e)
  BY <1>1, <1>8, ApartQuietly
<1> QED BY <1>2, <1>3, <1>4, <1>5, <1>6, <1>7, <1>8 DEF HostCalls, HandlerRuns

(* What a step of another exchange, or the passing of time, leaves of one   *)
(* that shares its key with none: its texts, its buffer and its mark.       *)
Elsewhere(e) ==
    \/ \E f \in Exchanges : f # e /\ (HostCalls(f) \/ HandlerRuns(f))
    \/ UNCHANGED vars
    \/ \E k \in StreamKeys : AgeBuf(k) \/ AgeMark(k)

LEMMA OthersLeave ==
    ASSUME NoFaults, TypeIntact, Phases, Owned, MarksKeyed, [Next]_vars, Roomy',
           NEW e \in Exchanges, Alone(e), Alone(e)', Elsewhere(e)
    PROVE  /\ pc'[e] = pc[e] /\ task'[e] = task[e] /\ todo'[e] = todo[e] /\ whole'[e] = whole[e]
           /\ stage'[e] = stage[e] /\ pos'[e] = pos[e] /\ key'[e] = key[e] /\ resp'[e] = resp[e]
           /\ got'[e] = got[e] /\ stored'[e] = stored[e]
           /\ bufs'[key[e]] = bufs[key[e]] /\ marks'[key[e]] = marks[key[e]] /\ key[e] \in StreamKeys
           /\ \A t \in rows' : t \in rows \/ \A d \in t : d[1] # e
<1>1. /\ pc'[e] = pc[e] /\ task'[e] = task[e] /\ todo'[e] = todo[e] /\ whole'[e] = whole[e]
      /\ stage'[e] = stage[e] /\ pos'[e] = pos[e] /\ key'[e] = key[e] /\ resp'[e] = resp[e]
      /\ got'[e] = got[e] /\ stored'[e] = stored[e]
  BY OthersUntouched, TimeTouchesNone DEF Elsewhere, vars, hostVars, localVars
<1>2. key[e] \in StreamKeys
  BY AloneMine DEF Owned
<1>3. ASSUME NEW f \in Exchanges, f # e, HostCalls(f) \/ HandlerRuns(f)
      PROVE  bufs'[key[e]] = bufs[key[e]] /\ marks'[key[e]] = marks[key[e]]
  <2>1. key[e] # key'[f]
    BY <1>1, <1>3 DEF Alone
  <2> QED BY <1>2, <1>3, <2>1, BufsElsewhere, MarksElsewhere DEF Owned
<1>4. ASSUME UNCHANGED vars \/ \E k \in StreamKeys : AgeBuf(k) \/ AgeMark(k)
      PROVE  bufs'[key[e]] = bufs[key[e]] /\ marks'[key[e]] = marks[key[e]]
  BY <1>4 DEF vars, streamVars, markVars, AgeBuf, AgeMark, NoFaults
<1>5. ASSUME NEW t \in rows', t \notin rows PROVE \A d \in t : d[1] # e
  <2>1. PICK f \in Exchanges : ProcessText(f) /\ t = Head(todo[f])
    BY <1>5, RowsGrow
  <2>2. /\ pc[f] = "process" /\ pc'[f] = "ingest" /\ todo[f] # << >> /\ todo[f] \in Seq(TextsOf(key[f]))
        /\ key[f] \in StreamKeys
    BY <2>1, BusyHasKey DEF ProcessText, Goto, TypeIntact, Control, LocalType, Owned, TodoOwned
  <2>3. f # e
    BY <1>1, <2>2
  <2>4. t \in TextsOf(key[f]) /\ key[f] # key[e]
    BY <2>1, <2>2, <2>3, TailType DEF Alone
  <2> QED BY <2>4 DEF TextsOf, OfKey
<1> QED BY <1>1, <1>2, <1>3, <1>4, <1>5 DEF Elsewhere

LEMMA OthersApart ==
    ASSUME NoFaults, TypeIntact, Phases, Owned, MarksKeyed, [Next]_vars, Roomy',
           NEW e \in Exchanges, Alone(e), Alone(e)', SegmentsApart(e), Elsewhere(e)
    PROVE  SegmentsApart(e)'
<1>1. /\ pc'[e] = pc[e] /\ task'[e] = task[e] /\ todo'[e] = todo[e] /\ pos'[e] = pos[e] /\ key'[e] = key[e]
      /\ bufs'[key[e]] = bufs[key[e]] /\ key[e] \in StreamKeys
      /\ \A t \in rows' : t \in rows \/ \A d \in t : d[1] # e
  BY OthersLeave
<1>2. Buf(e)' = Buf(e) /\ Parts(Buf(e))' = Parts(Buf(e)) /\ PartsApart(Buf(e))'
  <2>1. Buf(e)' = Buf(e)
    BY <1>1, BufSame
  <2> QED BY <2>1 DEF Parts, PartsApart, SegmentsApart
<1>3. InHand(e)' = InHand(e) /\ Apart(todo[e])' /\ (HasMessage(e)' <=> HasMessage(e))
  BY <1>1 DEF InHand, InOrder, Apart, HasMessage, SegmentsApart
<1>4. RowsApart(e)'
  <2> SUFFICES ASSUME NEW r \in rows', NEW t \in rows', r # t, NEW d \in r \cap t PROVE d[1] # e
    BY DEF RowsApart
  <2> QED BY <1>1 DEF SegmentsApart, RowsApart
<1>5. \A d \in InRows' : d \in InRows \/ d[1] # e
  BY <1>1 DEF InRows
<1>6. /\ \A d \in Parts(Buf(e)) : d[1] = e
      /\ \A d \in InHand(e) : d[1] = e
  <2>1. Held(Buf(e)) \in TextsOf(key[e]) /\ Buf(e) \in Buffers
    BY <1>1, BufAtType DEF Owned, BufsOwned, Buf, TextsOf, OfKey, Texts
  <2>2. Parts(Buf(e)) \subseteq Held(Buf(e))
    BY <2>1, PartsType
  <2>3. \A t \in InOrder(todo[e]) : t \in TextsOf(key[e])
    <3>1. todo[e] \in Seq(TextsOf(key[e]))
      BY DEF Owned, TodoOwned
    <3> QED BY <3>1, ElementOfSeq DEF InOrder
  <2>4. \A t \in TextsOf(key[e]) : \A d \in t : d[1] = e
    BY AloneMine DEF Owned
  <2> QED BY <2>1, <2>2, <2>3, <2>4 DEF InHand
<1>7. Parts(Buf(e)) \cap InRows' = {} /\ (HasMessage(e) \/ InHand(e) \cap (InRows' \cup Parts(Buf(e))) = {})
  BY <1>5, <1>6 DEF SegmentsApart
<1>8. Earlier(e, InRows)' /\ Earlier(e, Parts(Buf(e)))' /\ Earlier(e, InHand(e))'
  BY <1>1, <1>2, <1>3, <1>5 DEF Earlier, SegmentsApart
<1> QED BY <1>2, <1>3, <1>4, <1>7, <1>8 DEF SegmentsApart

-----------------------------------------------------------------------------
(* Nothing fails.                                                           *)
NoneFailed == \A e \in Exchanges : ~got[e].failed

LEMMA NoneFailedStep ==
    ASSUME NoFaults, TypeIntact, NoneFailed, [Next]_vars
    PROVE  NoneFailed'
<1>1. got \in [Exchanges -> [ingested : BOOLEAN, failed : BOOLEAN]]
  BY DEF TypeIntact, LocalType
<1>2. ASSUME got' = got PROVE NoneFailed'
  BY <1>2 DEF NoneFailed
<1>3. ASSUME NEW e \in Exchanges, NEW from, Return(e, from) \/ AfterDelta(e, from, TRUE) PROVE NoneFailed'
  <2>1. got' = [got EXCEPT ![e] = Nothing]
    BY <1>3 DEF Return, AfterDelta
  <2> QED BY <1>1, <2>1 DEF NoneFailed, Nothing
<1>4. ASSUME NEW e \in Exchanges, HostCalls(e) PROVE NoneFailed'
  <2>1. got' = got
    BY <1>4 DEF HostCalls, HeaderInit, Chunk, Done, Respond, Resend, localVars
  <2> QED BY <1>2, <2>1
<1>5. ASSUME NEW e \in Exchanges, ProcessText(e) PROVE NoneFailed'
  BY <1>1, <1>5 DEF ProcessText, NoneFailed
<1>6. ASSUME NEW e \in Exchanges, HandlerRuns(e), ~ProcessText(e) PROVE NoneFailed'
  <2>1. ~(OpenForDeltaFails(e) \/ ProcessFails(e) \/ OpenForResidualFails(e) \/ OpenForResponseFails(e))
    BY DEF NoFaults, OpenForDeltaFails, ProcessFails, OpenForResidualFails, OpenForResponseFails
  <2>2. got' = got \/ \E from : Return(e, from) \/ AfterDelta(e, from, TRUE)
    BY <1>6, <2>1 DEF HandlerRuns, AppendDelta, SegmentPoisoned, SegmentClean, ClaimWon, ClaimLost, Ingested,
            NoteStored, NoteMark, Tombstone, Residual, FlushBuf, ClaimWhole, TakeWhole, PeekForWhole, ClaimTaken,
            ClearBuf, NeedEngine, OpenForResponse, Answer, localVars
  <2> QED BY <1>2, <1>3, <2>2
<1>7. CASE UNCHANGED vars \/ \E k \in StreamKeys : AgeBuf(k) \/ AgeMark(k)
  BY <1>2, <1>7 DEF vars, localVars, AgeBuf, AgeMark
<1> QED BY <1>4, <1>5, <1>6, <1>7 DEF Next

(* Neither its mark nor its end tells of a failure.                         *)
Clean(e) ==
    /\ pc[e] # "tomb"
    /\ marks[key[e]] # None => ~marks[key[e]].failed /\ ~marks[key[e]].aged

(* What an ingest that stored its text, in this handler, puts on the mark.  *)
LEMMA NotedMark ==
    ASSUME TypeIntact, MarksKeyed, NoneFailed, [Next]_vars, Roomy', NEW e \in Exchanges, Clean(e), NoteMark(e)
    PROVE  /\ marks'[key[e]] # None => ~marks'[key[e]].failed /\ ~marks'[key[e]].aged
           /\ got[e].ingested => marks'[key[e]] # None
           /\ ~got[e].ingested => marks' = marks
           /\ key' = key
<1>1. pc[e] # "idle" /\ key' = key
  BY DEF NoteMark, AfterDelta, Return, Goto, hostVars
<1>2. key[e] \in StreamKeys /\ marks \in [StreamKeys -> Marks \cup {None}] /\ ~got[e].failed
  BY <1>1, BusyHasKey DEF TypeIntact, TableOf, NoneFailed
<1>3. CASE ~got[e].ingested
  BY <1>1, <1>2, <1>3 DEF NoteMark, markVars, Clean
<1>4. CASE got[e].ingested
  <2>1. PutMark(key[e], got[e].failed)
    BY <1>4 DEF NoteMark
  <2>2. marks' = [marks EXCEPT ![key[e]] = [failed |-> got[e].failed \/ (marks[key[e]] # None /\ marks[key[e]].failed), aged |-> FALSE]]
    BY <1>1, <2>1, MarksInPlace
  <2>3. ~(got[e].failed \/ (marks[key[e]] # None /\ marks[key[e]].failed))
    BY <1>2 DEF Clean
  <2>4. marks'[key[e]] = [failed |-> FALSE, aged |-> FALSE]
    BY <1>2, <2>2, <2>3
  <2>5. marks'[key[e]] \in Marks
    BY <2>4 DEF Marks
  <2>6. ~marks'[key[e]].failed /\ ~marks'[key[e]].aged /\ marks'[key[e]] # None
    <3>1. ~[failed |-> FALSE, aged |-> FALSE].failed /\ ~[failed |-> FALSE, aged |-> FALSE].aged
      OBVIOUS
    <3> QED BY <2>4, <2>5, <3>1, NoneAssumption
  <2> QED BY <1>1, <1>4, <2>6
<1> QED BY <1>3, <1>4

LEMMA CleanStep ==
    ASSUME NoFaults, TypeIntact, Phases, Owned, MarksKeyed, NoneFailed, [Next]_vars, Roomy',
           NEW e \in Exchanges, Alone(e), Alone(e)', Clean(e)
    PROVE  Clean(e)'
<1>1. key[e] \in StreamKeys /\ stage[e] # "new" /\ ~streamConflicted(key[e])
  BY AloneMine DEF Owned
<1>2. pc \in [Exchanges -> PCs] /\ marks \in [StreamKeys -> Marks \cup {None}]
  BY DEF TypeIntact, LocalType, TableOf
<1>3. CASE Elsewhere(e)
  <2>1. pc'[e] = pc[e] /\ key'[e] = key[e] /\ marks'[key[e]] = marks[key[e]]
    BY <1>3, OthersLeave
  <2> QED BY <2>1 DEF Clean
<1>4. CASE NoteMark(e)
  <2>1. pc'[e] # "tomb"
    BY <1>2, <1>4 DEF NoteMark, AfterDelta, Return, Goto
  <2> QED BY <1>4, <2>1, NotedMark DEF Clean
<1>5. CASE Answer(e)
  BY <1>1, <1>2, <1>5 DEF Answer, Return, Goto, Clean, hostVars
<1>6. ASSUME pc'[e] # "tomb", marks' = marks, key' = key PROVE Clean(e)'
  BY <1>6 DEF Clean
<1>7. ASSUME HostCalls(e) PROVE Clean(e)'
  <2>1. ~ \E k \in StreamKeys, r \in Responses[e] : HeaderInit(e, k, r)
    BY <1>1 DEF HeaderInit
  <2>2. CASE Done(e)
    <3>1. pc'[e] \in {"clear", "append", "residual"} /\ marks' = marks /\ key' = key
      BY <1>1, <1>2, <2>2 DEF Done, Begin, Goto, markVars
    <3> QED BY <1>6, <3>1
  <2>3. CASE Chunk(e) \/ Respond(e) \/ Resend(e)
    <3>1. pc'[e] \in {"idle", "append", "hasbuf", "ingest"} /\ marks' = marks /\ key' = key
      BY <1>2, <2>3 DEF Chunk, Respond, Resend, Begin, Goto, markVars
    <3> QED BY <1>6, <3>1
  <2> QED BY <1>7, <2>1, <2>2, <2>3 DEF HostCalls
<1>8. ASSUME HandlerRuns(e), ~NoteMark(e), ~Answer(e) PROVE Clean(e)'
  <2>1. ~Tombstone(e)
    BY DEF Tombstone, Return, Goto, Clean
  <2>2. marks' = marks /\ key' = key
    BY <1>8, <2>1 DEF HandlerRuns, hostVars, markVars, AppendDelta, OpenForDeltaFails, SegmentPoisoned, SegmentClean,
            ClaimWon, ClaimLost, ProcessText, ProcessFails, Ingested, NoteStored, Residual, OpenForResidualFails,
            FlushBuf, ClaimWhole, TakeWhole, PeekForWhole, ClaimTaken, ClearBuf, NeedEngine, OpenForResponse,
            OpenForResponseFails
  <2>3. ASSUME AppendDelta(e) \/ OpenForDeltaFails(e) \/ SegmentPoisoned(e) \/ SegmentClean(e) \/ Ingested(e) \/ ClearBuf(e) \/ OpenForResponseFails(e)
      PROVE  pc'[e] # "tomb"
    BY <1>2, <2>3 DEF AppendDelta, OpenForDeltaFails, SegmentPoisoned, SegmentClean, Ingested, ClearBuf, OpenForResponseFails, AfterDelta, Return, Goto, Clean
  <2>4. ASSUME ClaimWon(e) \/ ClaimLost(e) \/ ProcessText(e) \/ ProcessFails(e) \/ NoteStored(e) \/ Residual(e) \/ OpenForResidualFails(e)
      PROVE  pc'[e] # "tomb"
    BY <1>2, <2>4 DEF ClaimWon, ClaimLost, ProcessText, ProcessFails, NoteStored, Residual, OpenForResidualFails, Goto, Clean
  <2>5. ASSUME FlushBuf(e) \/ ClaimWhole(e) \/ TakeWhole(e) \/ PeekForWhole(e) \/ ClaimTaken(e) \/ NeedEngine(e) \/ OpenForResponse(e)
      PROVE  pc'[e] # "tomb"
    BY <1>2, <2>5 DEF FlushBuf, ClaimWhole, TakeWhole, PeekForWhole, ClaimTaken, NeedEngine, OpenForResponse, Goto, Clean
  <2>6. pc'[e] # "tomb"
    BY <1>8, <2>1, <2>3, <2>4, <2>5 DEF HandlerRuns
  <2> QED BY <1>6, <2>2, <2>6
<1> QED BY <1>3, <1>4, <1>5, <1>7, <1>8 DEF Next, Elsewhere

-----------------------------------------------------------------------------
(* The claim on a whole message whose segments are stored.  While its       *)
(* deltas are gathered, the buffer has all of them, and knows, with the     *)
(* mark, that some are stored; then the whole text is on its way to be      *)
(* claimed, from the flush or from takeStreamWhole; and then it is claimed. *)
SomeStored(e) == Text(e) \cap InRows # {}

Gathering(e) ==
    /\ stage[e] = "open" \/ task[e] = "last" \/ (task[e] = "end" /\ pc[e] \in {"residual", "flush", "take"})
    /\ bufs[key[e]] # None
    /\ Told(e) \subseteq BufWhole(e) \cup AtAppend(e)
    /\ SomeStored(e) => Buf(e).storedAny \/ (got[e].ingested /\ pc[e] \in {"ingest", "process", "note"})
    /\ Buf(e).storedAny => peekStreamIngested(key[e]) \/ (got[e].ingested /\ pc[e] = "mark")
    /\ pc[e] = "take" => Buffered(e) = {}

Flushing(e) ==
    /\ task[e] = "end" /\ pc[e] \in {"ingest", "process", "claimwhole"}
    /\ whole[e] = Text(e)
    /\ SomeStored(e) => stored[e] \/ got[e].ingested

Taking(e) ==
    /\ task[e] = "end" /\ pc[e] \in {"peek", "claimlast"}
    /\ whole[e] = Text(e)
    /\ pc[e] = "peek" => peekStreamIngested(key[e])

Settled(e) == Text(e) = {} \/ Text(e) \in seen.marks

Claiming(e) == IngestAssistant => Settled(e) \/ Gathering(e) \/ Flushing(e) \/ Taking(e)

LEMMA SettledStays ==
    ASSUME Remembers, NEW e \in Exchanges, resp'[e] = resp[e], Settled(e)
    PROVE  Settled(e)'
<1>1. Text(e)' = Text(e)
  BY DEF Text, KindOf, Size
<1> QED BY <1>1 DEF Settled, Remembers

(* Who is gathering. *)
LEMMA GatheringPhase ==
    ASSUME TypeIntact, Phases, NEW e \in Exchanges, Gathering(e)
    PROVE  /\ task[e] \in {"none", "chunk", "last", "end"}
           /\ task[e] = "none" => pc[e] = "idle" /\ stage[e] = "open"
           /\ task[e] = "chunk" => pc[e] \in OfDelta /\ stage[e] = "open"
           /\ task[e] = "last" => pc[e] \in OfDelta /\ stage[e] = "ended"
           /\ task[e] = "end" => pc[e] \in {"residual", "flush", "take"} /\ stage[e] = "ended"
           /\ pc[e] = "idle" => task[e] = "none"
<1>1. /\ Phase(e) /\ task[e] \in {"none", "chunk", "last", "end", "answer", "full", "resend"}
      /\ stage[e] = "open" => task[e] \in {"none", "chunk"}
      /\ pc[e] = "idle" => task[e] = "none"
  BY DEF TypeIntact, LocalType, Phases, Control
<1> QED BY <1>1 DEF Gathering, Phase

(* A step that leaves the buffer, the mark and what is stored.              *)
LEMMA GatheringStays ==
    ASSUME NEW e \in Exchanges, Gathering(e), key'[e] = key[e], resp'[e] = resp[e],
           bufs' = bufs, marks' = marks, rows' = rows,
           AtAppend(e) = {}, Told(e)' \subseteq Told(e) \cup AtAppend(e)',
           pc[e] # "mark", pc[e] \in {"ingest", "process", "note"} => pc'[e] \in {"ingest", "process", "note"} /\ got'[e] = got[e],
           stage'[e] = "open" \/ task'[e] = "last" \/ (task'[e] = "end" /\ pc'[e] \in {"residual", "flush", "take"}),
           pc'[e] = "take" => Buffered(e) = {}
    PROVE  Gathering(e)'
<1>1. Text(e)' = Text(e) /\ (SomeStored(e)' <=> SomeStored(e))
  BY DEF Text, KindOf, Size, SomeStored, InRows
<1>2. Buf(e)' = Buf(e) /\ BufWhole(e)' = BufWhole(e) /\ Buffered(e)' = Buffered(e)
  BY DEF Buf, BufAt, BufWhole, Buffered
<1>3. peekStreamIngested(key[e])' <=> peekStreamIngested(key[e])
  BY DEF peekStreamIngested
<1> QED BY <1>1, <1>2, <1>3 DEF Gathering

LEMMA GatheringAppends ==
    ASSUME TypeIntact, Phases, Owned, [Next]_vars, Roomy', NEW e \in Exchanges, Gathering(e), AppendDelta(e)
    PROVE  Gathering(e)'
<1> DEFINE d == <<e, pos[e]>>
<1>1. /\ pc[e] = "append" /\ key[e] \in StreamKeys /\ key' = key /\ rows' = rows /\ pos' = pos /\ resp' = resp
      /\ stage' = stage /\ marks' = marks
  BY AppendDeltaIs DEF hostVars, storeVars, AppendDelta, markVars
<1>2. PICK entry, seg : AppendedTo(e, entry, seg)
  BY AppendParts
<1>3. bufs'[key[e]] = entry /\ entry # None /\ Buf(e)' = entry /\ BufWhole(e)' = entry.whole
  <2>1. bufs' = [bufs EXCEPT ![key[e]] = entry]
    BY <1>1, <1>2, BufsInPlace DEF Owned, AppendedTo
  <2>2. bufs'[key[e]] = entry /\ entry # None
    BY <1>1, <1>2, <2>1, NoneAssumption DEF TypeIntact, TableOf, AppendedTo
  <2> QED BY <1>1, <2>2 DEF Buf, BufAt, BufWhole
<1>4. /\ \/ pc'[e] = "recheck" /\ task' = task
         \/ pc'[e] = "idle" /\ task[e] = "chunk" /\ task'[e] = "none"
         \/ pc'[e] = "residual" /\ task[e] = "last" /\ task'[e] = "end"
      /\ task[e] \in {"chunk", "last"}
  BY AppendParts
<1>5. Text(e)' = Text(e) /\ (SomeStored(e)' <=> SomeStored(e)) /\ Told(e)' = Told(e)
  BY <1>1, ToldSame DEF Text, KindOf, Size, SomeStored, InRows
<1>6. Told(e) \subseteq entry.whole
  <2>1. entry.whole = BufWhole(e) \cup {x \in {d} : KindOf(x) = "text"}
    BY <1>2 DEF AppendedTo, Buf, BufWhole
  <2>2. Told(e) \subseteq BufWhole(e) \cup {d}
    BY <1>1 DEF Gathering, AtAppend
  <2>3. \A x \in Told(e) : KindOf(x) = "text"
    BY DEF Told, Text
  <2> QED BY <2>1, <2>2, <2>3
<1>7. (Buf(e)'.storedAny <=> Buf(e).storedAny) /\ (peekStreamIngested(key[e])' <=> peekStreamIngested(key[e]))
  BY <1>1, <1>2, <1>3 DEF AppendedTo, peekStreamIngested
<1>8. stage'[e] = "open" \/ task'[e] = "last" \/ (task'[e] = "end" /\ pc'[e] \in {"residual", "flush", "take"})
  BY <1>1, <1>4, GatheringPhase
<1> QED BY <1>1, <1>3, <1>4, <1>5, <1>6, <1>7, <1>8 DEF Gathering

LEMMA GatheringStores ==
    ASSUME TypeIntact, Phases, NEW e \in Exchanges, Gathering(e), ProcessText(e)
    PROVE  Gathering(e)'
<1>1. /\ pc[e] = "process" /\ pc'[e] = "ingest" /\ got'[e].ingested = TRUE /\ task' = task /\ stage' = stage
      /\ bufs' = bufs /\ marks' = marks /\ key' = key /\ pos' = pos /\ resp' = resp
  BY DEF ProcessText, Goto, TypeIntact, LocalType, streamVars, markVars, hostVars
<1>2. Buf(e)' = Buf(e) /\ BufWhole(e)' = BufWhole(e) /\ Told(e)' = Told(e) /\ AtAppend(e) = {}
  BY <1>1, ToldSame DEF Buf, BufAt, BufWhole, AtAppend
<1>3. peekStreamIngested(key[e])' <=> peekStreamIngested(key[e])
  BY <1>1 DEF peekStreamIngested
<1> QED BY <1>1, <1>2, <1>3 DEF Gathering

LEMMA GatheringNotes ==
    ASSUME TypeIntact, Phases, MarksKeyed, NoneFailed, [Next]_vars, Roomy', NEW e \in Exchanges, Clean(e),
           Gathering(e), NoteStored(e) \/ NoteMark(e)
    PROVE  Gathering(e)'
<1>1. /\ key[e] \in StreamKeys /\ task[e] \in {"chunk", "last"} /\ pc[e] \in {"note", "mark"}
      /\ key' = key /\ rows' = rows /\ pos' = pos /\ resp' = resp /\ stage' = stage
      /\ pc \in [Exchanges -> PCs] /\ task \in [Exchanges -> {"none", "chunk", "last", "end", "answer", "full", "resend"}]
  <2>1. pc[e] \in {"note", "mark"} /\ key' = key /\ rows' = rows /\ pos' = pos /\ resp' = resp /\ stage' = stage
    BY DEF NoteStored, NoteMark, AfterDelta, Return, Goto, hostVars, storeVars
  <2> QED BY <2>1, BusyHasKey, GatheringPhase DEF TypeIntact, LocalType
<1>2. Text(e)' = Text(e) /\ (SomeStored(e)' <=> SomeStored(e)) /\ Told(e)' = Told(e) /\ AtAppend(e) = {}
  BY <1>1, ToldSame DEF Text, KindOf, Size, SomeStored, InRows, AtAppend
<1>3. CASE NoteStored(e)
  <2>1. pc[e] = "note" /\ pc'[e] = "mark" /\ task' = task /\ got' = got /\ marks' = marks
    BY <1>1, <1>3 DEF NoteStored, Goto, localVars, markVars
  <2>2. bufs'[key[e]] # None /\ (Buf(e)'.storedAny <=> Buf(e).storedAny \/ got[e].ingested) /\ Buf(e)'.whole = Buf(e).whole
    BY <1>3, BufNoted DEF Gathering
  <2>3. BufWhole(e)' = BufWhole(e) /\ (peekStreamIngested(key[e])' <=> peekStreamIngested(key[e]))
    BY <1>1, <2>1, <2>2 DEF Buf, BufWhole, peekStreamIngested
  <2> QED BY <1>1, <1>2, <2>1, <2>2, <2>3 DEF Gathering
<1>4. CASE NoteMark(e)
  <2>1. /\ pc[e] = "mark" /\ bufs' = bufs
        /\ \/ task[e] = "chunk" /\ pc'[e] = "idle" /\ task'[e] = "none"
           \/ task[e] = "last" /\ pc'[e] = "residual" /\ task'[e] = "end"
    BY <1>1, <1>4 DEF NoteMark, AfterDelta, Return, Goto, streamVars
  <2>2. Buf(e)' = Buf(e) /\ BufWhole(e)' = BufWhole(e)
    BY <1>1, <2>1 DEF Buf, BufAt, BufWhole
  <2>3. Buf(e).storedAny => peekStreamIngested(key[e])'
    <3>1. /\ marks'[key[e]] # None => ~marks'[key[e]].failed /\ ~marks'[key[e]].aged
          /\ got[e].ingested => marks'[key[e]] # None
          /\ ~got[e].ingested => marks' = marks
      BY <1>4, NotedMark
    <3>2. CASE got[e].ingested
      BY <1>1, <3>1, <3>2 DEF peekStreamIngested
    <3>3. CASE ~got[e].ingested
      BY <1>1, <2>1, <3>1, <3>3 DEF peekStreamIngested, Gathering
    <3> QED BY <3>2, <3>3
  <2>4. stage'[e] = "open" \/ task'[e] = "last" \/ (task'[e] = "end" /\ pc'[e] \in {"residual", "flush", "take"})
    BY <1>1, <2>1, GatheringPhase
  <2> QED BY <1>1, <1>2, <2>1, <2>2, <2>3, <2>4 DEF Gathering
<1> QED BY <1>3, <1>4

(* When the stream has ended and its deltas are gathered, the buffer has    *)
(* the whole text.                                                          *)
LEMMA AllTold ==
    ASSUME Finished, NEW e \in Exchanges, stage[e] = "ended"
    PROVE  Told(e) = Text(e)
<1>1. pos[e] = Size(e)
  BY DEF Finished
<1> QED BY <1>1 DEF Told, Text

LEMMA GatheringEnds ==
    ASSUME TypeIntact, Phases, Finished, Owned, NEW e \in Exchanges, Alone(e), KeptOf(e), Gathering(e),
           FlushBuf(e) \/ TakeWhole(e)
    PROVE  Settled(e)' \/ Flushing(e)' \/ Taking(e)'
<1> DEFINE b == Buf(e)
<1>1. /\ pc[e] \in {"flush", "take"} /\ task[e] = "end" /\ stage[e] = "ended" /\ key[e] \in StreamKeys
      /\ pc \in [Exchanges -> PCs] /\ whole \in [Exchanges -> Texts] /\ stored \in [Exchanges -> BOOLEAN]
      /\ ~b.conflicted /\ bufs[key[e]] # None /\ todo[e] = << >>
  <2>1. pc[e] \in {"flush", "take"}
    BY DEF FlushBuf, TakeWhole, Goto
  <2>2. task[e] = "end" /\ stage[e] = "ended"
    BY <2>1, GatheringPhase DEF OfDelta, Ingesting
  <2>3. todo[e] = << >>
    BY <2>1 DEF Phases, Phase, Ingesting
  <2> QED BY <2>1, <2>2, <2>3, AloneMine DEF TypeIntact, LocalType, Owned, Gathering, Buf
<1>2. /\ task' = task /\ key' = key /\ rows' = rows /\ resp' = resp /\ seen' = seen /\ marks' = marks /\ got' = got
  BY <1>1 DEF FlushBuf, TakeWhole, hostVars, storeVars, markVars
<1>3. whole'[e] = b.whole
  BY <1>1 DEF FlushBuf, TakeWhole, Buf, BufAt
<1>4. b.whole = Text(e)
  <2>1. Told(e) = Text(e) /\ AtAppend(e) = {}
    BY <1>1, AllTold DEF AtAppend
  <2> QED BY <2>1 DEF Gathering, KeptOf, WholeTold, BufWhole, Buf
<1>5. Text(e)' = Text(e) /\ (SomeStored(e)' <=> SomeStored(e))
  BY <1>2 DEF Text, KindOf, Size, SomeStored, InRows
<1>6. (SomeStored(e) => b.storedAny) /\ (b.storedAny => peekStreamIngested(key[e]))
  BY <1>1 DEF Gathering
<1>7. CASE FlushBuf(e)
  <2>1. stored'[e] = b.storedAny /\ pc'[e] = "ingest"
    BY <1>1, <1>7 DEF FlushBuf, Goto, Buf, BufAt
  <2> HIDE DEF b
  <2> QED BY <1>1, <1>2, <1>3, <1>4, <1>5, <1>6, <2>1 DEF Flushing
<1>8. CASE TakeWhole(e)
  <2>1. pc[e] = "take" /\ pc'[e] = IF b.storedAny /\ b.whole # {} THEN "peek" ELSE "clear"
    BY <1>1, <1>8 DEF TakeWhole, Goto, Buf, BufAt
  <2>2. CASE b.storedAny /\ b.whole # {}
    <3>1. pc'[e] = "peek" /\ peekStreamIngested(key[e])'
      BY <1>2, <1>6, <2>1, <2>2 DEF peekStreamIngested
    <3> HIDE DEF b
    <3> QED BY <1>1, <1>2, <1>3, <1>4, <1>5, <3>1 DEF Taking
  <2>3. CASE ~(b.storedAny /\ b.whole # {})
    <3>1. Text(e) = {} \/ ~SomeStored(e)
      BY <1>4, <1>6, <2>3
    <3>2. Text(e) \subseteq InRows
      <4>1. Buffered(e) = {} /\ AtAppend(e) = {} /\ InHand(e) = {}
        BY <1>1, <2>1, EmptyIs DEF Gathering, AtAppend, InHand
      <4>2. Told(e) = Text(e)
        BY <1>1, AllTold
      <4> QED BY <4>1, <4>2 DEF KeptOf, Accounted
    <3>3. Text(e) = {}
      BY <3>1, <3>2 DEF SomeStored
    <3> QED BY <1>5, <3>3 DEF Settled
  <2> QED BY <2>2, <2>3
<1> QED BY <1>7, <1>8

LEMMA GatheringStep ==
    ASSUME NoFaults, TypeIntact, Phases, Finished, Owned, MarksKeyed, NoneFailed, [Next]_vars, Roomy', IngestAssistant,
           NEW e \in Exchanges, Alone(e), KeptOf(e), Clean(e), resp[e].terminated,
           Gathering(e), HostCalls(e) \/ HandlerRuns(e)
    PROVE  Settled(e)' \/ Gathering(e)' \/ Flushing(e)' \/ Taking(e)'
<1>1. /\ key[e] \in StreamKeys /\ stage[e] # "new" /\ ~streamConflicted(key[e])
      /\ pc \in [Exchanges -> PCs] /\ task \in [Exchanges -> {"none", "chunk", "last", "end", "answer", "full", "resend"}]
  BY AloneMine DEF Owned, TypeIntact, LocalType
<1>2. /\ task[e] \in {"none", "chunk", "last", "end"}
      /\ task[e] = "none" => pc[e] = "idle" /\ stage[e] = "open"
      /\ task[e] = "chunk" => pc[e] \in OfDelta /\ stage[e] = "open"
      /\ task[e] = "last" => pc[e] \in OfDelta /\ stage[e] = "ended"
      /\ task[e] = "end" => pc[e] \in {"residual", "flush", "take"} /\ stage[e] = "ended"
      /\ pc[e] = "idle" => task[e] = "none"
  BY GatheringPhase
<1>3. ~(OpenForDeltaFails(e) \/ ProcessFails(e) \/ OpenForResidualFails(e) \/ OpenForResponseFails(e)
        \/ SegmentPoisoned(e) \/ Tombstone(e))
  BY <1>1 DEF NoFaults, OpenForDeltaFails, ProcessFails, OpenForResidualFails, OpenForResponseFails, SegmentPoisoned,
              Tombstone, Return, Goto, Clean
<1>4. ~(Respond(e) \/ Resend(e) \/ \E k \in StreamKeys, r \in Responses[e] : HeaderInit(e, k, r))
  BY <1>1, <1>2 DEF Respond, Resend, Delivered, Begin, Goto, HeaderInit
<1>5. ~(ClaimWhole(e) \/ PeekForWhole(e) \/ ClaimTaken(e) \/ ClearBuf(e) \/ NeedEngine(e) \/ OpenForResponse(e) \/ Answer(e))
  <2>1. pc[e] \notin {"claimwhole", "peek", "claimlast", "clear", "hasbuf", "open", "answer"}
    BY <1>2 DEF OfDelta, Ingesting
  <2> QED BY <2>1 DEF ClaimWhole, PeekForWhole, ClaimTaken, ClearBuf, NeedEngine, OpenForResponse, Answer, Return, Goto
<1>6. CASE Chunk(e) \/ Done(e)
  <2>1. /\ pc[e] = "idle" /\ UNCHANGED <<bufs, marks, rows, key, resp>>
        /\ AtAppend(e) = {} /\ Told(e)' \subseteq Told(e) \cup AtAppend(e)'
        /\ \/ pc'[e] \in {"idle", "append"} /\ task'[e] \in {"none", "chunk"} /\ stage'[e] = "open"
           \/ pc'[e] = "append" /\ task'[e] = "last"
           \/ pc'[e] = "residual" /\ task'[e] = "end"
    BY <1>6, DeliveryTold DEF streamVars, markVars, storeVars
  <2> QED BY <2>1, GatheringStays
<1>7. CASE SegmentClean(e) \/ ClaimWon(e) \/ ClaimLost(e) \/ Ingested(e)
  <2>1. UNCHANGED <<bufs, marks, rows, key, resp, pos, stage>> /\ pc[e] \in {"recheck", "ingest"}
    BY <1>7 DEF SegmentClean, ClaimWon, ClaimLost, Ingested, Return, Goto, streamVars, markVars, storeVars, hostVars
  <2>2. task[e] \in {"chunk", "last"}
    BY <1>2, <2>1
  <2>3. pc'[e] \in {"ingest", "process", "note"} /\ got'[e] = got[e] /\ task'[e] = task[e]
    BY <1>1, <1>7, <2>1, <2>2 DEF SegmentClean, ClaimWon, ClaimLost, Ingested, Goto, localVars
  <2>4. AtAppend(e) = {} /\ Told(e)' = Told(e)
    BY <2>1, ToldSame DEF AtAppend
  <2> QED BY <1>2, <2>1, <2>2, <2>3, <2>4, GatheringStays
<1>8. CASE Residual(e)
  <2>1. /\ UNCHANGED <<bufs, marks, rows, key, resp, pos, stage, task>> /\ pc[e] = "residual"
        /\ pc'[e] = IF hasStreamBuf(key[e]) THEN "flush" ELSE "take"
    BY <1>1, <1>8 DEF Residual, Goto, streamVars, markVars, storeVars, hostVars, localVars
  <2>2. task[e] = "end"
    BY <1>2, <2>1 DEF OfDelta, Ingesting
  <2>3. pc'[e] = "take" => Buffered(e) = {}
    BY <2>1 DEF hasStreamBuf, Buffered, BufAt, NewBuf
  <2>4. AtAppend(e) = {} /\ Told(e)' = Told(e)
    BY <2>1, ToldSame DEF AtAppend
  <2>5. pc'[e] \in {"flush", "take"}
    BY <2>1
  <2> QED BY <2>1, <2>2, <2>3, <2>4, <2>5, GatheringStays
<1>9. CASE AppendDelta(e)
  BY <1>9, GatheringAppends
<1>10. CASE ProcessText(e)
  BY <1>10, GatheringStores
<1>11. CASE NoteStored(e) \/ NoteMark(e)
  BY <1>11, GatheringNotes
<1>12. CASE FlushBuf(e) \/ TakeWhole(e)
  BY <1>12, GatheringEnds
<1> QED BY <1>3, <1>4, <1>5, <1>6, <1>7, <1>8, <1>9, <1>10, <1>11, <1>12 DEF HostCalls, HandlerRuns

(* The claim that ends a flush, and the one that ends takeStreamWhole.      *)
LEMMA ClaimedIsSettled ==
    ASSUME TypeIntact, SeenExact, Remembers, NEW e \in Exchanges, whole[e] = Text(e), resp'[e] = resp[e], MarkSeen(whole[e])
    PROVE  Settled(e)'
<1>1. Text(e)' = Text(e) /\ whole[e] \in Texts
  <2>1. Text(e)' = Text(e)
    BY DEF Text, KindOf, Size
  <2> QED BY <2>1 DEF TypeIntact, LocalType
<1>2. CASE whole[e] \in seen.marks
  BY <1>1, <1>2 DEF Settled, Remembers
<1>3. CASE whole[e] \notin seen.marks
  <2>1. seen' = Claimed(seen, whole[e])
    BY <1>3 DEF MarkSeen
  <2>2. whole[e] \in seen'.marks
    BY <1>1, <2>1, ClaimRemembered DEF TypeIntact
  <2> QED BY <1>1, <2>2 DEF Settled
<1> QED BY <1>2, <1>3

LEMMA FlushingStep ==
    ASSUME NoFaults, TypeIntact, Phases, Finished, Owned, SeenExact, NoneFailed, Remembers, [Next]_vars,
           NEW e \in Exchanges, Alone(e), KeptOf(e), Flushing(e), HostCalls(e) \/ HandlerRuns(e)
    PROVE  Settled(e)' \/ Flushing(e)'
<1>1. /\ key[e] \in StreamKeys /\ stage[e] = "ended" /\ pc \in [Exchanges -> PCs]
      /\ got \in [Exchanges -> [ingested : BOOLEAN, failed : BOOLEAN]]
  BY AloneMine DEF Owned, TypeIntact, LocalType, Flushing, Phases, Phase
<1>2. CASE ClaimWon(e) \/ ClaimLost(e) \/ ProcessText(e) \/ Ingested(e)
  <2>1. /\ whole' = whole /\ stored' = stored /\ task' = task /\ resp' = resp
        /\ pc'[e] \in {"ingest", "process", "claimwhole"}
    BY <1>1, <1>2 DEF ClaimWon, ClaimLost, ProcessText, Ingested, Goto, localVars, hostVars, Flushing
  <2>2. (rows' = rows /\ got' = got) \/ got'[e].ingested = TRUE
    BY <1>1, <1>2 DEF ClaimWon, ClaimLost, ProcessText, Ingested, Return, localVars, storeVars, Flushing
  <2>3. Text(e)' = Text(e) /\ (SomeStored(e)' => SomeStored(e) \/ got'[e].ingested)
    BY <2>1, <2>2 DEF Text, KindOf, Size, SomeStored, InRows
  <2> QED BY <2>1, <2>2, <2>3 DEF Flushing
<1>3. CASE ClaimWhole(e)
  <2>2. /\ pc[e] = "claimwhole" /\ resp' = resp
        /\ (stored[e] \/ got[e].ingested) /\ whole[e] # {} => MarkSeen(whole[e])
    BY <1>3 DEF ClaimWhole, Goto, hostVars, NoneFailed
  <2>3. Text(e) \subseteq InRows
    <3>1. todo[e] = << >> /\ Flushed(e)
      BY <2>2 DEF Phases, Phase, Ingesting, Flushed, Flushing
    <3>2. Buffered(e) = {} /\ AtAppend(e) = {} /\ InHand(e) = {}
      BY <2>2, <3>1, EmptyIs DEF KeptOf, Emptied, AtAppend, InHand
    <3>3. Told(e) = Text(e)
      BY <1>1, AllTold
    <3> QED BY <3>2, <3>3 DEF KeptOf, Accounted
  <2>4. CASE Text(e) = {}
    <3>1. Text(e)' = Text(e)
      BY <2>2 DEF Text, KindOf, Size
    <3> QED BY <2>4, <3>1 DEF Settled
  <2>5. CASE Text(e) # {}
    <3>1. SomeStored(e)
      BY <2>3, <2>5 DEF SomeStored
    <3>2. MarkSeen(whole[e])
      BY <2>2, <2>5, <3>1 DEF Flushing
    <3> QED BY <2>2, <3>2, ClaimedIsSettled DEF Flushing
  <2> QED BY <2>4, <2>5
<1>4. ~HostCalls(e)
  BY DEF Flushing, HostCalls, HeaderInit, Chunk, Done, Respond, Resend, Begin, Goto, TypeIntact, Control
<1>5. ~(HandlerRuns(e) /\ ~(ClaimWon(e) \/ ClaimLost(e) \/ ProcessText(e) \/ Ingested(e) \/ ClaimWhole(e)))
  <2>1. pc[e] \in {"ingest", "process", "claimwhole"} /\ ~ProcessFails(e)
    BY DEF Flushing, NoFaults, ProcessFails
  <2> QED BY <2>1 DEF HandlerRuns, AppendDelta, OpenForDeltaFails, SegmentPoisoned, SegmentClean, NoteStored, NoteMark, Tombstone,
              Residual, OpenForResidualFails, FlushBuf, TakeWhole, PeekForWhole, ClaimTaken, ClearBuf,
              NeedEngine, OpenForResponse, OpenForResponseFails, Answer, AfterDelta, Return, Goto
<1> QED BY <1>2, <1>3, <1>4, <1>5

LEMMA TakingStep ==
    ASSUME NoFaults, TypeIntact, Phases, SeenExact, Remembers, [Next]_vars,
           NEW e \in Exchanges, Taking(e), HostCalls(e) \/ HandlerRuns(e)
    PROVE  Settled(e)' \/ Taking(e)'
<1>1. pc \in [Exchanges -> PCs] /\ pc[e] \in {"peek", "claimlast"}
  BY DEF TypeIntact, LocalType, Taking
<1>2. CASE PeekForWhole(e)
  <2>1. pc'[e] = "claimlast" /\ task' = task /\ whole' = whole /\ resp' = resp
    BY <1>1, <1>2 DEF PeekForWhole, Goto, Taking, localVars, hostVars
  <2>2. Text(e)' = Text(e)
    BY <2>1 DEF Text, KindOf, Size
  <2> QED BY <2>1, <2>2 DEF Taking
<1>3. CASE ClaimTaken(e)
  <2>1. MarkSeen(whole[e]) /\ resp' = resp
    BY <1>3 DEF ClaimTaken, hostVars
  <2> QED BY <2>1, ClaimedIsSettled DEF Taking
<1>4. ~HostCalls(e)
  BY <1>1 DEF HostCalls, HeaderInit, Chunk, Done, Respond, Resend, Begin, Goto
<1>5. ~(HandlerRuns(e) /\ ~(PeekForWhole(e) \/ ClaimTaken(e)))
  BY <1>1 DEF HandlerRuns, AppendDelta, OpenForDeltaFails, SegmentPoisoned, SegmentClean, ClaimWon, ClaimLost, ProcessText,
              ProcessFails, Ingested, NoteStored, NoteMark, Tombstone,
              Residual, OpenForResidualFails, FlushBuf, ClaimWhole, TakeWhole, ClearBuf,
              NeedEngine, OpenForResponse, OpenForResponseFails, Answer, AfterDelta, Return, Goto
<1> QED BY <1>2, <1>3, <1>4, <1>5

(* A response is given once, when the host begins.                          *)
LEMMA RespStays ==
    ASSUME TypeIntact, [Next]_vars, NEW e \in Exchanges, stage[e] # "new"
    PROVE  resp'[e] = resp[e]
<1>1. resp = [f \in Exchanges |-> resp[f]]
  BY DEF TypeIntact, HostType
<1>2. ASSUME NEW f \in Exchanges, NEW k \in StreamKeys, NEW r \in Responses[f], HeaderInit(f, k, r)
      PROVE  resp'[e] = resp[e]
  <2>1. f # e /\ resp' = [resp EXCEPT ![f] = r]
    BY <1>2 DEF HeaderInit
  <2> QED BY <1>1, <2>1
<1>3. ASSUME NEW f \in Exchanges, Chunk(f) \/ Done(f) \/ Respond(f) \/ Resend(f) PROVE resp' = resp
  BY <1>3 DEF Chunk, Done, Respond, Resend
<1> QED BY <1>2, <1>3, HostWritten DEF HostWriters, HostCalls, hostVars

LEMMA Begins ==
    ASSUME TypeIntact, [Next]_vars, NEW e \in Exchanges, key[e] = None, key'[e] # None
    PROVE  \E k \in StreamKeys, r \in Responses[e] : HeaderInit(e, k, r)
<1>1. key \in [Exchanges -> StreamKeys \cup {None}]
  BY DEF TypeIntact, HostType
<1>2. ASSUME NEW f \in Exchanges, NEW k \in StreamKeys, NEW r \in Responses[f], HeaderInit(f, k, r) PROVE f = e
  BY <1>1, <1>2 DEF HeaderInit
<1>3. ASSUME NEW f \in Exchanges, Chunk(f) \/ Done(f) \/ Respond(f) \/ Resend(f) PROVE key' = key
  BY <1>3 DEF Chunk, Done, Respond, Resend
<1> QED BY <1>2, <1>3, HostWritten DEF HostWriters, HostCalls, hostVars

(* A whole message in hand finds its claim made.                            *)
LEMMA MessageStep ==
    ASSUME NoFaults, TypeIntact, Phases, NEW e \in Exchanges, key[e] \in StreamKeys, Claiming(e), MessageLoses(e),
           HostCalls(e) \/ HandlerRuns(e)
    PROVE  MessageLoses(e)'
<1>1. /\ pc \in [Exchanges -> PCs] /\ todo \in [Exchanges -> Seq(Texts)] /\ Phase(e)
      /\ task \in [Exchanges -> {"none", "chunk", "last", "end", "answer", "full", "resend"}]
      /\ stage[e] # "new" /\ (pc[e] = "idle" => task[e] = "none")
  <2>1. stage[e] # "new"
    BY NoneAssumption DEF TypeIntact, HostType
  <2> QED BY <2>1 DEF TypeIntact, LocalType, Phases, Control
<1>2. resp'[e] = resp[e]
  BY <1>1, RespStays DEF Next
<1>3. Text(e)' = Text(e)
  BY <1>2 DEF Text, KindOf, Size
<1>4. CASE Answer(e)
  <2>1. \/ task'[e] = "none"
        \/ pc'[e] = "ingest" /\ todo'[e] = <<Text(e)>> /\ IngestAssistant /\ Text(e) # {}
    BY <1>1, <1>4 DEF Answer, Return, Goto, Skips
  <2> QED BY <1>3, <2>1 DEF MessageLoses, HasMessage
<1>5. CASE Resend(e)
  <2>1. pc'[e] = "ingest" /\ todo'[e] = <<Text(e)>> /\ IngestAssistant /\ Text(e) # {}
    BY <1>1, <1>5 DEF Resend, Begin, Goto
  <2> QED BY <1>3, <2>1 DEF MessageLoses
<1>6. ASSUME HasMessage(e), ~Answer(e), ~Resend(e) PROVE MessageLoses(e)'
  <2>1. IngestAssistant /\ pc[e] = "ingest" /\ Text(e) # {} /\ todo[e] \in {<< >>, <<Text(e)>>}
    BY <1>6 DEF MessageLoses
  <2>2. Text(e) \in seen.marks
    <3>1. ~(Gathering(e) \/ Flushing(e) \/ Taking(e))
      BY <1>1, <1>6 DEF Gathering, Flushing, Taking, HasMessage, Phase
    <3> QED BY <2>1, <3>1 DEF Claiming, Settled
  <2>3. ~HostCalls(e)
    BY <2>1 DEF HostCalls, HeaderInit, Chunk, Done, Respond, Resend, Begin, Goto
  <2>4. ~(HandlerRuns(e) /\ ~(ClaimWon(e) \/ ClaimLost(e) \/ Ingested(e)))
    BY <2>1 DEF HandlerRuns, AppendDelta, OpenForDeltaFails, SegmentPoisoned, SegmentClean, ProcessText,
                ProcessFails, NoteStored, NoteMark, Tombstone, Residual, OpenForResidualFails, FlushBuf, ClaimWhole,
                TakeWhole, PeekForWhole, ClaimTaken, ClearBuf, NeedEngine, OpenForResponse, OpenForResponseFails,
                Answer, AfterDelta, Return, Goto
  <2>5. ~ClaimWon(e)
    <3>1. Head(<<Text(e)>>) = Text(e)
      OBVIOUS
    <3> QED BY <2>1, <2>2, <3>1 DEF ClaimWon
  <2>6. CASE ClaimLost(e)
    <3>1. todo[e] # << >> /\ todo'[e] = Tail(todo[e]) /\ pc' = pc
      BY <1>1, <2>6 DEF ClaimLost, Pop
    <3>2. Tail(<<Text(e)>>) = << >>
      OBVIOUS
    <3> QED BY <1>3, <2>1, <3>1, <3>2 DEF MessageLoses
  <2>7. CASE Ingested(e)
    <3>1. task'[e] = "none"
      BY <1>1, <1>6, <2>7 DEF Ingested, Return, HasMessage
    <3> QED BY <3>1 DEF MessageLoses, HasMessage
  <2> QED BY <2>3, <2>4, <2>5, <2>6, <2>7
<1>7. ASSUME ~HasMessage(e), ~Answer(e), ~Resend(e) PROVE MessageLoses(e)'
  <2>1. HostCalls(e) => task' = task \/ task'[e] \in {"chunk", "last", "end", "answer"}
    BY <1>1, <1>7 DEF HostCalls, HeaderInit, Chunk, Done, Respond, Begin, Goto, localVars
  <2>2. HandlerRuns(e) => task' = task \/ task'[e] \in {"none", "end"}
    BY <1>1, <1>7 DEF HandlerRuns, AppendDelta, OpenForDeltaFails, SegmentPoisoned, SegmentClean,
           ClaimWon, ClaimLost, ProcessText, ProcessFails, Ingested, NoteStored, NoteMark, Tombstone,
           Residual, OpenForResidualFails, FlushBuf, ClaimWhole, TakeWhole, PeekForWhole, ClaimTaken,
           ClearBuf, NeedEngine, OpenForResponse, OpenForResponseFails, AfterDelta, Return, localVars
  <2> QED BY <1>7, <2>1, <2>2 DEF MessageLoses, HasMessage
<1> QED BY <1>4, <1>5, <1>6, <1>7

LEMMA ClaimingStep ==
    ASSUME NoFaults, TypeIntact, Phases, Finished, Owned, KeptInv, Ledger, NoneFailed, [Next]_vars, Remembers, Roomy, Roomy',
           NEW e \in Exchanges, Alone(e), Clean(e), resp[e].terminated, Claiming(e), HostCalls(e) \/ HandlerRuns(e)
    PROVE  Claiming(e)'
<1> SUFFICES ASSUME IngestAssistant PROVE Settled(e)' \/ Gathering(e)' \/ Flushing(e)' \/ Taking(e)'
  BY DEF Claiming
<1>1. KeptOf(e) /\ stage[e] # "new" /\ MarksKeyed /\ SeenExact
  BY AloneMine DEF KeptInv, Owned, Ledger
<1>2. CASE Settled(e)
  <2>1. resp'[e] = resp[e]
    BY <1>1, RespStays
  <2> QED BY <1>2, <2>1, SettledStays
<1>3. CASE Gathering(e)
  BY <1>1, <1>3, GatheringStep
<1>4. CASE Flushing(e)
  BY <1>1, <1>4, FlushingStep
<1>5. CASE Taking(e)
  BY <1>1, <1>5, TakingStep
<1> QED BY <1>2, <1>3, <1>4, <1>5 DEF Claiming

(* All of it, of an exchange.                                               *)
OnceOf(e) == SegmentsApart(e) /\ Claiming(e) /\ MessageLoses(e)

LEMMA OthersOnce ==
    ASSUME NoFaults, TypeIntact, Phases, Owned, MarksKeyed, [Next]_vars, Remembers, Roomy',
           NEW e \in Exchanges, Alone(e), Alone(e)', OnceOf(e), Elsewhere(e)
    PROVE  OnceOf(e)'
<1>1. /\ pc'[e] = pc[e] /\ task'[e] = task[e] /\ todo'[e] = todo[e] /\ whole'[e] = whole[e]
      /\ stage'[e] = stage[e] /\ pos'[e] = pos[e] /\ key'[e] = key[e] /\ resp'[e] = resp[e]
      /\ got'[e] = got[e] /\ stored'[e] = stored[e]
      /\ bufs'[key[e]] = bufs[key[e]] /\ marks'[key[e]] = marks[key[e]]
      /\ \A t \in rows' : t \in rows \/ \A d \in t : d[1] # e
  BY OthersLeave
<1>2. Text(e)' = Text(e) /\ Told(e)' = Told(e) /\ \A d \in Text(e) : d[1] = e
  BY <1>1, ToldSame DEF Text, KindOf, Size
<1>3. SomeStored(e)' => SomeStored(e)
  BY <1>1, <1>2 DEF SomeStored, InRows
<1>4. /\ Buf(e)' = Buf(e) /\ BufWhole(e)' = BufWhole(e) /\ Buffered(e)' = Buffered(e) /\ AtAppend(e)' = AtAppend(e)
      /\ peekStreamIngested(key[e])' <=> peekStreamIngested(key[e])
  BY <1>1 DEF Buf, BufAt, BufWhole, Buffered, AtAppend, peekStreamIngested
<1>5. Claiming(e)'
  <2>1. Settled(e) => Settled(e)'
    BY <1>1, SettledStays
  <2>2. Gathering(e) => Gathering(e)'
    BY <1>1, <1>2, <1>3, <1>4 DEF Gathering
  <2>3. Flushing(e) => Flushing(e)'
    BY <1>1, <1>2, <1>3 DEF Flushing
  <2>4. Taking(e) => Taking(e)'
    BY <1>1, <1>2, <1>4 DEF Taking
  <2> QED BY <2>1, <2>2, <2>3, <2>4 DEF OnceOf, Claiming
<1>6. MessageLoses(e)'
  BY <1>1, <1>2 DEF OnceOf, MessageLoses, HasMessage
<1> QED BY <1>5, <1>6, OthersApart DEF OnceOf

(* An exchange begins with an empty buffer and no mark.                     *)
LEMMA OnceBegins ==
    ASSUME TypeIntact, Phases, Owned, Ledger, [Next]_vars, Roomy', NEW e \in Exchanges, Alone(e)',
           NEW k \in StreamKeys, NEW r \in Responses[e], HeaderInit(e, k, r)
    PROVE  Clean(e)' /\ OnceOf(e)'
<1>1. /\ pc[e] = "idle" /\ stage[e] = "new" /\ pc' = pc /\ task' = task /\ todo' = todo /\ got' = got
      /\ pos' = pos /\ UNCHANGED storeVars /\ marks' = marks /\ key'[e] = k /\ stage'[e] = "open"
      /\ \A f \in Exchanges : f # e => key'[f] = key[f]
  BY DEF HeaderInit, localVars, markVars, TypeIntact, HostType
<1>2. key[e] = None /\ pos[e] = 0 /\ todo[e] = << >> /\ task[e] = "none"
  BY <1>1 DEF TypeIntact, HostType, Control, Phases, Phase, Ingesting
<1>3. \A f \in Exchanges : key[f] # k
  BY <1>1, <1>2, NoneAssumption DEF Alone
<1>4. bufs[k] = None /\ marks[k] = None
  BY <1>3 DEF Owned, BufsOwned, Ledger, MarksKeyed
<1>5. bufs'[k] = NewBuf
  <2>1. PutBuf(k, NewBuf)
    BY <1>4 DEF HeaderInit
  <2>2. bufs' = [bufs EXCEPT ![k] = NewBuf]
    BY <1>1, <2>1, BufsInPlace DEF Owned
  <2> QED BY <2>2 DEF TypeIntact, TableOf
<1>6. Clean(e)'
  BY <1>1, <1>4 DEF Clean
<1>7. \A d \in InRows : d[1] # e
  BY <1>2 DEF Ledger, RowsBegun
<1>8. InRows' = InRows /\ rows' = rows
  BY <1>1 DEF InRows, storeVars
<1>9. Buf(e)' = NewBuf /\ NewBuf # None
  <2>1. NewBuf \in Buffers
    BY DEF NewBuf, Buffers, Texts
  <2> QED BY <1>1, <1>5, <2>1, NoneAssumption DEF Buf, BufAt
<1>10. SegmentsApart(e)'
  <2>1. Parts(Buf(e))' = {} /\ PartsApart(Buf(e))'
    BY <1>9 DEF Parts, PartsApart, NewBuf
  <2>2. RowsApart(e)'
    BY <1>7, <1>8 DEF RowsApart, InRows
  <2>3. InHand(e)' = {} /\ Apart(todo[e])'
    <3>1. InHand(e)' = UNION InOrder(todo'[e]) /\ todo'[e] = << >>
      BY <1>1, <1>2 DEF InHand, InOrder
    <3> QED BY <3>1, EmptyIs, EmptyApart DEF Apart
  <2>4. Earlier(e, InRows)' /\ Earlier(e, Parts(Buf(e)))' /\ Earlier(e, InHand(e))'
    BY <1>7, <1>8, <2>1, <2>3 DEF Earlier
  <2> QED BY <2>1, <2>2, <2>3, <2>4 DEF SegmentsApart
<1>11. Gathering(e)'
  <2>1. Told(e)' = {}
    BY <1>1, <1>2 DEF Told, Text
  <2>2. ~SomeStored(e)'
    <3>1. \A d \in Text(e)' : d[1] = e
      BY DEF Text
    <3> QED BY <1>7, <1>8, <3>1 DEF SomeStored
  <2>3. ~Buf(e)'.storedAny
    BY <1>9 DEF NewBuf
  <2> QED BY <1>1, <1>5, <1>9, <2>1, <2>2, <2>3 DEF Gathering
<1>12. MessageLoses(e)'
  BY <1>1, <1>2 DEF MessageLoses, HasMessage
<1> QED BY <1>6, <1>10, <1>11, <1>12 DEF OnceOf, Claiming

OnceInv ==
    /\ Ledger
    /\ NoneFailed
    /\ Roomy => \A e \in Exchanges : Alone(e) => Clean(e) /\ (resp[e].terminated => OnceOf(e))

LEMMA OnceStep ==
    ASSUME NoFaults, DeliveryInv, OnceInv, [Next]_vars, Remembers
    PROVE  OnceInv'
<1>1. TypeIntact /\ Finished /\ Phases /\ Owned /\ KeptInv /\ Ledger /\ NoneFailed /\ MarksKeyed
  BY DEF DeliveryInv, OnceInv, Ledger
<1>2. Ledger' /\ NoneFailed'
  BY <1>1, LedgerStep, NoneFailedStep
<1>3. ASSUME Roomy', NEW e \in Exchanges, Alone(e)' PROVE Clean(e)' /\ (resp'[e].terminated => OnceOf(e)')
  <2>1. Roomy
    BY <1>1, <1>3, RoomyBefore
  <2>2. CASE \E k \in StreamKeys, r \in Responses[e] : HeaderInit(e, k, r)
    BY <1>1, <1>3, <2>2, OnceBegins
  <2>3. ASSUME key[e] # None, HostCalls(e) \/ HandlerRuns(e) \/ Elsewhere(e)
        PROVE  Clean(e)' /\ (resp'[e].terminated => OnceOf(e)')
    <3>1. Alone(e)
      BY <1>1, <1>3, <2>3, AloneBefore
    <3>2. Clean(e) /\ (resp[e].terminated => OnceOf(e)) /\ key[e] \in StreamKeys /\ stage[e] # "new"
      BY <1>1, <2>1, <3>1, AloneMine DEF OnceInv, Owned
    <3>3. Clean(e)'
      BY <1>1, <1>3, <3>1, <3>2, CleanStep
    <3>4. resp'[e] = resp[e]
      BY <1>1, <3>2, RespStays
    <3>5. ASSUME resp[e].terminated, HostCalls(e) \/ HandlerRuns(e) PROVE OnceOf(e)'
      <4>1. SegmentsApart(e) /\ Claiming(e) /\ MessageLoses(e)
        BY <3>2, <3>5 DEF OnceOf
      <4>2. SegmentsApart(e)'
        BY <1>1, <1>3, <3>1, <3>5, <4>1, ApartStep
      <4>3. Claiming(e)'
        BY <1>1, <1>3, <2>1, <3>1, <3>2, <3>5, <4>1, ClaimingStep
      <4>4. MessageLoses(e)'
        BY <1>1, <3>2, <3>5, <4>1, MessageStep
      <4> QED BY <4>2, <4>3, <4>4 DEF OnceOf
    <3>6. ASSUME resp[e].terminated, Elsewhere(e) PROVE OnceOf(e)'
      BY <1>1, <1>3, <3>1, <3>2, <3>6, OthersOnce
    <3> QED BY <2>3, <3>3, <3>4, <3>5, <3>6
  <2>4. HostCalls(e) \/ HandlerRuns(e) \/ Elsewhere(e)
    BY DEF Next, Elsewhere
  <2>5. ASSUME key[e] = None PROVE \E k \in StreamKeys, r \in Responses[e] : HeaderInit(e, k, r)
    <3>1. key'[e] # None
      BY <1>3 DEF Alone
    <3> QED BY <1>1, <2>5, <3>1, Begins
  <2> QED BY <2>2, <2>3, <2>4, <2>5
<1> QED BY <1>2, <1>3 DEF OnceInv

LEMMA OnceInvHolds ==
    ASSUME NoFaults
    PROVE  Spec /\ [][Remembers]_vars => [](DeliveryInv /\ OnceInv)
<1>1. NoFailures
  BY DEF NoFaults, NoFailures
<1>2. Spec => []DeliveryInv
  BY <1>1, DeliveryInvHolds
<1>3. Init => OnceInv
  BY DEF Init, OnceInv, Ledger, RowsBegun, MarksKeyed, SeenExact, NoneFailed, Nothing, InRows, InOrder, NoneSeen, Alone
<1>4. DeliveryInv /\ OnceInv /\ [Next]_vars /\ [Remembers]_vars => OnceInv'
  <2>1. UNCHANGED vars => Remembers
    BY DEF vars, storeVars, Remembers
  <2> QED BY <2>1, OnceStep
<1> QED BY <1>2, <1>3, <1>4, PTL DEF Spec

(* No delta of a streamed response is stored twice, whether as part of a    *)
(* segment, of the residual, of the assembled body or of the message that   *)
(* the client resends, in whatever order these come: for an exchange that   *)
(* shares its stream key with no other and whose stream has a terminating   *)
(* chunk, while no buffer or mark has been evicted, no claim is forgotten   *)
(* and nothing fails (intercept.go:208-257, 547-557, 620-633, 686-693,      *)
(* 750-782, 797-814).                                                       *)
THEOREM NothingIsStoredTwice ==
    ASSUME NoFaults
    PROVE  Spec /\ [][Remembers]_vars => [](Roomy => StoredOnce)
<1>1. DeliveryInv /\ OnceInv => (Roomy => StoredOnce)
  <2> SUFFICES ASSUME DeliveryInv, OnceInv, Roomy, NEW r \in rows, NEW t \in rows, r # t, NEW d \in r \cap t,
                      Alone(d[1]), resp[d[1]].terminated
               PROVE  FALSE
    BY DEF StoredOnce
  <2>1. d[1] \in Exchanges
    BY DEF DeliveryInv, TypeIntact, Texts, Deltas
  <2>2. RowsApart(d[1])
    BY <2>1 DEF OnceInv, OnceOf, SegmentsApart
  <2> QED BY <2>2 DEF RowsApart
<1> QED BY <1>1, OnceInvHolds, PTL
=============================================================================
