------------------------------- MODULE Assembly -------------------------------
(***************************************************************************)
(* A conversation through HandleRequestBeforeAuth of plugin/intercept.go:  *)
(* the client resends its whole history with each turn, the handler stores *)
(* the history, cuts it to a window, and injects what the engine recalls   *)
(* and the gate has staged.  The host sends a request again, as the client *)
(* wrote it or as the handler rewrote it (intercept.go:286-289).           *)
(*                                                                         *)
(* One request at a time and an engine that does not fail: interleavings   *)
(* and failures are those of Requests.  The engine recalls what it likes   *)
(* of what is stored.                                                      *)
(***************************************************************************)
EXTENDS Transcript

CONSTANTS
    Prompts,          \* format -> bodies a conversation may begin with
    Turns,            \* format -> what a client may append, sequences of messages
    WindowSize,       \* window_messages
    RecallLimit,      \* recall_limit
    MaxLine,          \* maxInjectItemBytes, in words
    MaxIngest,        \* maxIngestBytes, in words
    IngestAssistant,  \* ingest_assistant
    MaxMessages,      \* bound: length of a conversation
    MaxRecall,        \* bound: items that the engine recalls
    MaxStaged,        \* bound: lines on the bus
    None

ASSUME SizesAssumption == /\ WindowSize \in Nat /\ RecallLimit \in Nat /\ MaxLine \in Nat \ {0} /\ MaxIngest \in Nat \ {0}
                          /\ MaxMessages \in Nat /\ MaxRecall \in Nat /\ MaxStaged \in Nat
ASSUME IngestAssumption == IngestAssistant \in BOOLEAN

ASSUME BodiesAssumption ==
    \A f \in Formats : Prompts[f] \subseteq Bodies /\ Turns[f] \subseteq Seq(Messages)

-----------------------------------------------------------------------------
(* What is assumed of the clients. *)
IsSystem(m)  == m.role \in {"system", "developer"}
Spoken(msgs) == Kept(msgs, LAMBDA m : ~IsSystem(m))
Dialogue(b)  == Spoken(b.messages)

Calls(m, id) == \E q \in DOMAIN m.content.parts :
                    IsCall(m.content.parts[q]) /\ m.content.parts[q].id = id

(* What a client appends has the results of its calls, after them. *)
Answered(msgs) ==
    \A i \in DOMAIN msgs : \A p \in DOMAIN msgs[i].content.parts :
        IsResult(msgs[i].content.parts[p]) =>
            \E j \in 1..(i - 1) : Calls(msgs[j], msgs[i].content.parts[p].id)

ASSUME TurnsAssumption ==
    \A f \in Formats : /\ \A t \in Turns[f] : Answered(Spoken(t))
                       /\ \A b \in Prompts[f] : Answered(Dialogue(b))

(* Chat completions and Claude want them in the messages right behind, which *)
(* are then no heads for a window (formats.go:964-966, 1003-1004).           *)
AnsweredAtOnce(f, msgs) ==
    \A i \in DOMAIN msgs : \A p \in DOMAIN msgs[i].content.parts :
        IsResult(msgs[i].content.parts[p]) =>
            \E j \in 1..(i - 1) : /\ Calls(msgs[j], msgs[i].content.parts[p].id)
                                  /\ \A k \in (j + 1)..i : OrphanHead(f, msgs[k])

ASSUME AtOnceAssumption ==
    \A f \in {"openai", "claude"} : /\ \A t \in Turns[f] : AnsweredAtOnce(f, Spoken(t))
                                    /\ \A b \in Prompts[f] : AnsweredAtOnce(f, Dialogue(b))

(* A system prompt is one text or parts that are texts and images, and no    *)
(* client writes the plugin's header (formats.go:768-770).                   *)
PlainPart(p) ==
    \/ p.kind = "image"
    \/ p = TextPart(p.words) /\ \A k \in DOMAIN p.words : p.words[k] # Open

Plain(content) ==
    /\ \A i \in DOMAIN content.parts : PlainPart(content.parts[i])
    /\ content.shape = "string" =>
          Len(content.parts) <= 1 /\ \A i \in DOMAIN content.parts : content.parts[i].kind = "text"

(* Chat completions have it in messages, the others in a slot of its own. *)
PlainMessages(f, msgs) == \A i \in DOMAIN msgs : IsSystem(msgs[i]) => f = "openai" /\ Plain(msgs[i].content)

ASSUME PromptsAssumption ==
    \A f \in Formats : /\ \A t \in Turns[f] : PlainMessages(f, t)
                       /\ \A b \in Prompts[f] : Plain(b.slot) /\ PlainMessages(f, b.messages)

(* Hidden reasoning has a word that is said nowhere else. *)
Sent(f) == UNION ({Range(b.messages) : b \in Prompts[f]} \cup {Range(t) : t \in Turns[f]})

SentParts(f) == UNION {Range(m.content.parts) : m \in Sent(f)}

ASSUME ReasoningAssumption ==
    \A f \in Formats : \A r \in SentParts(f) :
        r.kind = "reasoning" => \E w \in Range(r.words) :
            w \notin Marks /\ \A p \in SentParts(f) : p.kind # "reasoning" => w \notin Range(p.words)

VARIABLES
    fmt,       \* the format of the conversation
    client,    \* the body as the client has it
    body,      \* the body as the host presents it
    out,       \* the body as the handler returned it, or None
    memory,    \* the texts in the scope's file
    staged,    \* bus.staged of the scope: its lines
    recalled,  \* history: what the engine recalled for the present request
    taken,     \* history: what the request took from the bus
    lines      \* history: the lines that were injected
vars == <<fmt, client, body, out, memory, staged, recalled, taken, lines>>

-----------------------------------------------------------------------------
(* Fault: prompts are stored like the rest. *)
IngestibleAnyRole(m) == m.text # << >>

(* What may be stored of an extracted message.  (The query is stored after   *)
(* the recall, and the copies of it in the history with it.)                 *)
Ingestible(m) ==
    /\ m.text # << >>
    /\ m.role \notin {"system", "developer"}
    /\ m.role = "assistant" => IngestAssistant

Texts(msgs) == {msgs[i].text : i \in {j \in DOMAIN msgs : Ingestible(msgs[j])}}

Extracted(b) == ExtractMessages(fmt, b)

Query(b) == LatestUserText(Extracted(b))

Windowed(b) == WindowMessages(fmt, b, WindowSize)

(* A text that is too large is stored up to the limit. *)
Ingested(t) == UpTo(t, MaxIngest)

(* Fault: the history is stored as the window leaves it. *)
StoredWindowed(b) ==
    memory \cup {Ingested(t) : t \in Texts(Extracted(Windowed(b))) \cup ({Query(b)} \ {<< >>})}

Stored(b) == memory \cup {Ingested(t) : t \in Texts(Extracted(b)) \cup ({Query(b)} \ {<< >>})}

(* Fault: what is visible is looked up in the whole history. *)
ToInjectUnwindowed(b, items) ==
    LET window == MessageTexts(Extracted(b))
        found  == DedupeAgainstWindow(DropQueryEchoes(items, Query(b)), window)
    IN  DedupeLines(FilterStagedAgainstWindow(staged, window) \o FormatMemories(found, RecallLimit, MaxLine))

(* The lines of the block, when the engine recalls items: none that the      *)
(* window shows, none twice.                                                 *)
ToInject(b, items) ==
    LET window == MessageTexts(Extracted(Windowed(b)))
        found  == DedupeAgainstWindow(DropQueryEchoes(items, Query(b)), window)
    IN  DedupeLines(FilterStagedAgainstWindow(staged, window) \o FormatMemories(found, RecallLimit, MaxLine))

-----------------------------------------------------------------------------
NoRequest ==
    /\ out' = None
    /\ recalled' = << >>
    /\ taken' = << >>
    /\ lines' = << >>

Init ==
    /\ fmt \in Formats
    /\ client \in Prompts[fmt]
    /\ body = client
    /\ out = None
    /\ memory = {}
    /\ staged = << >>
    /\ recalled = << >>
    /\ taken = << >>
    /\ lines = << >>

(* HandleRequestBeforeAuth.  Without a query the engine is not asked. *)
HandleRequestBeforeAuth ==
    /\ out = None
    /\ memory' = Stored(body)
    /\ \E items \in IF Query(body) = << >> THEN {<< >>} ELSE BoundedSeq(Stored(body), MaxRecall) :
          /\ recalled' = items
          /\ lines' = ToInject(body, items)
    /\ out' = InjectMemoryBlock(fmt, Windowed(body), MemoryBlock(lines'))
    /\ taken' = staged
    /\ staged' = << >>
    /\ UNCHANGED <<fmt, client, body>>

FirstLine(t) == Line(t, MaxLine)

(* The gate of a stream stages a line of memory. *)
GateStages ==
    /\ Len(staged) < MaxStaged
    /\ \E t \in memory : Neutral(t) # << >> /\ staged' = Append(staged, FirstLine(t))
    /\ UNCHANGED <<fmt, client, body, out, memory, recalled, taken, lines>>

(* The client goes on. *)
NextTurn ==
    /\ out # None
    /\ \E turn \in Turns[fmt] :
          /\ Len(client.messages) + Len(turn) <= MaxMessages
          /\ client' = [client EXCEPT !.messages = @ \o turn]
    /\ body' = client'
    /\ NoRequest
    /\ UNCHANGED <<fmt, memory, staged>>

(* The host sends the request again: as it came, or as it was rewritten. *)
Retry ==
    /\ out # None
    /\ body' \in {client, out}
    /\ NoRequest
    /\ UNCHANGED <<fmt, client, memory, staged>>

Next == HandleRequestBeforeAuth \/ GateStages \/ NextTurn \/ Retry

Spec == Init /\ [][Next]_vars

-----------------------------------------------------------------------------
(* The texts of the system prompt, in the order the model reads them. *)
SystemParts(b) ==
    b.slot.parts \o FlattenSeq([i \in DOMAIN b.messages |->
        IF IsSystem(b.messages[i]) THEN b.messages[i].content.parts ELSE << >>])
SystemText(b) == ContentText(SystemParts(b))

ShownBy(b) == MessageTexts(Extracted(b))

(* The window lets no tool result reach the provider without the call it     *)
(* answers (formats.go:79-82): chat completions and Claude, and Gemini, which *)
(* is not windowed.                                                          *)
NoOrphanResult ==
    fmt \in {"openai", "claude", "gemini"} /\ out # None => Answered(out.messages)

(* The same of Responses input, in which several calls may stand before      *)
(* their results.                                                            *)
NoOrphanOutput == fmt = "openai-response" /\ out # None => Answered(out.messages)

(* What the window keeps from the model is in memory, as far as a text is    *)
(* stored: the history is stored before it is cut (intercept.go:56-58,       *)
(* 84-85), and a large text is cut to its head (memory.go:312-313).          *)
CutIsStored ==
    out # None =>
        \A i \in DOMAIN client.messages :
            LET m == [role |-> client.messages[i].role, text |-> MessageText(fmt, client.messages[i])]
            IN  Ingestible(m) => Visible(m.text, ShownBy(out)) \/ Ingested(m.text) \in memory

(* Only what is said is remembered, whole or its head: no prompt, no hidden  *)
(* reasoning, and no memory block, however often a body with one is sent     *)
(* again (intercept.go:65-68, formats.go:586-593).                           *)
OnlyConversationStored ==
    /\ memory \subseteq {Ingested(MessageText(fmt, Dialogue(client)[i])) : i \in DOMAIN Dialogue(client)}
    /\ \A i \in DOMAIN client.messages : \A p \in DOMAIN client.messages[i].content.parts :
          LET part == client.messages[i].content.parts[p]
          IN  part.kind = "reasoning" => ~Visible(part.words, memory)

(* The model gets one block, with the lines of this request, whatever the    *)
(* body had in it (formats.go:58-59).                                        *)
Block(words) == Kept(words, LAMBDA w : w = Open)

OneBlock ==
    out # None =>
        /\ Len(Block(SystemText(out))) <= 1
        /\ lines # << >> => Within(MemoryBlock(lines), SystemText(out))

(* Apart from the block the prompt is the client's, with a literal tag in it *)
(* and with its images, and the dialogue is an end of the client's, at least *)
(* the window (formats.go:79, 773-775, 830-832).                             *)
ClientKept ==
    out # None =>
        LET n == IF WindowSize < Len(Dialogue(client)) THEN WindowSize ELSE Len(Dialogue(client))
        IN  /\ StripMemoryBlock(SystemText(out)) = SystemText(client)
            /\ Kept(SystemParts(out), LAMBDA p : p.kind = "image")
                 = Kept(SystemParts(client), LAMBDA p : p.kind = "image")
            /\ IsSuffix(Dialogue(out), Dialogue(client))
            /\ Len(Dialogue(out)) >= n

(* No line is injected twice, no more than recall_limit beside the staged    *)
(* ones, and none that the rest of the body shows (intercept.go:117,         *)
(* 132-135, 148), unless it is the head of a memory that was cut to the      *)
(* length of a line.                                                         *)
WithoutBlock(b) ==
    {IF IsSystem(m) THEN StripMemoryBlock(m.text) ELSE m.text : m \in Range(Extracted(b))} \ {<< >>}

CutTo(line, t) == Len(Neutral(t)) > MaxLine /\ line = FirstLine(t)

InjectedOnce ==
    out # None =>
        /\ IsInjective(lines)
        /\ Len(lines) <= RecallLimit + Len(taken)
        /\ \A k \in DOMAIN lines :
              Visible(lines[k], WithoutBlock(out)) => \E j \in DOMAIN recalled : CutTo(lines[k], recalled[j])

(* What is recalled or was staged reaches the model, by the block or by the  *)
(* window, unless a full number of better ones displaced it.  What echoes    *)
(* the query is left out, also what nearly is the query and shown nowhere    *)
(* (intercept.go:836-837): it says the user's latest turn again, wherever    *)
(* that stands.                                                              *)
RecallReaches ==
    /\ \A k \in DOMAIN taken : Visible(taken[k], ShownBy(out))
    /\ \A k \in DOMAIN recalled : ~Echoes(recalled[k], Query(body)) =>
          \/ Visible(FirstLine(recalled[k]), ShownBy(out))
          \/ Neutral(recalled[k]) = << >>
          \/ Cardinality({FirstLine(recalled[j]) : j \in 1..(k - 1)} \cap Range(lines)) >= RecallLimit

(* In a body as the client wrote it. *)
RecallShown == out # None /\ body = client => RecallReaches

(* In every body, also in one with a block of an earlier attempt             *)
(* (intercept.go:132: what is dropped is "already verbatim in the outbound   *)
(* transcript").                                                             *)
RecallAlwaysShown == out # None => RecallReaches
=============================================================================
