------------------------------ MODULE Transcript ------------------------------
(***************************************************************************)
(* What plugin/formats.go and plugin/memory.go make of a request body: the *)
(* messages they extract, the window they keep, the lines they leave out   *)
(* as visible already, and the memory block they put in.                   *)
(*                                                                         *)
(* A text is a sequence of words; what only whitespace, case or encoding   *)
(* tells apart is one word.  A message is a role and its content: a string *)
(* (one text, or nothing) or parts.  A body is the slot of its own that    *)
(* Claude, Gemini and Responses have for the system prompt, and messages;  *)
(* an item of a Responses input is a message, too.  What the formats only  *)
(* spell in two ways is one body: a string for an input of one item, an    *)
(* item with no role, Gemini's two keys of the slot.                       *)
(***************************************************************************)
EXTENDS Integers, SequencesExt

CONSTANTS
    MaxArgs,   \* the bytes kept of a tool's arguments, in words
    LongEcho   \* the bytes beyond which a text can be nearly another, in words

ASSUME TextSizesAssumption == MaxArgs \in Nat /\ LongEcho \in Nat

Formats == {"openai", "claude", "gemini", "openai-response"}

(* The tag that opens a block of the plugin, with its header line; a closing *)
(* tag; and a user's own opening tag, which no header follows.               *)
Open    == "<cortext_memory> The following are stored memory snippets"
Close   == "</cortext_memory>"
Literal == "<cortext_memory>"
Tags    == {Open, Close, Literal}
Bullet  == "-"

(* What stands, with its name, before what a tool is called with and before  *)
(* what it returns to Gemini, and at the end of either when it is cut.       *)
ToolCall   == "[tool call]"
ToolResult == "[tool result]"
Ellipsis   == "..."
Marks      == {ToolCall, ToolResult, Ellipsis}

Part(k, id, words) == [kind |-> k, id |-> id, words |-> words]
TextPart(words)    == Part("text", 0, words)

Content(shape, parts) == [shape |-> shape, parts |-> parts]
Message(role, shape, parts) == [role |-> role, content |-> Content(shape, parts)]

(* The plugin's own words are strings like the others; they are named for    *)
(* the proofs, to which the type of a literal is not known.                  *)
Words == STRING \cup Tags \cup {Bullet} \cup Marks
Roles == {"system", "developer", "user", "assistant", "tool"}

(* The results of Gemini's tools are "response" parts. *)
Kinds == {"text", "call", "result", "response", "reasoning", "image"}

Parts    == [kind : Kinds, id : Nat, words : Seq(Words)]
Contents == [shape : {"string", "parts"}, parts : Seq(Parts)]
Messages == [role : Roles, content : Contents]
Bodies   == [slot : Contents, messages : Seq(Messages)]

(* The elements of s at the positions in I, in their order, and those that   *)
(* pass a test.  (SelectSeq is recursive; nothing could be proved of it.)    *)
Rank(I, i)        == Cardinality({j \in I : j <= i})
Nth(I, k)         == CHOOSE i \in I : Rank(I, i) = k
Subsequence(s, I) == [k \in 1..Cardinality(I) |-> s[Nth(I, k)]]
Kept(s, Test(_))  == Subsequence(s, {i \in DOMAIN s : Test(s[i])})

-----------------------------------------------------------------------------
UpTo(t, n) == SubSeq(t, 1, IF Len(t) > n THEN n ELSE Len(t))

Clipped(args) == IF Len(args) > MaxArgs THEN UpTo(args, MaxArgs) \o <<Ellipsis>> ELSE args

(* Fault: hidden reasoning is text like any other. *)
RenderedUnfiltered(p) ==
    CASE p.kind = "call"     -> <<ToolCall>> \o Clipped(p.words)
      [] p.kind = "response" -> <<ToolResult>> \o Clipped(p.words)
      [] OTHER               -> p.words

(* What tools are called with is rendered, reasoning is not, and an image    *)
(* has no text.                                                              *)
Rendered(p) ==
    CASE p.kind \in {"text", "result"}     -> p.words
      [] p.kind = "call"                   -> <<ToolCall>> \o Clipped(p.words)
      [] p.kind = "response"               -> <<ToolResult>> \o Clipped(p.words)
      [] p.kind \in {"reasoning", "image"} -> << >>

ContentText(parts) == FlattenSeq([i \in DOMAIN parts |-> Rendered(parts[i])])

IsCall(p)   == p.kind = "call"
IsResult(p) == p.kind \in {"result", "response"}

(* Chat completions render their calls only beside an empty content. *)
MessageText(fmt, m) ==
    LET said == Kept(m.content.parts, LAMBDA p : ~IsCall(p))
    IN  IF fmt = "openai" /\ ContentText(said) # << >>
        THEN ContentText(said)
        ELSE ContentText(m.content.parts)

ExtractMessages(fmt, body) ==
    LET system == ContentText(body.slot.parts)
    IN  (IF system = << >> THEN << >> ELSE <<[role |-> "system", text |-> system]>>)
          \o [i \in DOMAIN body.messages |->
                [role |-> body.messages[i].role, text |-> MessageText(fmt, body.messages[i])]]

LatestUserText(msgs) ==
    LET i == SelectLastInSeq(msgs, LAMBDA m : m.role = "user" /\ m.text # << >>)
    IN  IF i = 0 THEN << >> ELSE msgs[i].text

MessageTexts(msgs) == {msgs[i].text : i \in DOMAIN msgs} \ {<< >>}

-----------------------------------------------------------------------------
(* The messages that a window keeps wherever they stand. *)
Pinned(fmt, m) == fmt = "openai" /\ m.role \in {"system", "developer"}

(* A head of the window that a provider would reject: a result whose call    *)
(* was cut; for Claude also whatever is no turn of the user.                 *)
OrphanHead(fmt, m) ==
    CASE fmt = "openai"          -> m.role = "tool"
      [] fmt = "claude"          -> m.role # "user" \/ \E i \in DOMAIN m.content.parts : IsResult(m.content.parts[i])
      [] fmt = "openai-response" -> \E i \in DOMAIN m.content.parts : IsResult(m.content.parts[i])

(* Fault: the last n, whatever they begin with. *)
WindowStartUnguarded(fmt, rest, n) == Len(rest) - n + 1

(* Where a window of at least the last n of the messages rest begins.        *)
WindowStart(fmt, rest, n) ==
    CHOOSE s \in 1..(Len(rest) - n + 1) :
        /\ s = 1 \/ ~OrphanHead(fmt, rest[s])
        /\ \A i \in (s + 1)..(Len(rest) - n + 1) : OrphanHead(fmt, rest[i])

WindowMessages(fmt, body, n) ==
    LET msgs == body.messages
        free == {i \in DOMAIN msgs : ~Pinned(fmt, msgs[i])}
        rest == Subsequence(msgs, free)
        kept == {i \in DOMAIN msgs : i \in free => Rank(free, i) >= WindowStart(fmt, rest, n)}
    IN  IF fmt = "gemini" \/ n <= 0 \/ Len(rest) <= n
        THEN body
        ELSE [body EXCEPT !.messages = Subsequence(msgs, kept)]

-----------------------------------------------------------------------------
(* Lines of memory are texts; what they are in is a set of texts. *)
Within(text, w) == \E i \in 0..(Len(w) - Len(text)) : SubSeq(w, i + 1, i + Len(text)) = text
Visible(text, texts) == \E w \in texts : Within(text, w)

(* The words of a are more than four fifths of b's, and in one piece.        *)
NearlyAll(a, b) == Within(a, b) /\ Len(a) > LongEcho /\ 5 * Len(a) > 4 * Len(b)

Echoes(t, query) == t = query \/ NearlyAll(query, t) \/ NearlyAll(t, query)

DropQueryEchoes(items, query) == Kept(items, LAMBDA t : ~Echoes(t, query))

(* What is stored may quote a tag; what is injected has none. *)
Neutral(t) == Kept(t, LAMBDA w : w \notin Tags)

DedupeAgainstWindow(items, texts) ==
    Kept(items, LAMBDA t : Neutral(t) # << >> /\ ~Visible(Neutral(t), texts))

FilterStagedAgainstWindow(staged, texts) == Kept(staged, LAMBDA t : ~Visible(t, texts))

(* Fault: staged and recalled lines are not compared. *)
DedupeLinesKeeps(lines) == lines

DedupeLines(lines) == Subsequence(lines, {i \in DOMAIN lines : \A j \in 1..(i - 1) : lines[j] # lines[i]})

(* At most limit distinct lines, each cut to its first max words.  (Items of *)
(* tags only are dropped before, and all that the plugin stores is text: an  *)
(* item of another modality, which is skipped, is none of the plugin's.)     *)
Line(t, max) == UpTo(Neutral(t), max)

FormatMemories(items, limit, max) ==
    UpTo(DedupeLines([i \in DOMAIN items |-> Line(items[i], max)]), limit)

MemoryBlock(lines) ==
    IF lines = << >>
    THEN << >>
    ELSE <<Open>> \o FlattenSeq([i \in DOMAIN lines |-> <<Bullet>> \o lines[i]]) \o <<Close>>

-----------------------------------------------------------------------------
(* Fault: any opening tag begins a block. *)
OpensAny(w) == w \in {Open, Literal}

Opens(w) == w = Open

(* The i-th word is in a block: behind the plugin's header, with no closing  *)
(* tag between, and up to a closing tag.                                     *)
InBlock(words, i) ==
    /\ \E j \in 1..i : Opens(words[j]) /\ \A k \in j..(i - 1) : words[k] # Close
    /\ \E j \in i..Len(words) : words[j] = Close

StripMemoryBlock(words) == Subsequence(words, {i \in DOMAIN words : ~InBlock(words, i)})

MergeMemoryInto(existing, block) == StripMemoryBlock(existing) \o block

(* The parts that stay: texts without their block, unless they are empty then. *)
Stripped(parts) == [i \in DOMAIN parts |-> IF parts[i].kind # "text" THEN parts[i]
                                           ELSE TextPart(StripMemoryBlock(parts[i].words))]
Others(parts)   == Kept(Stripped(parts), LAMBDA p : p # TextPart(<< >>))

(* Into a string, or as one more part behind the others.                     *)
Injected(content, block) ==
    IF content.shape = "parts"
    THEN Content("parts", Append(Others(content.parts), TextPart(block)))
    ELSE Content("string", <<TextPart(MergeMemoryInto(ContentText(content.parts), block))>>)

(* Fault: the block goes in front, whether there is a system message or not. *)
InjectOpenAISystemPrepends(msgs, block) ==
    <<Message("system", "string", <<TextPart(block)>>)>> \o msgs

(* Into the first system message, or one in front. *)
InjectOpenAISystem(msgs, block) ==
    LET first == SelectInSeq(msgs, LAMBDA m : m.role = "system")
    IN  IF first = 0
        THEN <<Message("system", "string", <<TextPart(block)>>)>> \o msgs
        ELSE [msgs EXCEPT ![first].content = Injected(@, block)]

InjectMemoryBlock(fmt, body, block) ==
    IF block = << >> THEN body
    ELSE IF fmt = "openai" THEN [body EXCEPT !.messages = InjectOpenAISystem(@, block)]
    ELSE [body EXCEPT !.slot = Injected(@, block)]
=============================================================================
