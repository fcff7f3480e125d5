------------------------------ MODULE MCAssembly ------------------------------
(* Small conversations for TLC. *)
EXTENDS Assembly

User(words)  == Message("user", "string", <<TextPart(words)>>)
Reply(words) == Message("assistant", "string", <<TextPart(words)>>)
Call(i)      == Part("call", i, <<"paris", "today">>)
Result(f, i) == Part(IF f = "gemini" THEN "response" ELSE "result", i, <<"sun", "all", "day">>)
Thought      == Part("reasoning", 0, <<"hmm">>)
NoSlot       == Content("string", << >>)

(* What is asked is longer than what is stored of it, and what is said then  *)
(* is nearly all that is stored.                                             *)
Say   == <<"will", "it", "rain", "in", "paris">>
Ask   == <<"so">> \o Say \o <<"today">>
Image == Part("image", 0, << >>)
Rules == <<"be", Literal, "kind", Close>>

(* The plugin never sees calls without results: the client answers them. *)
ToolTurn(f, ids) ==
    CASE f = "openai" -> <<Message("assistant", "string", [i \in DOMAIN ids |-> Call(ids[i])])>>
                           \o [i \in DOMAIN ids |-> Message("tool", "string", <<Result(f, ids[i])>>)]
      [] f \in {"claude", "gemini"} ->
            <<Message("assistant", "parts", <<Thought>> \o [i \in DOMAIN ids |-> Call(ids[i])]),
              Message("user", "parts", [i \in DOMAIN ids |-> Result(f, ids[i])])>>
      [] f = "openai-response" ->
            <<Message("assistant", "parts", <<Thought>>)>>
              \o [i \in DOMAIN ids |-> Message("assistant", "parts", <<Call(ids[i])>>)]
              \o [i \in DOMAIN ids |-> Message("tool", "parts", <<Result(f, ids[i])>>)]

MCTurns == [f \in Formats |-> {<<Reply(<<Close, "yes">>), User(Say)>>, ToolTurn(f, <<1>>)}
                                \cup (IF f = "openai-response" THEN {} ELSE {ToolTurn(f, <<1, 2>>)})]

(* Clients of Responses that call two tools at once. *)
MCTurnsParallel == [f \in Formats |-> {ToolTurn(f, <<1, 2>>)}]

Start(slot, msgs) == [slot |-> slot, messages |-> msgs]

(* Of the slots: strings for Responses, parts for Gemini, Claude has both. *)
Slots == [f \in Formats |->
    (IF f = "gemini" THEN {} ELSE {NoSlot, Content("string", <<TextPart(Rules)>>)})
      \cup (IF f = "openai-response" THEN {}
            ELSE {Content("parts", << >>), Content("parts", <<TextPart(Rules), Image>>)})]

MCPrompts == [f \in Formats |->
    IF f = "openai"
    THEN {Start(NoSlot, <<User(Ask)>>),
          Start(NoSlot, <<Message("developer", "string", <<TextPart(<<"obey">>)>>),
                          User(<<"hello">>), Reply(<<"yes">>), User(Ask),
                          Message("system", "string", <<TextPart(Rules)>>)>>),
          Start(NoSlot, <<Message("system", "parts", <<TextPart(Rules), Image>>), User(Ask)>>)}
    ELSE {Start(slot, <<User(Ask)>>) : slot \in Slots[f]}]
=============================================================================
