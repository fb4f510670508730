--------------------------- MODULE MessageHistory ---------------------------
(***************************************************************************)
(* The messages of one conversation as the nodes of the graph add and      *)
(* remove them, and the prompt the executor assembles from them            *)
(* (nodes/executor.py, utils.py).  Turns that fail and messages whose      *)
(* calls a safeguard blocked leave calls without answers behind.           *)
(***************************************************************************)
EXTENDS WebSearch, FiniteSets, FiniteSetsExt

CONSTANTS Searches,    \* what Tavily may return: sequences of results
          MaxContext,  \* max_context_tokens
          SystemSize, TextSize,
          MaxBatch,    \* calls in one message
          MaxTurns,    \* bound on the prompts
          MaxVisits    \* bound on the executor's visits

ASSUME HistoryAssumption ==
  /\ MaxContext \in Nat /\ SystemSize \in Nat /\ TextSize \in Nat
  /\ Searches \subseteq Seq(Results)
  /\ MaxBatch \in Nat /\ MaxTurns \in Nat /\ MaxVisits \in Nat

VARIABLES messages, node,
          made,            \* the calls made so far; a call is its number
          found,           \* the chunks of the latest searches, by call
          turns, visits

vars == <<messages, node, made, found, turns, visits>>

Msg(type, calls, call, size) == [type |-> type, calls |-> calls, call |-> call, size |-> size]

System == Msg("system", {}, 0, SystemSize)
Reminder == Msg("system", {}, 0, TextSize)
Human  == Msg("human", {}, 0, TextSize)
Ai(calls, size) == Msg("ai", calls, 0, size)
Tool(call, size) == Msg("tool", {}, call, size)

-----------------------------------------------------------------------------
\* The prompt.

\* The calls of the i-th message that no later message answers.
orphaned_OnlyLast(ms, i) == IF i = Len(ms) THEN ms[i].calls ELSE {}
orphaned(ms, i) == ms[i].calls \ {ms[j].call : j \in i + 1 .. Len(ms)}

\* A message with an orphaned call loses all its calls, and goes without text.
_sanitize_orphaned_tool_calls(ms) ==
  FlattenSeq([i \in DOMAIN ms |->
    IF orphaned(ms, i) = {} THEN <<ms[i]>>
    ELSE IF ms[i].size > 0 THEN <<Ai({}, ms[i].size)>>
    ELSE <<>>])

Suffix(ms, n) == SubSeq(ms, Len(ms) - n + 1, Len(ms))

\* The longest suffix that fits the window.
prune_messages_by_token_limit(ms) ==
  Suffix(ms, Max({n \in 0 .. Len(ms) : SizeOf(Suffix(ms, n)) <= MaxContext}))

uncut_prompt == _sanitize_orphaned_tool_calls(<<System>> \o messages)

kept_messages == prune_messages_by_token_limit(uncut_prompt)

\* From the second iteration on, a reminder comes after what pruning kept.  The
\* iterations are counted from zero where a turn or a task begins, that is, where
\* the user's message is the last one.
compiled_messages ==
  IF Last(messages).type = "human" THEN kept_messages ELSE Append(kept_messages, Reminder)

-----------------------------------------------------------------------------
Init ==
  /\ messages = <<>> /\ node = "END"
  /\ made = 0 /\ found = <<>> /\ turns = 0 /\ visits = 0

Add(seq) == messages' = messages \o seq

\* A turn begins: triage and planning add no message.
Ask ==
  /\ node = "END" /\ turns < MaxTurns
  /\ Add(<<Human>>)
  /\ node' = "travel_react_agent"
  /\ turns' = turns + 1
  /\ UNCHANGED <<made, found, visits>>

\* A turn that triage answers: out of domain, support, a clarification.
Reply ==
  /\ node = "END" /\ turns < MaxTurns
  /\ Add(<<Human, Ai({}, TextSize)>>)
  /\ turns' = turns + 1
  /\ UNCHANGED <<node, made, found, visits>>

\* The executor's answer: text, calls, or both.
node_travel_react_agent ==
  /\ node = "travel_react_agent" /\ visits < MaxVisits
  /\ \E n \in 0 .. MaxBatch, size \in {0, TextSize} :
       /\ n = 0 => size > 0
       /\ Add(<<Ai(made + 1 .. made + n, size)>>)
       /\ made' = made + n
       /\ node' = IF n = 0 THEN "review" ELSE "evaluate_tool_hooks"
  /\ visits' = visits + 1 /\ found' = <<>>
  /\ UNCHANGED turns

\* A limit or a repeated call: the calls are not run.
Blocked ==
  /\ node = "evaluate_tool_hooks" /\ node' = "review"
  /\ UNCHANGED <<messages, made, found, turns, visits>>

\* An error, or a search without a result, is a short text.
AnswerSize(results) == IF results = <<>> THEN TextSize ELSE SizeOf(search_web(results))

\* Every call of the message searches, each with results of its own.
tools ==
  /\ node = "evaluate_tool_hooks"
  /\ \E results \in [Last(messages).calls -> Searches] :
       /\ found' = [c \in DOMAIN results |-> search_web(results[c])]
       /\ Add(SetToSeq({Tool(c, AnswerSize(results[c])) : c \in DOMAIN results}))
  /\ node' = "travel_react_agent"
  /\ UNCHANGED <<made, turns, visits>>

\* The evaluator sends the task back; no message is added or removed.
Rework ==
  /\ node = "review" /\ node' = "travel_react_agent"
  /\ UNCHANGED <<messages, made, found, turns, visits>>

last_human_idx == SelectLastInSeq(messages, LAMBDA m : m.type = "human")

\* The task manager moves on to the next task.
NextTask ==
  /\ node = "review" /\ node' = "travel_react_agent"
  /\ messages' = SubSeq(messages, 1, last_human_idx)
  /\ UNCHANGED <<made, found, turns, visits>>

\* The synthesizer's answer ends the turn.
node_final_synthesizer ==
  /\ node = "review" /\ node' = "END"
  /\ Add(<<Ai({}, TextSize)>>)
  /\ UNCHANGED <<made, found, turns, visits>>

\* A model or a tool raises: the checkpoint keeps what was added.
GraphFails ==
  /\ node \in {"travel_react_agent", "evaluate_tool_hooks", "review"}
  /\ node' = "END"
  /\ UNCHANGED <<messages, made, found, turns, visits>>

Next ==
  \/ Ask \/ Reply \/ node_travel_react_agent \/ Blocked \/ tools
  \/ Rework \/ NextTask \/ node_final_synthesizer \/ GraphFails

Spec == Init /\ [][Next]_vars

-----------------------------------------------------------------------------
Prompting == node = "travel_react_agent"

\* The provider's protocol: in every prompt a call is answered by the messages
\* right after it, and an answer has lost its call only where the prompt was
\* cut, at its front.
PromptFollowsProtocol ==
  Prompting =>
    LET p == compiled_messages
        Answers(i) == {p[j].call : j \in i + 1 .. i + Cardinality(p[i].calls)}
    IN /\ \A i \in DOMAIN p :
            p[i].calls # {} =>
              /\ i + Cardinality(p[i].calls) <= Len(p)
              /\ Answers(i) = p[i].calls
       /\ \A j \in DOMAIN p :
            p[j].type = "tool" =>
              \/ \E i \in 1 .. j - 1 : p[j].call \in p[i].calls
              \/ kept_messages # uncut_prompt /\ \A k \in 1 .. j : p[k].type = "tool"

\* What a tool may answer at most: a compiled search, or a short error.
AnswerLimit == Max({Budget + Marker, TextSize})

\* The search budget protects the window: the executor sees the whole round of
\* tools it has just called for, if the budgets of its calls fit the window.
LatestRoundKept ==
  Prompting /\ messages # <<>> /\ Last(messages).type = "tool" =>
    LET first == Max({i \in DOMAIN messages : messages[i].calls # {}})
        calls == Cardinality(messages[first].calls)
    IN messages[first].size + calls * AnswerLimit <= MaxContext =>
         IsSuffix(SubSeq(messages, first, Len(messages)), kept_messages)

-----------------------------------------------------------------------------
(* What a comment says and the code does not do.                             *)

\* "Source: ... Link: ... Fact: ...": the fact of a chunk was taken from the
\* source the chunk names.
FactBelongsToItsSource ==
  \A c \in DOMAIN found : \A i \in DOMAIN found[c] : found[c][i].fact = found[c][i].source
=============================================================================
