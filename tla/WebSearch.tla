----------------------------- MODULE WebSearch -----------------------------
(***************************************************************************)
(* search_web_logic (mcp/domains/web_tools.py): long snippets are          *)
(* compressed by a model, then the results are compiled into one tool      *)
(* answer that keeps a budget of tokens.  Sizes are tokens; a fact is the  *)
(* source it was taken from.                                               *)
(***************************************************************************)
EXTENDS Integers, Sequences, SequencesExt

CONSTANTS Budget,   \* settings.tavily.max_token_budget
          MinRest,  \* the rest of the budget that is still used
          Marker,   \* the size of "... [BUDGET LIMIT]"
          Header    \* the size of a chunk without its fact

ASSUME SearchAssumption ==
  /\ Budget \in Nat /\ MinRest \in Nat /\ Marker \in Nat /\ Header \in Nat

\* What Tavily finds, with the size of its snippet before and after compression.
Results == [source : Nat, long : BOOLEAN, raw : Nat, brief : Nat]

\* The compressed snippets, one for each long result, in the results' order.
compressed_snippets(results) ==
  LET tasks[i \in 0 .. Len(results)] ==
        IF i = 0 THEN <<>>
        ELSE IF results[i].long
             THEN Append(tasks[i - 1], [of |-> results[i].source, size |-> results[i].brief])
             ELSE tasks[i - 1]
  IN tasks[Len(results)]

fact_body(results, idx) ==
  LET brief == compressed_snippets(results)
  IN IF idx <= Len(brief) THEN brief[idx]
     ELSE [of |-> results[idx].source, size |-> results[idx].raw]

formatted_chunk(results, idx) ==
  LET fact == fact_body(results, idx)
  IN [source |-> results[idx].source, fact |-> fact.of, size |-> Header + fact.size]

\* One round of the loop: a chunk that does not fit is cut to the rest of the
\* budget, if that is worth it, and ends the loop.
Compile_Uncut(acc, chunk) ==
  [acc EXCEPT !.chunks = Append(@, chunk), !.tokens = @ + chunk.size]
Compile(acc, chunk) ==
  LET rest == Budget - acc.tokens IN
  IF acc.full THEN acc
  ELSE IF chunk.size <= rest
       THEN [acc EXCEPT !.chunks = Append(@, chunk), !.tokens = @ + chunk.size]
       ELSE [acc EXCEPT !.full = TRUE,
                        !.chunks = IF rest > MinRest
                                   THEN Append(@, [chunk EXCEPT !.size = rest + Marker])
                                   ELSE @]

search_web(results) ==
  LET compiled[i \in 0 .. Len(results)] ==
        IF i = 0 THEN [chunks |-> <<>>, tokens |-> 0, full |-> FALSE]
        ELSE Compile(compiled[i - 1], formatted_chunk(results, i))
  IN compiled[Len(results)].chunks

SizeOf(seq) ==
  LET sum[i \in 0 .. Len(seq)] == IF i = 0 THEN 0 ELSE sum[i - 1] + seq[i].size
  IN sum[Len(seq)]
=============================================================================
