----------------------------- MODULE MCAIRouter -----------------------------
(***************************************************************************)
(* An instance of AIRouter for TLC: a provider with a pool of two accounts *)
(* and a limit, a fallback that nobody registered, and one behind it; and  *)
(* the conversations that its requests may carry.                          *)
(***************************************************************************)
EXTENDS AIRouter, AIFormats

CONSTANTS openai, ollama, groq

Order == <<openai, ollama, groq>>
LimitOf == [p \in Limited |-> 3]
TwoAccounts == [p \in Providers |-> IF p = openai THEN 2 ELSE 0]

\* A word, and a text worth compressing: a long line, two without text, and one
\* that ends in spaces.
SomeContents ==
  {Content(TRUE, <<Line("t1", FALSE, "short")>>),
   Content(FALSE, <<Line("t1", FALSE, "long"), Line("", FALSE, "short"),
                    Line("", TRUE, "short"), Line("t2", TRUE, "short")>>)}

SomeRoles == {"system", "user", "assistant", "tool", "developer"}

Conversations ==
  UNION {[1..n -> [role : SomeRoles, content : SomeContents]] : n \in 0..3}

EachFormatUnderstands ==
  \A messages \in Conversations :
    Cardinality(SystemPlaces(messages)) <= 1 => \A format \in Formats : Understands(format, messages)

\* What is asked of a provider is what the agent said: in every format each turn
\* arrives, in order, and so does a system message if there is one; the user's,
\* the assistant's and the system's in a role the provider knows, any other in
\* the role it had.  The user's and the assistant's words are as they were; of
\* the others each line with a text is there, perhaps cut (router.go:82,
\* quota.go:103-152, format.go:83-103, 124-143).
ConversationsArrive ==
  \A p \in Providers : asked[p] > 0 => EachFormatUnderstands

\* The same of conversations with several system messages.
EverySystemMessageArrives ==
  \A p \in Providers : asked[p] > 0 =>
    \A messages \in Conversations : \A format \in Formats : Understands(format, messages)

\* Every role the tool takes is known to the provider it goes to.
EveryRoleIsKnown ==
  \A p \in Providers : asked[p] > 0 =>
    \A messages \in Conversations : \A format \in Formats : KnowsTheRoles(format, messages)

\* "applies simple lossless compression to tool output".
CompressionIsLossless ==
  \A p \in Providers : asked[p] > 0 => \A messages \in Conversations : IsLossless(messages)

\* "the appropriate chat completion endpoint for a provider": whatever its name
\* and its base URL.
EndpointsSpeakTheFormat ==
  \A p \in Providers : asked[p] > 0 =>
    \A name \in Names : \A host \in Hosts : SpeaksTo(name, host)

\* "extracts the assistant response content": an answer with a text in it is
\* not an empty one.
AnswersAreFound ==
  \A p \in Providers : asked[p] > 0 =>
    \A parts \in UNION {[1..n -> {"", "text"}] : n \in 0..2} :
      (\E i \in DOMAIN parts : parts[i] = "text") =>
        ExtractContent("gemini", [texts |-> <<parts>>, total |-> 1]).content # ""
=============================================================================
