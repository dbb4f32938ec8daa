------------------------------ MODULE AIFormats ------------------------------
(***************************************************************************)
(* internal/ai/format.go, the end of provider.go and the compression of    *)
(* quota.go: how a conversation is put to a provider and what is taken     *)
(* from its answer.  The body depends on the host of the base URL, the     *)
(* endpoint and the authorization on the provider's name.                  *)
(*                                                                         *)
(* A content is a sequence of lines, and small if it has less than 500     *)
(* characters.  A line has a text, "" if there are only spaces in it; it   *)
(* may end in spaces, and it may be long (more than 500 characters) or     *)
(* have been cut in its middle.  A role is any text.                       *)
(***************************************************************************)
EXTENDS Slices

Formats == {"openai", "anthropic", "gemini"}
Hosts == {"api.anthropic.com", "generativelanguage.googleapis.com", "api.openai.com", "localhost"}

\* The Name of a Provider, which the code compares in lower case.
Names == {"anthropic", "gemini", "google", "openai", "claude"}

Message(role, content) == [role |-> role, content |-> content]

Line(text, spaces, form) == [text |-> text, spaces |-> spaces, form |-> form]
Content(small, lines) == [small |-> small, lines |-> lines]
NoContent == Content(TRUE, <<>>)

\* TrimRight, and " [...] " for the middle of a long line.
Shorten(l) == Line(l.text, FALSE, IF l.form = "long" THEN "cut" ELSE l.form)

\* Of several lines without text in a row the first is left.
Repeated(lines) ==
  {i \in DOMAIN lines : lines[i].text = "" /\ i > 1 /\ lines[i - 1].text = ""}

CompressContent(content) ==
  IF content.small THEN content
  ELSE LET left == Without(content.lines, Repeated(content.lines))
       IN  Content(FALSE, [i \in DOMAIN left |-> Shorten(left[i])])

CompressToolResults(messages) ==
  [i \in DOMAIN messages |->
     LET m == messages[i]
     IN  IF m.role \in {"tool", "system"} THEN Message(m.role, CompressContent(m.content)) ELSE m]

DetectFormat(host) ==
  CASE host = "api.anthropic.com"                 -> "anthropic"
    [] host = "generativelanguage.googleapis.com" -> "gemini"
    [] OTHER                                      -> "openai"

\* Whose API the endpoint and the authorization are.
ChatEndpoint(name) ==
  CASE name = "anthropic"            -> "anthropic"
    [] name \in {"gemini", "google"} -> "gemini"
    [] OTHER                         -> "openai"

ApplyAuth(name) ==
  CASE ChatEndpoint(name) = "anthropic" -> "x-api-key"
    [] ChatEndpoint(name) = "gemini"    -> "key"
    [] OTHER                            -> "Authorization"

SystemPlaces(messages) == {i \in DOMAIN messages : messages[i].role = "system"}

ToOpenAI(messages) == [system |-> NoContent, messages |-> messages]

\* "system" is a field of its own: of several system messages the last.
ToAnthropic(messages) ==
  LET systems == SystemPlaces(messages)
  IN  [system |-> IF systems = {} THEN NoContent
                  ELSE messages[CHOOSE i \in systems : \A j \in systems : j <= i].content,
       messages |-> Without(messages, systems)]

\* Mutant: only the assistant's messages are given another role.
ToGeminiWithSystem(messages) ==
  [system |-> NoContent,
   messages |-> [i \in DOMAIN messages |->
     LET m == messages[i] IN IF m.role = "assistant" THEN Message("model", m.content) ELSE m]]

\* A role that is neither goes on as it is.
ToGemini(messages) ==
  LET RoleOf(role) ==
        CASE role = "assistant" -> "model" [] role = "system" -> "user" [] OTHER -> role
  IN  [system |-> NoContent,
       messages |-> [i \in DOMAIN messages |->
         Message(RoleOf(messages[i].role), messages[i].content)]]

TranslateToProvider(format, messages) ==
  CASE format = "anthropic" -> ToAnthropic(messages)
    [] format = "gemini"    -> ToGemini(messages)
    [] OTHER                -> ToOpenAI(messages)

\* What ChatWithFallback makes of the messages of a chat, and Chat a body of.
BodyOf(format, said) == TranslateToProvider(format, CompressToolResults(said))

\* An answer has choices, contents or candidates, each with parts; the first
\* part of the first is taken, and the tokens, whose number comes in one piece
\* or in two.
ExtractContent(format, answer) ==
  LET first == IF answer.texts = <<>> THEN <<>> ELSE Head(answer.texts)
      tokens == IF format = "anthropic" THEN answer.input + answer.output ELSE answer.total
  IN  IF first = <<>> THEN [content |-> "", tokens |-> 0]
                      ELSE [content |-> Head(first), tokens |-> tokens]

-----------------------------------------------------------------------------
\* The roles that are common to the APIs, and those an API knows them as.
Spoken == {"system", "user", "assistant"}

RolesOf(format) ==
  CASE format = "openai"    -> {"system", "user", "assistant"}
    [] format = "anthropic" -> {"user", "assistant"}
    [] format = "gemini"    -> {"user", "model"}

Contents(messages) == [i \in DOMAIN messages |-> messages[i].content]

\* Compression leaves the messages in their places; what the user and the
\* assistant said it does not touch, and of another message it keeps each line
\* with a text, although it may cut a long one.
Keeps(said, messages) ==
  /\ DOMAIN messages = DOMAIN said
  /\ \A i \in DOMAIN said :
       /\ messages[i].role = said[i].role
       /\ said[i].role \notin {"tool", "system"} => messages[i] = said[i]
       /\ LET lines == said[i].content.lines
              left == messages[i].content.lines
          IN  \A j \in DOMAIN lines : lines[j].text # "" =>
                \E k \in DOMAIN left :
                  /\ left[k].text = lines[j].text
                  /\ left[k].form # lines[j].form => lines[j].form = "long"

\* The provider gets the messages as the compression leaves them: the turns in
\* their order and each of its system messages, in roles it knows if the agent
\* used those all APIs have; any other role goes on as it is.
Understands(format, said) ==
  LET messages == CompressToolResults(said)
      body == BodyOf(format, said)
      given == Contents(body.messages)
      turns == Without(messages, SystemPlaces(messages))
  IN  /\ Keeps(said, messages)
      /\ \A i \in DOMAIN body.messages :
           \/ body.messages[i].role \in RolesOf(format)
           \/ \E j \in DOMAIN said : body.messages[i].role = said[j].role /\ said[j].role \notin Spoken
      /\ IF format = "anthropic" THEN given = Contents(turns) ELSE given = Contents(messages)
      /\ \A i \in SystemPlaces(messages) :
           LET text == messages[i].content
           IN  body.system = text \/ \E k \in DOMAIN given : given[k] = text

\* The provider knows every role it is sent.
KnowsTheRoles(format, said) ==
  LET body == BodyOf(format, said)
  IN  \A i \in DOMAIN body.messages : body.messages[i].role \in RolesOf(format)

\* What is compressed has lost no text.
IsLossless(said) ==
  LET messages == CompressToolResults(said)
      Cut(m) == \E k \in DOMAIN m.content.lines : m.content.lines[k].form = "cut"
  IN  \A i \in DOMAIN said : Cut(messages[i]) => Cut(said[i])

\* Endpoint and authorization are those of the API the body is for.
SpeaksTo(name, host) == ChatEndpoint(name) = DetectFormat(host)
=============================================================================
