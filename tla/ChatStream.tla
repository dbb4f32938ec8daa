----------------------------- MODULE ChatStream -----------------------------
(***************************************************************************)
(* ChatStream of internal/ai/stream.go: a chat whose answer arrives as a   *)
(* stream of server-sent events.  The provider sends line after line, or   *)
(* pauses, or breaks off; the client accumulates the parts, and restores   *)
(* the placeholders once the stream is over.                               *)
(*                                                                         *)
(* A part is plain text or one half of a placeholder, for a provider may   *)
(* cut its text anywhere.  Time is counted in units of the stall a reader  *)
(* of the code would expect to be detected.                                *)
(***************************************************************************)
EXTENDS Naturals, Sequences, SequencesExt

CONSTANTS
  MaxLines,  \* bound on the lines of a stream
  Deadline,  \* TimeoutAI, the deadline of the call
  Usages     \* token counts an event may report

ASSUME StreamAssumption ==
  /\ MaxLines \in Nat /\ Deadline \in Nat \ {0} /\ Usages \subseteq Nat

VARIABLES
  provider,   \* "working", "finished", "gone"
  sent,       \* history: all lines the provider has sent
  wire,       \* those that have not been read
  at,         \* "sending", "reading", "over", "returned"
  content,    \* the parts accumulated
  tokens,     \* the tokens counted
  result,     \* "none", "ok", "error"
  answer,     \* the text returned
  now,        \* time since the call began
  lastLine    \* when the last line was read

vars == <<provider, sent, wire, at, content, tokens, result, answer, now, lastLine>>

Halves == {"open", "close"}
Parts == {"text"} \cup Halves

\* An event with a delta, a usage, or both; any other line: a comment, an
\* empty line, JSON of another shape; a line longer than the scanner's buffer.
Event == [part : Parts \cup {"none"}, usage : Usages \cup {0}]
Other == [part |-> "none", usage |-> 0]
DoneLine == [done |-> TRUE]
LongLine == [long |-> TRUE]

IsEvent(l) == l \notin {DoneLine, LongLine}

Init ==
  /\ provider = "working"
  /\ sent = <<>> /\ wire = <<>>
  /\ at = "sending"
  /\ content = <<>> /\ tokens = 0
  /\ result = "none" /\ answer = <<>>
  /\ now = 0 /\ lastLine = 0

Put(l) ==
  /\ sent' = Append(sent, l)
  /\ wire' = Append(wire, l)

ProviderSends ==
  /\ provider = "working"
  /\ at # "sending"
  /\ Len(sent) < MaxLines
  /\ \E l \in Event \cup {LongLine} : Put(l)
  /\ UNCHANGED <<provider, at, content, tokens, result, answer, now, lastLine>>

ProviderFinishes ==
  /\ provider = "working"
  /\ at # "sending"
  /\ Put(DoneLine)
  /\ provider' = "finished"
  /\ UNCHANGED <<at, content, tokens, result, answer, now, lastLine>>

ProviderBreaksOff ==
  /\ provider = "working"
  /\ provider' = "gone"
  /\ UNCHANGED <<sent, wire, at, content, tokens, result, answer, now, lastLine>>

Return(r, text) == at' = "returned" /\ result' = r /\ answer' = text

\* client.Do: a 200, or an error.
ResponseArrives ==
  /\ at = "sending"
  /\ provider = "working"
  /\ at' = "reading"
  /\ UNCHANGED <<provider, sent, wire, content, tokens, result, answer, now, lastLine>>

RequestFails ==
  /\ at = "sending"
  /\ Return("error", <<>>)
  /\ UNCHANGED <<provider, sent, wire, content, tokens, now, lastLine>>

\* Mutant: the delta of an event that reports usage is dropped.
DeltaUnlessUsage(l) == IF l.part = "none" \/ l.usage > 0 THEN <<>> ELSE <<l.part>>

\* extractOpenAIDelta, extractAnthropicDelta.
Delta(l) == IF l.part = "none" THEN <<>> ELSE <<l.part>>

\* The scanner yields a line of data.
ReadEvent ==
  /\ at = "reading"
  /\ wire # <<>> /\ IsEvent(Head(wire))
  /\ content' = content \o Delta(Head(wire))
  /\ tokens' = tokens + Head(wire).usage
  /\ wire' = Tail(wire)
  /\ lastLine' = now
  /\ UNCHANGED <<provider, sent, at, result, answer, now>>

\* "[DONE]", or a line that ends the scanner with an error nobody asks for.
ReadLast ==
  /\ at = "reading"
  /\ wire # <<>> /\ ~IsEvent(Head(wire))
  /\ at' = "over"
  /\ wire' = Tail(wire)
  /\ UNCHANGED <<provider, sent, content, tokens, result, answer, now, lastLine>>

\* Mutant: the deadline does not reach the stream.
StreamEndsAtEOF ==
  /\ at = "reading"
  /\ wire = <<>> /\ provider = "gone"
  /\ at' = "over"
  /\ UNCHANGED <<provider, sent, wire, content, tokens, result, answer, now, lastLine>>

\* Scan returns false: the provider is gone, or the deadline is over.
StreamEnds ==
  /\ at = "reading"
  /\ \/ wire = <<>> /\ provider = "gone"
     \/ now >= Deadline
  /\ at' = "over"
  /\ UNCHANGED <<provider, sent, wire, content, tokens, result, answer, now, lastLine>>

\* Mutant: each part is restored on its own.
UnredactByPart(s) == s

\* UnredactResponse: whole placeholders become what they stand for.
Unredact(s) ==
  LET Whole(i) == i \in 1..(Len(s) - 1) /\ s[i] = "open" /\ s[i + 1] = "close"
  IN  FlattenSeq([i \in DOMAIN s |->
        IF Whole(i) THEN <<"original">> ELSE IF Whole(i - 1) THEN <<>> ELSE <<s[i]>>])

Finish ==
  /\ at = "over"
  /\ IF content = <<>> THEN Return("error", <<>>) ELSE Return("ok", Unredact(content))
  /\ UNCHANGED <<provider, sent, wire, content, tokens, now, lastLine>>

Tick ==
  /\ at \in {"sending", "reading"}
  /\ now < Deadline
  /\ now' = now + 1
  /\ UNCHANGED <<provider, sent, wire, at, content, tokens, result, answer, lastLine>>

\* The request itself has the deadline, too.
RequestTimesOut == now >= Deadline /\ RequestFails

Provider == ProviderSends \/ ProviderFinishes \/ ProviderBreaksOff
Client ==
  \/ ResponseArrives \/ RequestFails \/ ReadEvent \/ ReadLast \/ StreamEnds \/ Finish

Next == Provider \/ Client \/ Tick

Spec == Init /\ [][Next]_vars

\* The client reads what is there and time passes; the provider owes nothing.
FairSpec ==
  /\ Spec
  /\ WF_vars(ReadEvent \/ ReadLast \/ StreamEnds \/ Finish)
  /\ WF_vars(RequestTimesOut) /\ WF_vars(Tick)

-----------------------------------------------------------------------------
Line == Event \cup {DoneLine, LongLine}

TypeOK ==
  /\ provider \in {"working", "finished", "gone"}
  /\ sent \in Seq(Line) /\ wire \in Seq(Line)
  /\ \E i \in 1..(Len(sent) + 1) : wire = SubSeq(sent, i, Len(sent))
  /\ at \in {"sending", "reading", "over", "returned"}
  /\ content \in Seq(Parts) /\ tokens \in Nat
  /\ result \in {"none", "ok", "error"}
  /\ answer \in Seq({"text", "original"} \cup Halves)
  /\ now \in 0..Deadline /\ lastLine \in 0..Deadline

PartsOf(lines) ==
  FlattenSeq([i \in DOMAIN lines |->
    IF IsEvent(lines[i]) /\ lines[i].part # "none" THEN <<lines[i].part>> ELSE <<>>])

\* However the stream is cut and wherever it ends, the client has the
\* beginning of what the provider sent, nothing missing within and nothing
\* twice (stream.go:89-114).
ContentIsPrefix ==
  /\ IsPrefix(content, PartsOf(sent))
  /\ at = "reading" => content \o PartsOf(wire) = PartsOf(sent)

\* A placeholder that arrived whole is restored, also when two events shared
\* it (stream.go:78-79).
NoPlaceholderIsLeft ==
  result = "ok" =>
    \A i \in 1..(Len(answer) - 1) : ~(answer[i] = "open" /\ answer[i + 1] = "close")

\* The call returns, although the provider may stop without a word.
StreamReturns == <>(at = "returned")

-----------------------------------------------------------------------------
(***************************************************************************)
(* What the code's own words promise.                                      *)
(***************************************************************************)

\* "accumulates the full response": an answer that is no error is all of it.
AnswerIsFull == result = "ok" => DoneLine \in ToSet(sent) /\ content = PartsOf(sent)

\* "Uses per-chunk timeout for stall detection": no wait for a line is longer
\* than a stall may be.
StallIsDetected == at = "reading" => now - lastLine <= 1
=============================================================================
