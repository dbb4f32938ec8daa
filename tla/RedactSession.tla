--------------------------- MODULE RedactSession ---------------------------
(***************************************************************************)
(* Conversations over one MappingStore.  An agent has a text redacted      *)
(* (RedactContext), sends it to a model, and later has the reply restored  *)
(* (UnredactResponse).  The two tool calls are separate requests: other    *)
(* conversations, and a restart of the server, come between them and       *)
(* between the store calls of one request, each of which takes the mutex   *)
(* on its own.                                                             *)
(*                                                                         *)
(* A text is the sequence of what the detectors match in it; the plain     *)
(* text between is never touched.  A match is cut out as a whole, but what *)
(* is reported and stored is its value: the match itself, or the group its *)
(* pattern captures, which two different matches may share.  Findings that *)
(* overlap are the business of OverlapDedup.  The store's snapshots are    *)
(* left out: nothing in the server calls them.                             *)
(***************************************************************************)
EXTENDS MappingStore, Sequences

CONSTANTS
  Conversations,  \* agents talking to the server
  Matches,        \* what the detectors match
  Texts,          \* the texts they redact
  ValueOf,        \* match -> the value reported for it
  TypesOf         \* match -> types a scan may report it as (by locale)

ASSUME TextAssumption ==
  /\ \A txt \in Texts : txt \in Seq(Matches)
  /\ ValueOf \in [Matches -> Originals]
  /\ TypesOf \in [Matches -> (SUBSET Types) \ {{}}]

VARIABLES
  stage,    \* "idle", "redacting", "sent", "restoring", "done"
  text,     \* the agent's text
  message,  \* what RedactContext has made of it: a sequence of pieces
  reply,    \* what UnredactResponse has made of the model's reply
  toDo      \* positions the running request has still to treat

talk == <<stage, text, message, reply, toDo>>
allVars == <<phase, key, inMemory, byOriginal, counter, rows, snapshot, session,
             restored, fresh, unseen, stage, text, message, reply, toDo>>

Raw(o) == [raw |-> TRUE, original |-> o]
Masked(ph) == [raw |-> FALSE, placeholder |-> ph]
RawText(txt) == [p \in DOMAIN txt |-> Raw(txt[p])]

SessionInit ==
  /\ Init
  /\ stage = [c \in Conversations |-> "idle"]
  /\ text = [c \in Conversations |-> <<>>]
  /\ message = [c \in Conversations |-> <<>>]
  /\ reply = [c \in Conversations |-> <<>>]
  /\ toDo = [c \in Conversations |-> {}]

-----------------------------------------------------------------------------
(***************************************************************************)
(* RedactContext.                                                          *)
(***************************************************************************)

ValueAt(c, p) == ValueOf[text[c][p]]

\* A value is reported once, where it is first met (seen[value]): a later
\* match with this value, be it the same text or another one, stays.
Scan(txt) ==
  {p \in DOMAIN txt : \A q \in DOMAIN txt : q < p => ValueOf[txt[q]] # ValueOf[txt[p]]}

BeginRedact(c) ==
  /\ Running
  /\ stage[c] = "idle"
  /\ \E txt \in Texts :
       /\ text' = [text EXCEPT ![c] = txt]
       /\ toDo' = [toDo EXCEPT ![c] = Scan(txt)]
       /\ message' = [message EXCEPT ![c] = RawText(txt)]
  /\ stage' = [stage EXCEPT ![c] = "redacting"]
  /\ UNCHANGED <<vars, reply>>

\* Mutant: the reverse index is not consulted: a value another conversation
\* has stored is stored again.
ReplaceAnew(c) ==
  /\ stage[c] = "redacting"
  /\ \E p \in toDo[c] :
       /\ \A q \in toDo[c] : q <= p
       /\ \E t \in TypesOf[text[c][p]] :
            /\ CreateAlways(ValueAt(c, p), t)
            /\ message' = [message EXCEPT
                 ![c][p] = Masked(NewMapping(ValueAt(c, p), t).placeholder)]
       /\ toDo' = [toDo EXCEPT ![c] = @ \ {p}]
  /\ UNCHANGED <<stage, text, reply>>

\* One iteration of the replacement loop: the last finding left, with the
\* type this scan gave its value.
Replace(c) ==
  /\ stage[c] = "redacting"
  /\ \E p \in toDo[c] :
       /\ \A q \in toDo[c] : q <= p
       /\ \E t \in TypesOf[text[c][p]] :
            /\ GetOrCreate(ValueAt(c, p), t)
            /\ message' = [message EXCEPT
                 ![c][p] = Masked(Answer(ValueAt(c, p), t).placeholder)]
       /\ toDo' = [toDo EXCEPT ![c] = @ \ {p}]
  /\ UNCHANGED <<stage, text, reply>>

\* RedactContext returns, and the agent sends the message to a model.
Send(c) ==
  /\ Running
  /\ stage[c] = "redacting"
  /\ toDo[c] = {}
  /\ stage' = [stage EXCEPT ![c] = "sent"]
  /\ UNCHANGED <<vars, text, message, reply, toDo>>

-----------------------------------------------------------------------------
(***************************************************************************)
(* UnredactResponse.                                                       *)
(***************************************************************************)

\* The model's reply quotes the message; the agent asks to have it restored.
BeginUnredact(c) ==
  /\ Running
  /\ stage[c] = "sent"
  /\ stage' = [stage EXCEPT ![c] = "restoring"]
  /\ reply' = [reply EXCEPT ![c] = message[c]]
  /\ toDo' = [toDo EXCEPT ![c] = {p \in DOMAIN message[c] : ~message[c][p].raw}]
  /\ UNCHANGED <<vars, text, message>>

\* Mutant: what a known placeholder stands for is left masked.
RestoredUnlessKnown(piece) == piece

\* An unknown placeholder is kept as it is.
Restored(piece) ==
  IF Resolves(piece.placeholder)
  THEN Raw(Lookup(piece.placeholder).original)
  ELSE piece

\* One iteration of the scan for brackets: the next placeholder is looked up.
RestoreNext(c) ==
  /\ Running
  /\ stage[c] = "restoring"
  /\ \E p \in toDo[c] :
       /\ \A q \in toDo[c] : p <= q
       /\ reply' = [reply EXCEPT ![c][p] = Restored(@)]
       /\ toDo' = [toDo EXCEPT ![c] = @ \ {p}]
  /\ UNCHANGED <<vars, stage, text, message>>

EndUnredact(c) ==
  /\ Running
  /\ stage[c] = "restoring"
  /\ toDo[c] = {}
  /\ stage' = [stage EXCEPT ![c] = "done"]
  /\ UNCHANGED <<vars, text, message, reply, toDo>>

-----------------------------------------------------------------------------
(***************************************************************************)
(* The server stops and starts.                                            *)
(***************************************************************************)

\* Requests in progress die with the process.  An agent whose message is out
\* keeps it, and may have its reply restored by the next process.
Stop ==
  /\ Exit
  /\ LET redacting == {c \in Conversations : stage[c] = "redacting"}
         restoring == {c \in Conversations : stage[c] = "restoring"}
     IN
       /\ stage' = [c \in Conversations |->
                      IF c \in redacting THEN "idle"
                      ELSE IF c \in restoring THEN "sent" ELSE stage[c]]
       /\ text' = [c \in Conversations |-> IF c \in redacting THEN <<>> ELSE text[c]]
       /\ message' =
            [c \in Conversations |-> IF c \in redacting THEN <<>> ELSE message[c]]
       /\ reply' = [c \in Conversations |-> IF c \in restoring THEN <<>> ELSE reply[c]]
       /\ toDo' = [c \in Conversations |-> {}]

SessionNext ==
  \/ \E c \in Conversations :
       \/ BeginRedact(c) \/ Replace(c) \/ Send(c)
       \/ BeginUnredact(c) \/ RestoreNext(c) \/ EndUnredact(c)
  \/ Close /\ UNCHANGED talk
  \/ Stop
  \/ \E k \in Keys : Start(k) /\ UNCHANGED talk

SessionSpec == SessionInit /\ [][SessionNext]_allVars

-----------------------------------------------------------------------------
(***************************************************************************)
(* Properties.                                                             *)
(***************************************************************************)

Out == {c \in Conversations : stage[c] \in {"sent", "restoring", "done"}}

SessionTypeOK ==
  /\ stage \in [Conversations ->
                  {"idle", "redacting", "sent", "restoring", "done"}]
  /\ text \in [Conversations -> Texts \cup {<<>>}]
  /\ \A c \in Conversations :
       /\ DOMAIN message[c] = DOMAIN text[c]
       /\ toDo[c] \subseteq DOMAIN text[c]
       /\ stage[c] \in {"restoring", "done"} => DOMAIN reply[c] = DOMAIN text[c]

\* What goes wrong after a restart is the subject of NothingForeignIsRestored;
\* until then the following hold.
FirstProcess == session = 1

\* What restoring gives back of a text: where a match was cut out, its value.
Returned(txt) ==
  [p \in DOMAIN txt |-> Raw(IF p \in Scan(txt) THEN ValueOf[txt[p]] ELSE txt[p])]

\* A restored reply is the agent's text, with each value in its own place,
\* whatever other conversations redacted in between and whether or not the
\* writes succeeded.  Of a match that was cut out the value comes back, which
\* for a capturing pattern is the group only (redact.go:60-123).
RoundTrip ==
  DistinctLabels /\ FirstProcess =>
    \A c \in Conversations : stage[c] = "done" => reply[c] = Returned(text[c])

\* In all the messages that are out, two placeholders are the same exactly
\* when they stand for the same value: the model can tell values apart and
\* recognise one again (mapping.go:108-124).
PlaceholdersNameValues ==
  DistinctLabels /\ FirstProcess =>
    \A c, d \in Out : \A p \in DOMAIN message[c], q \in DOMAIN message[d] :
      ~message[c][p].raw /\ ~message[d][q].raw =>
        (message[c][p] = message[d][q] <=> ValueAt(c, p) = ValueAt(d, q))

\* A placeholder of c's that was restored with another value than it stood for.
Misread(c, p) ==
  /\ ~message[c][p].raw
  /\ reply[c][p].raw
  /\ reply[c][p].original # ValueAt(c, p)

\* The process after a restart restores what the one before it redacted, in
\* part or not at all when its load or the writes have failed, and gets a
\* value wrong only where it has itself handed out that placeholder again
\* (mapping.go:48, 76-101, redact.go:113-119).
OnlyReissuedAreMisread ==
  DistinctLabels /\ Running /\ session <= 2 =>
    \A c \in Conversations : \A p \in DOMAIN reply[c] :
      Misread(c, p) => message[c][p].placeholder \in Issued

-----------------------------------------------------------------------------
(***************************************************************************)
(* What the code's own words promise without those conditions.             *)
(***************************************************************************)

\* "replaces detected secrets and PII with placeholders": no value the
\* detectors know goes out as it is.
NothingSensitiveIsSent ==
  \A c \in Out : \A p \in DOMAIN message[c] : ~message[c][p].raw

\* "Restores originals from placeholders": where a value is put back, it is
\* the value that was there, not another agent's.
NothingForeignIsRestored ==
  \A c \in Conversations : \A p \in DOMAIN reply[c] : ~Misread(c, p)
=============================================================================
