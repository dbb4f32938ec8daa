--------------------------- MODULE MCDetectorScan ---------------------------
(***************************************************************************)
(* Patterns for DetectorScan: of the built-in ones, a cookie, whose group  *)
(* captures the word before the secret, a long-token pattern with an       *)
(* entropy floor, an email and a local phone number; and a custom rule.    *)
(***************************************************************************)
EXTENDS DetectorScan

CONSTANT MaxLen  \* length of a text

AllTexts == UNION {[1..n -> Atoms] : n \in 0..MaxLen}

Match(span, value) == [span |-> span, value |-> value]
Whole(span) == Match(span, span)
Pattern(type, matches, rejects, noise, where) ==
  [type |-> type, matches |-> matches, rejects |-> rejects,
   noise |-> noise, locales |-> where]

\* "sid" is the word of a cookie, "low" and "high" are tokens of little and
\* of much entropy, "num" is a number, "code" is a colon or an equals sign.
Secrets ==
  <<Pattern("Session Cookie",
            {Match(<<"sid", "high">>, <<"sid">>), Match(<<"sid", "low">>, <<"sid">>)}, {}, {}, {}),
    Pattern("High Entropy Token",
            {Whole(<<"low">>), Whole(<<"high">>), Whole(<<"low", "high">>)},
            {<<"low">>}, {}, {}),
    Pattern("Custom", {Match(<<"code", "low">>, <<"low">>), Whole(<<"high", "num">>),
                       Whole(<<"high", "num", "num">>)}, {}, {}, {})>>

PII ==
  <<Pattern("Email", {Whole(<<"low", "num">>)}, {}, {}, {"global"}),
    Pattern("Phone", {Whole(<<"num">>), Whole(<<"num", "num">>)}, {}, {<<"num">>}, {"id"})>>

Filters == {{}, {"global"}, {"id"}, {"sg"}}
=============================================================================
