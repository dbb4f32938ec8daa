----------------------------- MODULE MCHttpProxy -----------------------------
(***************************************************************************)
(* The requests of HttpProxy for TLC: every body and timeout for one API,  *)
(* and every way to be authorized, with and without headers of the call's, *)
(* for one timeout.                                                        *)
(***************************************************************************)
EXTENDS HttpProxy

Host(host) == [scheme |-> "https", host |-> host]

\* isSet: the variable that authorizes the API is set.
Api(auth, authEnv, held, isSet) ==
  [known |-> TRUE, url |-> Host("public"), headers |-> [h \in {"Accept"} |-> "configured"],
   auth |-> auth, authEnv |-> authEnv, held |-> held, header |-> "X-Key", isSet |-> isSet]

Open == Api("none", "", "", FALSE)

\* "header" as the README has it, and with the name of the header; no shell
\* sets a variable whose name has a colon, so that one holds nothing.
Authorized ==
  {Open, Api("bearer", "variable", "", FALSE), Api("token", "variable", "token", TRUE),
   Api("basic", "variable", "user:password", TRUE),
   Api("header", "variable", "token", TRUE), Api("header", "header:variable", "", TRUE)}

NotCallable ==
  {[Open EXCEPT !.known = FALSE], [Open EXCEPT !.url.scheme = "ftp"]}
  \cup {[Open EXCEPT !.url.host = h] : h \in {"", "*.internal", "10.0.0.0/8", "169.254.169.254"}}

Call(api, content, names, timeout) ==
  [api |-> api, content |-> content, headers |-> [h \in names |-> "call"], timeout |-> timeout,
   valid |-> TRUE]

SomeRequests ==
  {Call(Open, content, names, t) :
     content \in {"none", "clean"}, names \in {{}, {"Content-Type"}}, t \in 1..MaxTimeout}
  \cup {Call(api, "clean", names, 2) :
     api \in Authorized, names \in {{}, {"Accept"}, {"Authorization"}}}
  \cup {Call(Open, "sensitive", {}, 1), [Call(Open, "clean", {}, 1) EXCEPT !.valid = FALSE]}
  \cup {Call(api, "none", {}, 1) : api \in NotCallable}
=============================================================================
