----------------------------- MODULE ApiRequests -----------------------------
(***************************************************************************)
(* What internal/http/client.go decides about a request before it sends    *)
(* it: whether the URL may be called, and the headers.                     *)
(*                                                                         *)
(* A host is the class of hosts it belongs to.  Headers are a function     *)
(* from their names to where they come from.                               *)
(***************************************************************************)
EXTENDS GoMaps

\* A name or an address that validateURL looks for, or "public".
InternalNames == {"localhost", "metadata.google.internal", "kubernetes.default.svc", "*.internal"}
MetadataAddresses == {"169.254.169.254", "100.100.100.200", "169.254.170.2", "fd00:ec2::254"}
PrivateRanges == {"127.0.0.0/8", "10.0.0.0/8", "172.16.0.0/12", "192.168.0.0/16",
                  "169.254.0.0/16", "::1/128", "fc00::/7"}

\* A URL without a host does not parse; addresses are compared as written.
ValidateURL(url) ==
  /\ url.host # ""
  /\ url.scheme \in {"http", "https"}
  /\ url.host \notin InternalNames \cup MetadataAddresses \cup PrivateRanges

\* An API's AUTH_ENV is the name of a variable or, for "header", the name of
\* a header, a colon and the name of a variable.  held is what the variable
\* holds whose name is AUTH_ENV, as a whole.
ApplyAuth(api) ==
  LET sent == Put(EmptyMap, "Authorization", "credentials") IN
    CASE api.auth \in {"bearer", "token"} /\ api.held # "" -> sent
      [] api.auth = "basic" /\ api.held = "user:password" -> sent
      [] api.auth = "header" /\ api.held # "" /\ api.authEnv = "header:variable" ->
           Put(EmptyMap, api.header, "credentials")
      [] OTHER -> EmptyMap

\* The credentials, over them the configured headers and then the call's.
Headers(r) == Merge(Merge(ApplyAuth(r.api), r.api.headers), r.headers)

HasBody(r) == r.content # "none"

\* The first time, a body without a type is said to be JSON.
FirstHeaders(r) ==
  IF HasBody(r) THEN Merge(Put(EmptyMap, "Content-Type", "json"), Headers(r)) ELSE Headers(r)

\* Mutant: the request that is built again has no credentials.
RetryHeadersUnauthorized(r) ==
  LET headers == Merge(r.api.headers, r.headers)
  IN  IF HasBody(r) THEN Put(headers, "Content-Type", "json") ELSE headers

\* The other times, any body is.
RetryHeaders(r) ==
  IF HasBody(r) THEN Put(Headers(r), "Content-Type", "json") ELSE Headers(r)

-----------------------------------------------------------------------------
\* Two sets of headers that differ in the content type at most.
AgreeButForType(h, g) ==
  \A name \in (DOMAIN h \cup DOMAIN g) \ {"Content-Type"} :
    name \in DOMAIN h /\ name \in DOMAIN g /\ h[name] = g[name]
=============================================================================
