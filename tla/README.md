# Zara Privacy MCP: specifications

Zara Privacy MCP is a server of the Model Context Protocol, written in Go.  An
agent calls its tools; the server finds secrets and personal data in texts,
replaces them by placeholders such as `[EMAIL_1]`, restores them later, and
stands between the agent and databases, HTTP APIs and language models, masking
what comes back.  This directory holds TLA+ models of the server, the TLC runs
that check them, and proofs for TLAPS.

- [The system](#the-system): its parts, their state and how they meet
- [Modules](#modules): which module models which part, and how
- [Runs](#runs): what each checks, its bounds, and what it shows
- [Where the code and its words disagree](#where-the-code-and-its-words-disagree)
- [Fairness](#fairness)
- [Proofs](#proofs)
- [What is not modelled](#what-is-not-modelled)
- [Plan](#plan)

`tlc -config X.cfg M` checks one run (`PROJECT.json` lists the pairs),
`tlapm M.tla` the proofs of one of the eight modules called `*Proofs`.

## The system

Tool calls run concurrently: the program serves stdio (`lifecycle.go:108`), where
mcp-go hands each call to one of a pool of workers.  A call passes the middlewares
of `transport/server.go` and reaches a handler of `application/tools/handlers.go`,
which calls one of the components below.  They are built once, at start-up, and
shared by all calls; each protects its own state, or does not.

| part | source | state | operations |
|---|---|---|---|
| placeholder store | `internal/store/mapping.go` | placeholder -> mapping, value -> placeholder, a counter per detection type, under one RWMutex; a SQLite table of encrypted rows | open and load, GetOrCreate, Lookup, Close; snapshot and restore, which nothing outside the tests calls |
| detectors and masking | `internal/detector`, `internal/masking` | patterns, custom rules; a `seen` map within a scan | Scan, ScanWithContext, MaskString |
| redaction engine | `internal/engine/redact.go` | none of its own | RedactContext, UnredactResponse, ScanContext |
| connection registries | `internal/db` | name -> connection, each kind under an RWMutex | Add (pings under the lock), Get, CloseAll |
| queries | `internal/db` | a pool of connections, open result sets | Query, Exec, ListTables, DescribeTable, Find, Do |
| configuration | `config/config.go` | none | Load, Validate, collectNames |
| process lifecycle | `internal/bootstrap`, `config/reload.go`, `cmd/server` | a context, a signal channel of one place | start-up, SIGHUP, OnStop |
| AI router | `internal/ai/router.go`, `pool.go`, `quota.go`, `provider.go` | providers (no lock), account pools with an index, quotas per provider | ChatWithFallback, Pick, Record, Available |
| AI formats | `internal/ai/format.go` | none | translate a conversation, read an answer |
| AI streaming | `internal/ai/stream.go` | none between calls | ChatStream |
| HTTP proxy | `internal/http/client.go` | APIs, read only | Do |
| tool handlers | `application/tools` | none of their own | 22 tools, the gates of four of them |
| tool server | `transport/server.go`, `internal/observe`, `internal/audit` | a channel of 20 tokens, telemetry goroutines, the audit log under a mutex | rate limit, audit, telemetry, recovery from panics |
| compression | `internal/compress` | none | Compress: DedupLines, RemoveComments, ExtractRelevant |
| classification, encryption | `internal/classify`, `internal/crypto` | none that changes | pure functions |

How they meet:

- A **redaction** scans, resolves overlaps, and calls `GetOrCreate` once per
  finding.  Each call takes the store's mutex on its own, so redactions of two
  agents interleave between findings.  The redacted text leaves the process; it
  comes back in another request, perhaps to another process.
- A **tool call** that wants a database takes a connection from its registry
  and uses it after the registry's lock is released.  A **reload** (a goroutine
  started by SIGHUP) closes and adds connections meanwhile, and the **stop**
  closes the store and the registries without waiting for either.
- Calls of one SQL database share its pool of connections.
- **Chats** share the providers map, the pools' indices and the quotas; the
  check of a quota and the record of its use are two critical sections with an
  HTTP request between them.
- **Telemetry** is sent by a goroutine that outlives its call.

What makes this hard to test, line by line, is the list of hazards in
`PROJECT.json`: steps of two calls with an await between them, restarts between
a redaction and its restoration, failed writes and pings, retries of requests
that may have been carried out, streams and result sets that break off, and
limits reached by several calls at once.

What makes each part correct:

- *store*: a value keeps its placeholder and a placeholder its value while the
  process lives; what a process has loaded or written is known to it, and only
  what it could not load is stored twice.
- *detectors*: each value is reported, and masking changes the values reported
  and nothing else.
- *engine*: the findings kept are disjoint, so that offsets into the original
  text stay right; restoring a redacted text gives the original.
- *configuration*: the services in use are those that were written down, each
  with its own settings.
- *registries, lifecycle*: no connection is lost, none of an earlier
  configuration stays open, every signal is served, the process can stop.
- *queries*: every connection returns to the pool, no row is dropped silently, a
  result's values are masked and it says which were, a table is described in its
  server's dialect or not at all.
- *AI*: requests follow the fallback order and are counted; every turn of a
  conversation arrives, whatever the provider's format, and what is compressed
  loses no line; a streamed answer is the beginning of the provider's answer.
- *HTTP proxy*: a request is repeated only after a failure, with the headers and
  credentials it had; every body is closed; Do returns.
- *handlers*: nothing is run that a gate has not let through, and a query is run
  as what the gate took it for and is one statement; compression keeps what
  matters.
- *tool server*: slots are given back on every way out of a call; nobody is
  refused while there is room; events are sent once.

## Modules

```
GoMaps                      Go maps as partial functions
Slices                      the places of a sequence that are dropped
PlaceholderVault            what the store promises: placeholders never reassigned
MappingStore                the store            (implements PlaceholderVault)
  RedactSession             redaction and restoration by several agents, over the store
    RedactSessionProofs     the store and the conversations
OverlapDedup                the overlap loop of the engine
  RedactCuts                ... and the cuts that follow it
    OverlapDedupProofs      the loop and the cuts
DetectorScan                both Scan loops, MaskSecret and MaskString
Configuration               reading services from the environment
SqlDrivers                  drivers, pools, dialects, the description of a column
ConnectionLives             what the registries promise: one connection per service
ConnRegistry                the three registries
  ServiceLifecycle          start-up, reload, stop and tool calls over them (implements ConnectionLives)
    MCServiceLifecycle      ... with Configuration and SqlDrivers
      ServiceLifecycleProofs
ResultSet                   queries, their connections and their rows
Documents                   MongoDB's documents and Redis' replies in a result
  MCResultSet               ResultSet with Documents
    ResultSetProofs         both, and DetectorScan
Quota                       the quota of one provider
  AIRouter                  concurrent chats with fallback, pools and quotas
AIFormats                   conversations in three providers' formats
  MCAIRouter                AIRouter with AIFormats
    AIRouterProofs
ChatStream                  one streamed chat
  ChatStreamProofs
ApiRequests                 whether a URL may be called, and the headers
  HttpProxy                 one proxied request with its retries
    HttpProxyProofs
InputGates                  what the gates look for
  ToolHandlers              the 22 handlers as sequences of steps
    ToolServer              the middlewares      (implements Admission)
Compression                 what compress_context answers
  MCToolServer              ToolServer with Compression
    ToolServerProofs
Admission                   what a rate limit promises
```

The `MC*` modules give TLC values for function-valued constants and symmetry
sets.  Those named above also bring together a module of state with one of pure
functions: the property says what a function must do over *all* inputs of a
bounded set, once the state is reached in which the code calls it.

**MappingStore.**  `inMemory`, `byOriginal` and `counter` are the Go maps,
`rows` the SQLite table with the key each row was written with.  An action is a
method under its mutex.  `GetOrCreate` is the hit or, with `Create`, the miss;
`PersistMapping` is part of it and may fail without any effect on memory.
`TakeSnapshot`, `RestoreFromSnapshot` and `Close` are the methods of those
names; the first two have no caller outside the tests, and the properties that
need it exempt them by name.  `Exit` ends the process, in order or in a crash, and
`Start` begins the next one with any key: `LoadFromDB` skips the rows of another
key, and of the others it may leave out any: the SELECT fails, the loop over the
rows ends early without `rows.Err()`, or a Scan fails (`mapping.go:76-101`), and
nobody is told.  `unseen` is what it has left out and not written since.
`session` counts processes.  The label of a type is a function of the type, so two types
may share one, as they do in the code; the properties that need distinct labels
say so.

**RedactSession** composes two or more conversations with the store.  A
conversation is a program counter, the matches still to be replaced, the message
it sent and the reply.  A match is not its value: of a pattern with a capturing
group the scan reports the group and takes a second match with the same group for
a repetition (`secret.go:169-180`), whatever the rest of it says.  A step is one
`GetOrCreate`, so a second agent or a restart comes in between.

**OverlapDedup, RedactCuts.**  Findings are offset, length and risk, plus the
numbers of characters the capturing group leaves out before and after it; the
group may be empty (`secret.go:65`).  A cut replaces a span of
the *original* offsets in the *current* text, and a piece of text remembers the
characters it stands for, so that a wrong offset is seen.

**DetectorScan.**  A text is a sequence of atoms; a pattern is the finite set of
words it matches with its capture and filters.  `ScanPattern` is one round of a Scan
loop, with the `seen` map written where the code writes it, `MaskNext` one round
of MaskString's.  Atoms never contain the star that masks.

**ConnRegistry, ServiceLifecycle.**  A connection is an index into `handles`, so
that a call can hold one that has been closed.  `adding` holds the services
whose Add waits for a ping under the mutex; everyone who wants the same registry
waits for it.  A registry's `CloseAll` is one step.  The reload goroutine, the OnStop hook, the timer of
the stop and the calls are separate actors.  `UseConnection` stands for the
handlers whose context has a deadline: db_query, mongo_find and redis_exec.

**ConnectionLives** is what of all this a tool call sees: a service has no
connection, an open one, or a closed one, in this order; a registry is closed as
a whole; a call works with the connection of the service it has asked for.
`ServicesHaveOneLife` maps a service to the state of its registered connection
(`LifeOf`) and a call that holds a handle to the handle's service (`WorkOf`).
That the middle state is not come back to is the other side of what
`service_reload` finds.

**Configuration, SqlDrivers.**  A variable of the environment is its words
between the underscores, so that where a name ends is as undecided as it is in
the code: `ZARA_API_A_AUTH_URL` is the URL of an API `A_AUTH`, and looks as if an
API `A` had an AUTH.  `strings.Index` looks for a setting in the middle of a word,
too: `Longer` gives the words that begin with another one, as URLS with URL.
`CollectNames` and `Found` decide as `collectNames` and the parse functions do.  `Written` is the other direction, from a declaration
to the variables that the documentation says to set.  The driver a connection
is opened with and the dialect it is inspected in are looked up in two tables,
at two times.  `DescribeTable` reads a column as each of the six dialects does, as
the set of what may come of it: ClickHouse refuses (its query names a column that
`system.columns` has not), Oracle may refuse or leave out a column whose default it
cannot scan, and takes an empty default for none.

**ResultSet.**  A call goes from `new` over `waiting` (for a connection) and
`running` (for an answer) to `reading` and `done`.  SQL calls hold one of
`maxOpen` connections while their result set is open; MongoDB keeps a cursor.
`Leave` is every return after the deferred `rows.Close`.  The dialects'
`describe` functions are one loop that skips rows it cannot scan, as ListTables
and Find do; Query gives up.  Only the schema calls ask `rows.Err()`.

**Documents.**  A document or a reply is the set of its leaves with their paths.
A value may be sensitive and so may a key; keys are not masked by the code, and
the properties checked are about values.
`FlattenDoc` and `MaskResult` have several outcomes where two leaves compete for
one name, because Go ranges over maps in any order.

**Quota, AIRouter.**  A client goes through the loops of `ChatWithFallback`
step by step; every access to shared state is a step of its own.  The providers
map has no lock: an access during another's write is undefined in Go, and the
model lets the process abort there as well as go on.

**AIFormats.**  What the router does to a conversation before it sends it -
`CompressToolResults` removes empty lines and spaces at the end of lines from
system and tool messages and cuts long lines - then roles and order of messages
in the three formats, and which part of an answer is read.  A role is any text, as
in the code; the conversations of the run have five.  The format follows the host, the endpoint and the
authorization follow the provider's name, as in the code.

**ChatStream.**  The provider is an actor that appends lines to a wire, falls
silent or breaks off; time is a counter up to the deadline.  A part is a text or
half a placeholder.

**ApiRequests, HttpProxy.**  `FirstHeaders` and `RetryHeaders` are the two places
where the code puts headers together; a header is known by where it comes from.
The API's server applies and answers an attempt in steps of its own, also after
the client has given up on it.  `now` counts from the start of the attempt that
the client's own timeout limits; the request's deadline is part of the request.

**InputGates, ToolHandlers.**  A query is a sequence of tokens - quotes,
semicolons, marks of comments, blanks, words - and the functions of `security.go`
are operators on it: a comment becomes a space, wherever it stands; a Mongo filter
is the set of its paths.  A
handler is the sequence of its steps, any of which may be the last.

**Admission, ToolServer.**  A call's `stage` is where it is in the chain of
middlewares; the order of stages is the order of `server.go:38-43`.  Inside
`handling`, `step` is where it is in its handler; `ran` is how a service has run
it.  A panic leaves the handler by mcp-go's recovery, which is outermost;
deferred calls run.

**Compression.**  A line is its indent, the mark of a comment it begins with, and
its words.

## Runs

Bounds are named in the modules that use them and set in the `.cfg` files.

| run | what it asks | bounds, and why they are enough |
|---|---|---|
| `store` | type; the rows a process has loaded or written are known to it; only a value whose row could not be loaded gets a second; fresh values resolve to themselves; issued placeholders keep their meaning; the first process implements PlaceholderVault | 2 values, 2 types, 2 keys, 2 numbers per type, 3 process starts, each of which loads any part of the table: reuse of a placeholder takes 2 values and 2 starts, a changed key and back takes 3 starts |
| `redact_cuts` | kept findings are disjoint; a finding gives way only to one as risky; every cut is made in its place and can be undone, but for what the group leaves out | texts of 4 characters, 3 findings of 3 risks: a chain of three overlaps needs 3 findings; up to one character left out at either end |
| `redact_session` | a round trip within the first process gives the original; placeholders name values; after a restart a value is restored wrong only where its placeholder was issued anew | 2 agents, 3 texts sharing values, two matches with one captured value, 1 restart that loads any part of the table |
| `redact_restart` | (violated) a restored text has only values of its own message | 2 agents, texts of one value, 1 restart |
| `detector_scan` | a value is decided where it is first met; masking changes only values, and each of them | all texts of up to 4 atoms, 3 secret and 2 PII patterns, 4 locale filters |
| `service_lifecycle` | no open SQL or MongoDB connection is outside the registry; after a reload or a stop the old connections are closed; signals are served and calls answered if pings return; the process stops even if a SQL ping does not; what start-up reads is what was written down; a connection is inspected in its own dialect, and what is told of a column is so | every set of eight services of five kinds, written with the least and with all settings, the names sharing words, and beginnings of words, with each other and with settings; every alias of a driver, unknown ones, every form of DSN; a SQL and a Redis service, 2 SIGHUPs, 1 call: a signal during a reload takes 2. MongoDB closes a connection that failed as SQL does, and its ping has a deadline as Redis' has, so it adds no case |
| `service_reload` | (violated) after a reload the registered connections are open | 3 services, 2 SIGHUPs, 1 call |
| `result_set` | connections return to the pool on every way out; the values in results of MongoDB and Redis are masked and the report names which were; a Query drops no row; calls with a deadline return although one without may keep the connection | 4 calls of the 4 kinds for 1 connection, 2 rows; documents with a key, the same nested, the two with a dot in one, a sensitive key, arrays, and documents in arrays |
| `ai_router` | the quotas count no more than was spent and fits, the statistics have every request once; the fallback order; every turn of a conversation arrives in each format, and every line with a text of what is compressed; every chat returns | 3 providers, one of them unknown, 2 accounts, 2 concurrent chats, 2 attempts, a limit of 3 and responses of 2 or 3 tokens: exhausted after one, or exceeded by two that passed the check together; conversations of up to 3 messages in 5 roles, of a word or of lines long, empty and with spaces at the end |
| `chat_stream` | what is accumulated is a prefix of what was sent; whole placeholders are restored; the call returns | 3 lines: the two halves of a placeholder and one before, between or after; a deadline of 3 units |
| `http_proxy` | a request is repeated only after a failure, with the headers and credentials of the first; Do returns and has closed every body | the code's 3 attempts, client timeout 2, request timeouts up to 5: shorter and longer than the client's; an API without credentials for all of these, each kind of credentials, with headers of the call's in their way, for one timeout |
| `tool_server` | slots; the rate limit implements Admission; if look-ups return, every call of a tool with a deadline is answered; nothing runs that its gate does not accept; a query runs as what the gate took it for; a query without comments is one statement; compression keeps what is relevant | 3 calls, 2 slots: two inside, one refused or one that comes back to a free slot; a read with a semicolon in a string, two statements with an escaped quote in a string, a request with a check, one that may never end; texts of up to 5 lines |

What the gates decide depends on the query alone, and of it `tool_server` has
two.  `ToolGates.cfg` asks `RunAsJudged` and `OneStatementIsRun` of one call with
some 7700 queries, filters and commands: all queries of up to 4 words, blanks,
marks and semicolons, and reads with up to 7 quotes, semicolons and words, so
that escaped quotes follow each other.  It passes; for queries of any length
both are proved.

The runs switch off TLC's deadlock check where the system stops: all calls are
answered, the process has ended, or a bound is reached.  `http_proxy` keeps it.
Every module with variables, but for the three abstract ones, states its type invariant.  `store` checks the store's, which
also says that a mapping is filed under its own placeholder.  The others hold when added to
the `.cfg` of their run, and every one is proved.  Every property of a passing run has a
mutation of the model, next to the definition it changes, that makes TLC find it
violated: a dropped guard, a missing give-back, an off-by-one of a kind that
code could have.  `OldConnectionsAreClosed` and `RepeatsAreFaithful`, which join
two statements, have one for each.

## Where the code and its words disagree

A comment, a document or a tool's description promises each of the following,
and the code does otherwise.  `redact_restart` and `service_reload` are runs that
end in the counterexample; `PROJECT.json` quotes the lines.

| run and property | what happens |
|---|---|
| `redact_restart`, `NothingForeignIsRestored` | Counters start again with the process, so an old message is restored with another value. |
| `service_reload`, `ServicesReconnected` | CloseAll leaves closed connections in the map, every Add then refuses: after a reload all connections are closed ones. |

The others are stated at the end of their modules and belong to no run.  To see
a trace, add the property to the `.cfg` named: the invariants under
`INVARIANTS`, those marked * under `PROPERTIES`.

| property | add it to | what happens |
|---|---|---|
| `AnswersAreForTheValue` | `MappingStore.cfg`, with `LabelOf <- SharedLabelOf` | Types with one label (the three phone types) count separately, so the second type's `[PHONE_1]` replaces the first's. |
| `RestoredNeverReassigned` * | `MappingStore.cfg` | A restored snapshot leaves the counters behind: the next placeholder created is one of the restored. |
| `EveryFindingIsReplaced` | `RedactCuts.cfg` | A riskier finding replaces the one it overlaps; what only that one covered stays in the text. |
| `UnredactRestores` | `RedactCuts.cfg` | For a pattern with a capturing group the match is cut out but only the group is stored, and restoring loses the rest. |
| `NothingSensitiveIsSent` | `RedactSession.cfg` | A value that occurs twice is reported, and replaced, once; and so are two secrets whose matches have the same captured group. |
| `NoValueIsLeft` | `DetectorScan.cfg` | The same for masking. |
| `AllDetectorsAreRun` | `DetectorScan.cfg` | A value one pattern rejects is marked as seen and not offered to later patterns. |
| `EveryNameIsRead` + | `ServiceLifecycle.cfg` | A name with a required setting, or HEADER, in it is cut there, in the middle of a word too (`SHORT_URLS`): the service is not found, or another one gets its settings. |
| `PoolIsAsConfigured` + | `ServiceLifecycle.cfg` | `module.go:82-90` does not pass on the lifetime and the idle time that `config.go:184` documents. |
| `EveryConnectionIsInspected` + | `ServiceLifecycle.cfg` | `microsoft`, a name with capitals and a driver found from the DSN open a connection that is then asked in PostgreSQL's dialect. ClickHouse's query names a column its table has not; Oracle's default is a LONG that may not be scanned, and then the column is left out. |
| `DBsClosedBeforeStore` | `ServiceLifecycle.cfg` | OnStop closes the store before the databases. |
| `ResultIsWhole` | `ResultSet.cfg` | Query and Find do not ask why their loop ended: part of a result is returned as the result. |
| `SchemaCallsReturn` * | `ResultSet.cfg` | ListTables and DescribeTable have no deadline. |
| `ItemsAreMasked` | `ResultSet.cfg` | Strings in arrays of a document are not masked. |
| `ResultKeysAreMasked` | `ResultSet.cfg` | Field names of documents and keys of Redis maps are returned as they are (`redis.go:203-205`), also within a column's name. |
| `ReportedIsMasked` | `ResultSet.cfg` | Two fields with one full name: one stands, and the other may be what the report is about. |
| `PickedAccountIsUsed` * | `AIRouter.cfg` | Two chats register their accounts under one name; one goes out with the other's. |
| `BudgetIsKept` | `AIRouter.cfg`, with `Clients = {c1}`, `Costs = {2}`, `MaxCalls = 4`, `MaxSpent = 9` | Tokens that exceed what is left of the quota are not counted at all, so the quota is never used up. |
| `EverySystemMessageArrives` | `AIRouter.cfg` | Of several system messages Anthropic gets the last. |
| `EveryRoleIsKnown` | `AIRouter.cfg` | A role that is none of the three is passed on: Gemini and Anthropic know no `tool`. |
| `CompressionIsLossless` | `AIRouter.cfg` | What `quota.go:116` calls lossless cuts the middle out of long lines. |
| `EndpointsSpeakTheFormat` | `AIRouter.cfg` | Body by host, endpoint by name: a provider with its own name for a known API gets a body of one and a path of another. |
| `AnswersAreFound` | `AIRouter.cfg` | Only the first part of an answer is read: if it has no text, the answer is empty. |
| `AnswerIsFull` | `ChatStream.cfg` | A stream that breaks off, or holds a line longer than the scanner's buffer, is returned as the complete answer. |
| `StallIsDetected` | `ChatStream.cfg` | There is no timeout between two events. |
| `LastResponseIsUsed` | `HttpProxy.cfg` | The body of the last server error is closed before it is read. |
| `RetriedAsSent` | `HttpProxy.cfg` | A repeated request gets `application/json` in place of the caller's Content-Type. |
| `CredentialsAreSent` | `HttpProxy.cfg` | `header` authorization (`README.md:203`) looks for a variable called as all of AUTH_ENV, and for a colon in that name: nothing is sent. |
| `TimeoutIsHonoured` * | `HttpProxy.cfg` | The client's 30 s end an attempt before the longer timeout a caller may ask for. |
| `EveryCallIsObserved` | `ToolServer.cfg` | Refused calls, and calls that panic, send no telemetry. |
| `BlockedIsAudited` | `ToolServer.cfg` | What the HTTP proxy blocks is not in the audit log. |
| `ReadsReturnRows` | `ToolGates.cfg`, with `Requests <- Commented` | A SELECT behind a comment passes the gate as a read and is run as Exec: no rows come back. |
| `EveryCallIsAnswered` * | `ToolServer.cfg` | db_list_tables, db_describe and mongo_list_collections have no deadline. |
| `OnlyConsecutiveAreDropped` | `ToolServer.cfg` | `compressor.go:22` says consecutive duplicates; all repetitions go. |

Those marked + depend on no variable: TLC says that they are FALSE, without a
trace.  Three more disagreements are not stated as properties: `security.go:85`
means to reject multiple statements, and the count is of a text from which
comments were taken without regard to strings, so that a mark of a comment in a
string hides what follows it (`OneStatementIsRun` is about queries without
marks); the repository's
`README.md:191` says that a missing driver is detected from the DSN, and
`config.go:193` makes it `postgres` before anyone could; config_list answers
"connected" for every database in the configuration (`handlers.go:573-578`),
whether or not it is.

The passing runs state what does hold next to these: `redact_session` restores
every message of the first process that is answered in it, and says of the
others that only a placeholder issued anew is restored with another value
(`OnlyReissuedAreMisread`).
`CallsAreAnswered` of ServiceLifecycle has the hypothesis `PingsReturn` because a
SQL ping without a deadline, under the registry's mutex, makes every call that
wants a SQL connection wait; `CallsAreAnswered` of ToolServer has
`LookupsReturn` for the same reason.

## Fairness

The specifications assume of each actor what the code arranges; where it arranges
too little, a property has a named hypothesis in front.

- *ServiceLifecycle*: weak fairness of the goroutines and of fx's stop timer
  (the stop context ends on its own); of the pings that have a
  deadline: MongoDB's has one in Add, Redis' in its client's options.
  `sql.DB.Ping` takes no context, so that it returns is a hypothesis
  (`PingsReturn`) of `SignalsAreServed` and `CallsAreAnswered`; `StopEnds` does
  without it.
- *ResultSet*: a call begins, takes a connection when one is free, and its
  deadline passes.  The server owes nothing.
- *AIRouter*: each caller takes its next step; a request ends, since the HTTP
  client has a timeout of 120 s.
- *ChatStream*: the client reads what is there and time passes.  The provider
  owes nothing.
- *HttpProxy*: the client and time.  The server owes neither an answer nor the
  end of a body.
- *ToolServer*: the steps of a call, and the return of a service that was called
  with a deadline.  db_list_tables, db_describe and mongo_list_collections pass
  the request's own context on (`handlers.go:213-262`, `:306-327`), so nothing is
  assumed of them: `CallsAreAnswered` is about the other calls, while these may
  keep their slots for ever.  Telemetry owes nothing, and neither does a look-up:
  Get waits for a mutex that an Add holds over its ping, and the deadline of
  db_query starts only after it (`handlers.go:184-196`).  `LookupsReturn` is a
  hypothesis of `CallsAreAnswered`.

No fairness is strong: no goroutine competes for a lock with one that never
lets go, but for the SQL ping, of which nothing is assumed.  The pool of
ResultSet serves waiting calls in any order; that they return rests on their
deadlines.

## Proofs

TLC checks small instances; these hold for every value of the constants.

**RedactSessionProofs**, for any values, types, labels, keys, texts and agents.

*The store.*  None of its properties is inductive by itself.  `IInv` adds to the
type: the reverse index only names placeholders in the map; the rows that were
loaded or written are in the maps, whatever part of the table a load came to; and,
under distinct labels, what a process issued has a number at most the type's
counter, so that the next create is fresh, and an indexed value keeps the
placeholder it was loaded with until that is issued again.  From it: `TypeCorrect`,
`HitsAlwaysFind`, `RowsAreKnown`, `RowsAreDoubledUnseen` (an action property: a
second row comes of an incomplete load and of nothing else), and, with distinct
labels, `FreshKeepResolving`, `IssuedIsStable` (an action property) and `StoreIsAVault`,
the refinement of PlaceholderVault by the first process on a new table.
`AnswersAreRight` states `AnswersAreForTheValue` under the two conditions its
counterexamples break: distinct labels, and no earlier process.

*The conversations.*  Every step of a conversation is a step of the store or
leaves it alone (`ConversationsUseTheStore`), so `IInv` holds under them.
`SessionInv` then says of a message under way that what is not replaced yet is
exactly what the loop has not reached, and of the first process that each
placeholder in a message resolves to the value of its place.  That is why a
reply is the text again, although any number of other agents stored in between
(`RepliesRoundTrip`), and why one placeholder is one value in all messages
(`MessagesNameValues`); both are about messages written and read in the first
process.  For a process after a restart, `LaterInv` follows a message's
placeholder from the row it was loaded from: it means what it meant until this
process issues it for something else (`MisreadsAreReissued`).

**OverlapDedupProofs**, for texts and lists of any size.  The argument is one
idea: the findings arrive sorted by position, so a finding that overlaps a kept
one overlaps the last, and a winner starts no earlier than the loser.
Hence the kept findings are in text order and disjoint
(`KeptFindingsAreDisjoint`), and a finding gives way only to one as risky
(`RiskierFindingsWin`).  The cuts go from the last finding to the first; their
invariant is that up to the end of every finding that remains, the text is
still character for character the original, so offsets of the original are right
there, and that the pieces stand for all characters, once and in order
(`CutsAreAlwaysReversible`).  The part of the invariant about the pieces compares
them two by two, instead of joining them, which is why a cut need only be looked
at where it is made.

**ServiceLifecycleProofs**, for any services, calls, signals and registries.
`OldConnectionsAreClosed` is about the end of loops that others interrupt.
`LifeInv` says it of every prefix: in the registries a reload or a stop has
passed, what is registered is closed or was opened after the loop began - true
because an Add only registers new handles and nothing reopens one.  With it
`NoConnectionIsLeaked`: every open handle that can be closed is registered.
`ServicesLiveOnce` is the refinement of ConnectionLives: an Add is `Connect`
because a registered name is refused, closed or not, and a CloseAll closes what
the mapping shows as open in its registry and nothing else.  No run repeats it;
TLC finds no error in `ServicesHaveOneLife` when it is added to
`ServiceLifecycle.cfg`.

*Inspection.*  `EveryDialectFits` goes through the tables of drivers and dialects
once: no text is an alias of two, and the dialects know each alias but one.  What
is told of a column is a set of outcomes; the theorem is about every one of them
that is no refusal and leaves the column in (`EntriesRead`).

*Configuration*, for any services, names over any words, settings and headers.
`WrittenIsRead` says that an unambiguous declaration is read back: one none of whose
names holds a required setting, nor a word that begins with one.  Two facts
about the tables carry it: the last word of a required setting is that of no
other setting, so a variable that ends like one is one, and has one owner; and no
setting holds HEADER, so a header's variable is no setting's.  A name is then
taken out of a variable where the setting's words first stand, which is behind
the name exactly because the name is unambiguous.  `DocumentationIsFollowed` is
the run's `ReadAsWritten`.

**ResultSetProofs**, for any finite set of calls, size of the pool and number of
rows.  What a call has open follows from its stage, and the free connections are
counted by what is open (`PoolKeepsItsConnections`).  For the rows the invariant
drops "when the call is done": a Query that has not failed has kept every row so
far (`QueryKeepsRows`), and the indices reported are those of masked rows
(`ReportIsAboutTheResult`).

*Detectors and masking*, for all texts and patterns.  What a Scan loop has seen
before its n-th pattern are the values the earlier patterns have met, and what it
has reported are the first meetings whose pattern accepts (`ReportsAreDecided`).
A match is the longest at the leftmost place, so the loop over the matches of
one pattern is unrolled along its hits.  Masking works on a text that is masked
already: the invariant is that each character is the text's or the star, that
only parts of reported values are stars, and that each finding passed has lost an
occurrence - which no later finding gives back.  At the end `MaskingIsAlwaysExact`.

*Documents and replies*, for any leaves, paths and keys: in every order in which
Go may range over the maps, a cell holds what some leaf of its name was masked
to (`DocumentsAlwaysMasked`, `RepliesAlwaysMasked`).  Keys stay as they are, and
the theorems say so.

**AIRouterProofs**, for any chats, providers, pools, limits and lists of
fallbacks.  `FallbackInOrder` is about providers passed and not reached; the
invariant adds the one a chat is at, where the number of requests is the number
of failed attempts, and one more while an answer is to come or to be recorded.
The statistics are right up to the chats whose request is not counted yet, and
these come and go one at a time (`RequestsAndTokensAreCounted`).
`FormatsCarryConversations` is for conversations of any length, in any roles and
of any lines: what the formats leave out of the messages, and the compression out of
the lines, is a set of places, and the others come in their order.

**ChatStreamProofs**, for streams of any length.  While the client reads, what it
has and what is on the wire are what was sent; when it has stopped, a prefix
remains (`ContentIsAlwaysPrefix`).  Restoring is a fold over the parts:
`NoPlaceholderIsEverLeft` says of every prefix of the fold that no whole
placeholder is in it, whether or not it ends in the first half of one.
The type invariant (`StreamTypeCorrect`) adds that the wire is always the end of
what was sent.

**HttpProxyProofs**, for any requests, attempts and timeouts.  `ProxyInv` knows
of the attempts before the current one that they failed, and of the current one
what the step that Do is at has heard of it; the headers on record are the first
ones or those of a retry, which agree but for the content type
(`RepeatsAlwaysFaithful`).  A body is open only while it is read
(`BodiesAreClosed`): it is the half of `DoReturns` that says no connection is kept.

**ToolServerProofs**, for any number of calls, slots and requests.  `sem` is a
natural number only because whoever gives a token back holds one: type and
`SlotsAreHeld` are proved together (`NoSlotIsLost`).  That a service only runs
what a gate accepts (`NothingUnacceptedRuns`) needs to know, at the step that
works, that the gate was passed on the way there: `HandlerInv` says that a call
beyond a step with a gate or a check has an accepted request, and that no call
is beyond the steps of its handler.  The lemmas before it look at the 22 step
sequences once; the proof itself does not.  `TelemetryIsOnce` follows the stages
of a call.  `LimitsHold` maps each step to a step of Admission or to a stutter.

*Queries*, of any length.  The gate looks at a query without its comments, the
database at the query as it came.  If it does not begin with a comment, the first
word that stays is the first word of both (`QueriesRunAsJudged`).  The state of
`CountBareStatements`' loop at a place is the parity of the quotes up to it, with
escaped quotes looking like the end of one literal and the start of the next
(`StatementsCountedForAll`); where there are no comments the gate counts in the
query as it came, so what is run is one statement (`OneStatementAlways`).

*Compression*, of texts of any length.  What a pass leaves is embedded in what it
was given: it has an increasing map to the places that stay, and two embeddings
are one.  So relevant lines are there, once and in order
(`CompressionKeepsRelevant`).  A text without comments and repetitions is left as
it is by the first two passes; and the third, given what it left, keeps all of
it, because lines that were near a keyword are still as near
(`CompressionIsStable`).

Where the property a run checks is about a function over a bounded set of inputs
(`ReadAsWritten`, `ResultsAreMasked`, `ConversationsArrive`,
`InspectionFitsTheDriver`, `RelevantLinesAreKept`), the
theorem that states it is a corollary of one without the bound.

**What liveness rests on.**  That something happens in the end follows from
fairness and from three facts that are not temporal: in every state something
that is owed may happen, whatever happens brings the end closer, and there is a
number that says how close it is.  Where the code promises an end, these are
proved; what is left to TLC is to put them together.

- `DoComesToAnEnd`: until it has returned, Do or its clock may act (`ClientMay`,
  `ReadMay`, `TickMay` are the guards of what is owed, each enabled exactly when
  its action is, as TLC confirms on the instance of `http_proxy`).  `StepsLeft`
  counts two steps for an attempt and one for each unit of the timeout, and every
  step lowers it but those of the server.
- `ChatsComeToAnEnd`: a chat's rank is the providers ahead and then the steps at
  the one it has reached; each of its steps lowers it, in this order.
- `CallsComeToAnEnd`: a call that holds a slot has a step that looks at nobody, or
  waits for a registry's mutex, or is with its service, and it is at most eight
  steps from its answer.
- `NoSignalIsForgotten`: a signal is in the channel until a reload begins after
  it.

The calls of ResultSet and the streams of ChatStream are not among these: what
bounds their steps, the rows and the lines a server sends, is a bound of the
model and not of the code.

Assumptions on constants are named in the modules that declare them and hold in
every run, where TLC evaluates them.  What a proof needs beyond them (distinct
labels) is a hypothesis of its theorem.

Several arguments run along a sequence.  They are made by a least counterexample
(every set of numbers that is not empty has a least member), as the library's
induction theorems cannot be used with the provers at hand; a fold or a recursive
function is first shown to exist, and then to be unique.

Only model-checked: the liveness properties themselves (`SignalsAreServed`,
`StopEnds`, `CallsAreAnswered` of two modules, `BoundedCallsReturn`,
`CallsReturn`, `StreamReturns`, `DoReturns`).  They rest on fairness, and so on
ENABLED, which is out of the prover's reach.  The properties of the two runs that
end in a counterexample have no theorem, of course.

## What is not modelled

- Texts.  A pattern of a detector is a finite set of words, a query a sequence of
  tokens, a variable of the environment a sequence of words, an address the range
  it is in.  The regular expressions, the parsers of URLs and of JSON, `strconv`
  and the comparison of cases are taken for what they are meant to be.
- The JSON of requests and answers; the values a SQL result holds; the models and
  prices of providers.
- Encryption: a row can be read with the key it was written with.  `cipher.go`
  calls AES-GCM and SHA-256 and keeps nothing; a model of it would say what the
  libraries promise.
- The classifier: the first of two thresholds and five lists of words that
  applies.  Every branch is one test; there is nothing for a model checker
  between them.
- The token bucket `SetLimit`, the tiered fallback chain, the presets of free
  providers and the TF-IDF extractor: nothing in the running server calls them.
  The quotas' limits are constants therefore.
- The interfaces under `domain/`, which nothing imports, and the version strings.
- Two types of detection with one label (the phone numbers of three countries):
  the runs of the store give each type its own, since the store breaks its
  promise otherwise (`AnswersAreForTheValue`, above).
- Code under `scripts/`, `test/` and in examples.
- Libraries: mcp-go, fx, database/sql, the drivers, net/http are modelled by how
  the code uses them.

## Plan

The modules were written in the order of their importance to what the program is
for - store, redaction, detection; the life of connections; what leaves the
process; the server around it all - and then the functions that decide what
these do: configuration, drivers, gates, documents, formats, compression,
headers.  What is left:

1. *Abstract specifications.*  What a retrying client promises (at most n
   attempts, each after a failure) with HttpProxy and AIRouter as two
   implementations; today each has an invariant of its own that says so.
2. *Composition.*  A chat that is at once a call of ToolServer, a conversation of
   RedactSession and a stream of ChatStream.
