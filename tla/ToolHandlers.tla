---------------------------- MODULE ToolHandlers ----------------------------
(***************************************************************************)
(* application/tools/handlers.go: a handler as the sequence of the steps   *)
(* it takes.  Any of them may be its last:                                 *)
(*   "args"   the required arguments are read, or one is missing;          *)
(*   "gate"   InputGates lets the request through, or it is blocked and    *)
(*            the audit log says so;                                       *)
(*   "get"    the connection is looked up by name, or is unknown;          *)
(*   "check"  a check of the HTTP proxy, which nothing logs;               *)
(*   "work"   the engine, a registry or a service does what was asked.     *)
(* A request is the name of a tool and the input its gate looks at.        *)
(***************************************************************************)
EXTENDS InputGates

ScanContext == <<"args", "work">>
RedactContext == <<"args", "work">>
UnredactResponse == <<"args", "work">>
CompressContext == <<"args", "work">>
MemoryFilter == <<"args", "work">>
ClassifyData == <<"args", "work">>
StoreStats == <<"work">>

DBQuery == <<"args", "gate", "get", "work">>
DBListTables == <<"args", "get", "work">>
DBDescribe == <<"args", "get", "work">>

\* An unknown database is reported before the filter is looked at.
MongoFind == <<"args", "get", "gate", "work">>
MongoListCollections == <<"args", "get", "work">>

RedisExec == <<"args", "gate", "get", "work">>
RedisKeys == <<"args", "get", "work">>

HTTPRequest == <<"args", "check", "work">>
HTTPListAPIs == <<"work">>

AIChat == <<"args", "work">>
AIChatStream == <<"args", "work">>
AIListProviders == <<"work">>
AIQuotaStatus == <<"work">>

ConfigList == <<"work">>
Version == <<"work">>

StepsOf ==
  [scan_context |-> ScanContext, redact_context |-> RedactContext,
   unredact_response |-> UnredactResponse, compress_context |-> CompressContext,
   memory_filter |-> MemoryFilter, classify_data |-> ClassifyData,
   store_stats |-> StoreStats,
   db_query |-> DBQuery, db_list_tables |-> DBListTables, db_describe |-> DBDescribe,
   mongo_find |-> MongoFind, mongo_list_collections |-> MongoListCollections,
   redis_exec |-> RedisExec, redis_keys |-> RedisKeys,
   http_request |-> HTTPRequest, http_list_apis |-> HTTPListAPIs,
   ai_chat |-> AIChat, ai_chat_stream |-> AIChatStream,
   ai_list_providers |-> AIListProviders, ai_quota_status |-> AIQuotaStatus,
   config_list |-> ConfigList, version |-> Version]

Tools == DOMAIN StepsOf

\* The tools whose call of a service has no deadline.
Unbounded == {"db_list_tables", "db_describe", "mongo_list_collections"}

Accepts(r) ==
  CASE r.tool = "db_query"     -> ValidateSQL(r.input)
    [] r.tool = "mongo_find"   -> ValidateMongoFilter(r.input)
    [] r.tool = "redis_exec"   -> ValidateRedisCommand(r.input)
    [] r.tool = "http_request" -> r.input # "private"
    [] OTHER                   -> TRUE

\* Mutant: the query is not trimmed before it is told which kind it is.
RunAsUntrimmed(r) ==
  IF r.tool # "db_query" THEN "call" ELSE IF IsReadQuery(r.input) THEN "query" ELSE "exec"

\* A database runs a query as Query or as Exec, by the text as it came.
RunAs(r) ==
  IF r.tool # "db_query" THEN "call"
  ELSE IF IsReadQuery(TrimSpace(r.input)) THEN "query" ELSE "exec"
=============================================================================
