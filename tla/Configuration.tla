---------------------------- MODULE Configuration ----------------------------
(***************************************************************************)
(* config/config.go: how the services are read from the environment, and   *)
(* what bootstrap/module.go hands on to the registries.                    *)
(*                                                                         *)
(* ZARA_<kind>_<name>_<setting> does not say where the name ends, and a    *)
(* name may hold underscores too.  A variable is <<kind, path>>, the path  *)
(* being the words between the underscores after the prefix; a name and a  *)
(* setting are such sequences.  A setting is looked for as a part of the   *)
(* text, so its last word is also met in a longer word that begins with it *)
(* (_URL in SHORT_URLS); a match in the text after "=" gives a name for    *)
(* which no variable can be set.                                           *)
(*                                                                         *)
(* An environment is a function from variables to texts; the values of the *)
(* two comma-separated settings are sequences of texts.  URLs are taken    *)
(* without trailing slashes.                                               *)
(***************************************************************************)
EXTENDS Integers, Sequences, SequencesExt

CONSTANT
  Longer  \* pairs of words, the second one the first with more after it

Kinds == {"DB", "MONGO", "REDIS", "API", "AI"}

Settings ==
  [DB    |-> {<<"DRIVER">>, <<"DSN">>, <<"MAX", "CONNS">>, <<"MAX", "IDLE", "CONNS">>,
              <<"CONN", "MAX", "LIFETIME">>, <<"CONN", "MAX", "IDLE", "TIME">>},
   MONGO |-> {<<"URI">>, <<"DATABASE">>},
   REDIS |-> {<<"ADDR">>, <<"USERNAME">>, <<"PASSWORD">>, <<"DB">>, <<"TLS">>,
              <<"POOL", "SIZE">>, <<"MIN", "IDLE", "CONNS">>,
              <<"CONN", "MAX", "IDLE", "TIME">>},
   API   |-> {<<"URL">>, <<"AUTH">>, <<"AUTH", "ENV">>},
   AI    |-> {<<"BASE", "URL">>, <<"API", "KEY", "ENV">>, <<"MODELS">>}]

\* The settings without which a service is passed over.
Required ==
  [DB |-> {<<"DSN">>}, MONGO |-> {<<"URI">>, <<"DATABASE">>}, REDIS |-> {<<"ADDR">>},
   API |-> {<<"URL">>}, AI |-> {<<"BASE", "URL">>}]

SettingWords ==
  UNION {{s[i] : i \in DOMAIN s} : s \in UNION {Settings[k] : k \in Kinds}}

\* No word of a setting is the beginning of another.
ASSUME LongerAssumption == Longer \cap (SettingWords \X SettingWords) = {}

-----------------------------------------------------------------------------
\* The texts that strconv.Atoi and strconv.ParseBool accept.
Number == [t \in {"0", "5", "80", "8530", "70000"} |->
             CASE t = "0" -> 0 [] t = "5" -> 5 [] t = "80" -> 80
               [] t = "8530" -> 8530 [] t = "70000" -> 70000]
Truth == [t \in {"true", "false", "0"} |-> t = "true"]

\* An empty variable counts as one that is not set.
GetEnv(env, v, fallback) ==
  IF v \in DOMAIN env /\ env[v] # "" THEN env[v] ELSE fallback

\* A text that is no number is passed over in silence.
GetEnvInt(env, v, fallback) ==
  LET t == GetEnv(env, v, "") IN IF t \in DOMAIN Number THEN Number[t] ELSE fallback

GetEnvBool(env, v, fallback) ==
  LET t == GetEnv(env, v, "") IN IF t \in DOMAIN Truth THEN Truth[t] ELSE fallback

\* A comma-separated value: its members without the empty ones.
GetEnvList(env, v) ==
  IF v \in DOMAIN env THEN SelectSeq(env[v], LAMBDA t : t # "") ELSE <<>>

-----------------------------------------------------------------------------
Begins(w, word) == w = word \/ <<w, word>> \in Longer

\* "_" and the suffix are part of the text from the path's i-th word on: the
\* suffix ends in that word or within it.
OccursAt(suffix, path, i) ==
  /\ i + Len(suffix) - 1 <= Len(path)
  /\ \A j \in 1..Len(suffix) :
       IF j = Len(suffix) THEN Begins(suffix[j], path[i + j - 1])
                          ELSE suffix[j] = path[i + j - 1]

\* Where the suffix begins in a path, if it does, after at least one word.
Places(suffix, path) == {i \in 2..Len(path) : OccursAt(suffix, path, i)}

\* Mutant: the first setting that is met ends the search in a variable.
NamesInEarliest(k, path) ==
  LET At == UNION {Places(s, path) : s \in Settings[k]}
  IN  {SubSeq(path, 1, i - 1) : i \in {i \in At : \A j \in At : i <= j}}

\* strings.Index: the name ends where the suffix occurs first.
NamesIn(k, path) ==
  {SubSeq(path, 1, i - 1) : i \in
     {i \in 2..Len(path) : \E s \in Settings[k] :
        i \in Places(s, path) /\ \A j \in Places(s, path) : i <= j}}

CollectNames(env, k) == UNION {NamesIn(k, v[2]) : v \in {v \in DOMAIN env : v[1] = k}}

\* The names whose required settings are there.
Found(env, k) ==
  {n \in CollectNames(env, k) : \A s \in Required[k] : GetEnv(env, <<k, n \o s>>, "") # ""}

ParseDatabases(env) ==
  [n \in Found(env, "DB") |->
     LET Of(s) == <<"DB", n \o s>>
     IN  [driver      |-> GetEnv(env, Of(<<"DRIVER">>), "postgres"),
          dsn         |-> GetEnv(env, Of(<<"DSN">>), ""),
          maxConns    |-> GetEnvInt(env, Of(<<"MAX", "CONNS">>), 0),
          maxIdle     |-> GetEnvInt(env, Of(<<"MAX", "IDLE", "CONNS">>), 0),
          maxLifetime |-> GetEnvInt(env, Of(<<"CONN", "MAX", "LIFETIME">>), 0),
          maxIdleTime |-> GetEnvInt(env, Of(<<"CONN", "MAX", "IDLE", "TIME">>), 0)]]

ParseMongoDBs(env) ==
  [n \in Found(env, "MONGO") |->
     [uri |-> env[<<"MONGO", n \o <<"URI">>>>], database |-> env[<<"MONGO", n \o <<"DATABASE">>>>]]]

ParseRedisDBs(env) ==
  [n \in Found(env, "REDIS") |->
     LET Of(s) == <<"REDIS", n \o s>>
     IN  [addr        |-> GetEnv(env, Of(<<"ADDR">>), ""),
          username    |-> GetEnv(env, Of(<<"USERNAME">>), ""),
          password    |-> GetEnv(env, Of(<<"PASSWORD">>), ""),
          db          |-> GetEnvInt(env, Of(<<"DB">>), 0),
          tls         |-> GetEnv(env, Of(<<"TLS">>), "") = "true",
          poolSize    |-> GetEnvInt(env, Of(<<"POOL", "SIZE">>), 0),
          minIdle     |-> GetEnvInt(env, Of(<<"MIN", "IDLE", "CONNS">>), 0),
          maxIdleTime |-> GetEnvInt(env, Of(<<"CONN", "MAX", "IDLE", "TIME">>), 0)]]

\* Every variable that begins with the API's name and HEADER, also an empty
\* one, is a header of its requests.
Headers(env, n) ==
  {SubSeq(v[2], Len(n) + 2, Len(v[2])) : v \in
     {v \in DOMAIN env : /\ v[1] = "API"
                         /\ Len(v[2]) > Len(n) + 1
                         /\ IsPrefix(n \o <<"HEADER">>, v[2])}}

ParseAPIs(env) ==
  [n \in Found(env, "API") |->
     LET Of(s) == <<"API", n \o s>>
     IN  [baseURL  |-> GetEnv(env, Of(<<"URL">>), ""),
          authType |-> GetEnv(env, Of(<<"AUTH">>), "none"),
          authEnv  |-> GetEnv(env, Of(<<"AUTH", "ENV">>), ""),
          headers  |-> Headers(env, n)]]

\* The keys are the values of the variables that the setting names, without
\* those that are not set; <<"", <<w>>>> is the variable called w.
ParseAIProviders(env) ==
  [n \in Found(env, "AI") |->
     LET named == GetEnvList(env, <<"AI", n \o <<"API", "KEY", "ENV">>>>)
         KeyOf(w) == GetEnv(env, <<"", <<w>>>>, "")
         keys == [i \in DOMAIN SelectSeq(named, LAMBDA w : KeyOf(w) # "") |->
                    KeyOf(SelectSeq(named, LAMBDA w : KeyOf(w) # "")[i])]
     IN  [baseURL |-> GetEnv(env, <<"AI", n \o <<"BASE", "URL">>>>, ""),
          apiKey  |-> IF keys = <<>> THEN "" ELSE Head(keys),
          apiKeys |-> keys,
          models  |-> GetEnvList(env, <<"AI", n \o <<"MODELS">>>>)]]

\* Of the plain settings, those that other modules depend on.
Load(env) ==
  LET Of(a, b) == <<"", <<a, b>>>>
  IN  [transport |-> GetEnv(env, Of("MCP", "TRANSPORT"), "http"),
       port      |-> GetEnv(env, Of("MCP", "PORT"), "8530"),
       reload    |-> GetEnvBool(env, Of("RELOAD", "ENABLED"), TRUE),
       timeoutDB |-> GetEnvInt(env, Of("TIMEOUT", "DB"), 30),
       DB        |-> ParseDatabases(env),
       MONGO     |-> ParseMongoDBs(env),
       REDIS     |-> ParseRedisDBs(env),
       API       |-> ParseAPIs(env),
       AI        |-> ParseAIProviders(env)]

ValidPort(t) == t \in DOMAIN Number /\ Number[t] \in 1..65535

Validate(c) ==
  /\ c.port # "" => ValidPort(c.port)
  /\ \A n \in DOMAIN c.DB : c.DB[n].dsn # ""
  /\ \A n \in DOMAIN c.MONGO : c.MONGO[n].uri # "" /\ c.MONGO[n].database # ""
  /\ \A n \in DOMAIN c.REDIS : c.REDIS[n].addr # ""
  /\ \A n \in DOMAIN c.API : c.API[n].baseURL # ""
  /\ \A n \in DOMAIN c.AI : c.AI[n].baseURL # ""

-----------------------------------------------------------------------------
(***************************************************************************)
(* Writing a configuration down as its documentation says.  A declaration  *)
(* is a function from services, <<kind, name>>, to what is written of      *)
(* each: its settings, and the headers of an API.                          *)
(***************************************************************************)

Written(d) ==
  LET Vars == (UNION {{<<s[1], s[2] \o w>> : w \in d[s].settings} : s \in DOMAIN d})
              \cup UNION {{<<s[1], s[2] \o <<"HEADER">> \o h>> : h \in d[s].headers} :
                          s \in DOMAIN d}
      IsList(v) == v[1] = "AI" /\ Last(v[2]) \in {"ENV", "MODELS"}
  IN  [v \in Vars |-> IF IsList(v) THEN <<"w">> ELSE "5"]

\* No name holds, after its first word, a setting that is required of its kind,
\* also as the beginning of a longer word, and an API's name no HEADER; no
\* header ends in URL.
Unambiguous(d) ==
  \A s \in DOMAIN d :
    /\ \A w \in Required[s[1]] : Places(w, s[2]) = {}
    /\ s[1] = "API" => \A i \in 2..Len(s[2]) : s[2][i] # "HEADER"
    /\ \A h \in d[s].headers : Last(h) # "URL"

Reads(d) ==
  LET c == Load(Written(d))
  IN  /\ \A k \in Kinds : DOMAIN c[k] = {s[2] : s \in {s \in DOMAIN d : s[1] = k}}
      /\ \A s \in DOMAIN d : s[1] = "API" => c.API[s[2]].headers = d[s].headers
      /\ Validate(c)
=============================================================================
