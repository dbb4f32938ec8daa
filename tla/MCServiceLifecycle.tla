------------------------- MODULE MCServiceLifecycle -------------------------
(***************************************************************************)
(* Instances of ServiceLifecycle for TLC, and of what comes before it: the *)
(* services are read from an environment (Configuration), and the SQL ones *)
(* are opened with a driver (SqlDrivers).                                  *)
(***************************************************************************)
EXTENDS ServiceLifecycle, Configuration, SqlDrivers, FiniteSets, TLC

\* Services of the first declarations below, which Load reads as they are
\* written.
AllThree ==
  {<<"DB", <<"A", "DRIVER">>>>, <<"MONGO", <<"A", "DRIVER">>>>, <<"REDIS", <<"A", "DB">>>>}
NoMongo == {s \in AllThree : s[1] # "MONGO"}

KindOf ==
  [s \in Services |->
     CASE s[1] = "DB" -> "sql" [] s[1] = "MONGO" -> "mongo" [] s[1] = "REDIS" -> "redis"]

-----------------------------------------------------------------------------
LongerWords == {<<"URL", "URLS">>, <<"AUTH", "AUTHOR">>}

\* The service is written down with nothing but what it needs.
Minimal(k) == [settings |-> Required[k], headers |-> {}]

Full(k) ==
  [settings |-> Settings[k], headers |-> IF k = "API" THEN {<<"B">>, <<"AUTH">>} ELSE {}]

\* Names that hold words of settings or longer ones, and services whose names
\* begin with another's.
Declarable ==
  {<<"DB", <<"A">>>>, <<"DB", <<"A", "DRIVER">>>>, <<"MONGO", <<"A", "DRIVER">>>>,
   <<"REDIS", <<"A", "DB">>>>, <<"API", <<"A">>>>, <<"API", <<"A", "AUTH">>>>,
   <<"API", <<"A", "AUTHOR">>>>, <<"AI", <<"A", "MODELS">>>>}

Reserved ==
  {<<"DB", <<"A", "DSN">>>>, <<"MONGO", <<"A", "URI">>>>, <<"API", <<"A", "HEADER", "B">>>>,
   <<"API", <<"SHORT", "URLS">>>>}

Declarations(services) ==
  {[s \in services |-> IF s \in full THEN Full(s[1]) ELSE Minimal(s[1])] :
     full \in SUBSET services}

DocumentedIsRead ==
  \A services \in SUBSET Declarable : \A d \in Declarations(services) :
    Unambiguous(d) => Reads(d)

\* What start-up goes through is what was written down as documented: every
\* service, no other, and each API's own headers - whatever the names have in
\* common with each other and with settings, unless a name holds a required
\* setting (a word that begins with it is enough) or HEADER; and it is valid
\* (config.go:187-411, :481-517).
ReadAsWritten == process = "starting" => DocumentedIsRead

\* A SQL connection that is registered can be inspected, in its own dialect,
\* for every driver it may have been opened with (InspectionFits).
InspectionFitsTheDriver ==
  \A n \in DOMAIN conns : RegistryOf[n] = "sql" => InspectionFits

\* Without that condition.
EveryNameIsRead ==
  \A services \in SUBSET (Declarable \cup Reserved) : Cardinality(services) <= 2 =>
    \A d \in Declarations(services) : Reads(d)

\* "seconds, max conn lifetime": what is configured for a pool is what the
\* pool is opened with.  Provided is all that the registry is given
\* (module.go:82-90).
Provided(c) ==
  [maxConns |-> c.maxConns, maxIdle |-> c.maxIdle, maxLifetime |-> 0, maxIdleTime |-> 0]

PoolIsAsConfigured ==
  LET s == <<"DB", <<"A">>>>
      c == Load(Written(s :> Full("DB"))).DB[s[2]]
  IN  PoolOf(Provided(c)).maxLifetime = c.maxLifetime
=============================================================================
