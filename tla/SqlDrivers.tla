------------------------------ MODULE SqlDrivers ------------------------------
(***************************************************************************)
(* Which driver a SQL connection is opened with, how its pool is sized,    *)
(* and which dialect ListTables and DescribeTable then speak to it:        *)
(* internal/db/registry.go.  The driver is looked up when the connection   *)
(* is opened; the dialect is looked up later, from the configured text and *)
(* in a table of its own.                                                  *)
(*                                                                         *)
(* A DSN is known by the form it has.  A column of a table is a record of  *)
(* what the server knows of it; primary is its place in the primary key.   *)
(***************************************************************************)
EXTENDS Integers

Aliases ==
  [postgres   |-> {"postgres", "pg", "postgresql"},
   mysql      |-> {"mysql", "mariadb", "maria"},
   sqlserver  |-> {"sqlserver", "mssql", "microsoft", "azuresql"},
   sqlite     |-> {"sqlite", "sqlite3"},
   oracle     |-> {"oracle", "ora", "oci"},
   clickhouse |-> {"clickhouse", "ch"}]

Drivers == DOMAIN Aliases

\* The forms of a DSN that DetectDSN knows a driver by.
Forms ==
  [postgres   |-> {"postgres://", "postgresql://"},
   mysql      |-> {"mysql://", "mariadb://", "@tcp(", "@unix("},
   sqlserver  |-> {"sqlserver://"},
   sqlite     |-> {"sqlite://", ".db", ".sqlite", ".sqlite3"},
   oracle     |-> {"oracle:"},
   clickhouse |-> {"clickhouse://", "tcp://"}]

None == ""

\* strings.ToLower, for the text with capitals among the inputs.
Lower(text) == IF text = "MySQL" THEN "mysql" ELSE text

KnownAs(table, text) ==
  IF \E d \in Drivers : text \in table[d]
  THEN CHOOSE d \in Drivers : text \in table[d] ELSE None

ResolveDriver(text) == KnownAs(Aliases, Lower(text))

DetectDriverFromDSN(dsn) == KnownAs(Forms, dsn)

\* open: the driver, or None for "unsupported driver".
OpenedWith(config) ==
  LET d == ResolveDriver(config.driver)
  IN  IF d # None THEN d ELSE DetectDriverFromDSN(config.dsn)

\* The pool, in connections and seconds; database/sql keeps no more idle
\* connections than it opens.
PoolOf(config) ==
  LET OrElse(n, default) == IF n <= 0 THEN default ELSE n
      Lesser(a, b) == IF a <= b THEN a ELSE b
      Greater(a, b) == IF a <= b THEN b ELSE a
      maxOpen == OrElse(config.maxConns, 10)
  IN  [maxOpen     |-> maxOpen,
       maxIdle     |-> Lesser(maxOpen, OrElse(config.maxIdle, Greater(maxOpen \div 2, 2))),
       maxLifetime |-> OrElse(config.maxLifetime, 1800),
       maxIdleTime |-> OrElse(config.maxIdleTime, 300)]

\* The texts driverDialect compares with, as they are written.
DialectNames ==
  [Aliases EXCEPT !.sqlserver = {"sqlserver", "mssql", "azuresql"}]

\* Mutant: the alias was added to the drivers, not to the dialects.
DriverDialectWithoutMaria(config) ==
  LET d == KnownAs([DialectNames EXCEPT !.mysql = {"mysql", "mariadb"}], config.driver)
  IN  IF d = None THEN "postgres" ELSE d

\* driverDialect: PostgreSQL's is "the safest fallback".
DriverDialect(config) ==
  LET d == KnownAs(DialectNames, config.driver) IN IF d = None THEN "postgres" ELSE d

-----------------------------------------------------------------------------
(***************************************************************************)
(* DescribeTable: one query per dialect, and one way to read its rows.     *)
(* The outcome is one column's entry, or that the column was left out, or  *)
(* that the server would not have the query; each operator is the set of   *)
(* what may come of it.                                                    *)
(***************************************************************************)

YesNo(b) == IF b THEN "YES" ELSE "NO"

Entry(nullable, default, key) == [nullable |-> nullable, default |-> default, key |-> key]

Refusal == Entry("refused", "", "")  \* Query's error is DescribeTable's
Skipped == Entry("skipped", "", "")  \* Scan failed: "continue"

\* Any row may fail to be scanned: a NULL or a type that is not expected.
Read(entry) == {entry, Skipped}

\* information_schema.columns has is_nullable as text.  A length is only
\* appended to the type.
DescribePostgres(col) == Read(Entry(YesNo(~col.notnull), col.default, ""))

\* column_key is "PRI" for each column of the primary key.
DescribeMySQL(col) ==
  Read(Entry(YesNo(~col.notnull), col.default, IF col.primary > 0 THEN "PRI" ELSE ""))

DescribeSQLServer(col) == Read(Entry(YesNo(~col.notnull), col.default, ""))

\* PRAGMA table_info: notnull is 0 or 1, and pk the place in the key.
DescribeSQLite(col) ==
  LET notnull == IF col.notnull THEN 1 ELSE 0
  IN  Read(Entry(IF notnull = 1 THEN "NO" ELSE "YES", col.default,
                 IF col.primary = 1 THEN "PRI" ELSE ""))

\* nullable is "Y" or "N".  '' is NULL to Oracle, so that COALESCE leaves a
\* column without a default one that Scan cannot put into a string; and
\* data_default is a LONG, which a server may refuse to COALESCE.
DescribeOracle(col) ==
  LET nullable == IF col.notnull THEN "N" ELSE "Y"
  IN  {Refusal} \cup
      (IF col.default = "" THEN {Skipped}
       ELSE Read(Entry(IF nullable = "Y" THEN "YES" ELSE "NO", col.default, "")))

\* system.columns has no is_nullable.
DescribeClickHouse(col) == {Refusal}

\* A server is taken to refuse a query of another dialect: it has other
\* catalogues, other casts or other marks for the parameter.
DescribeTable(config, col) ==
  LET d == DriverDialect(config)
  IN  CASE d # OpenedWith(config) -> {Refusal}
        [] d = "postgres"         -> DescribePostgres(col)
        [] d = "mysql"            -> DescribeMySQL(col)
        [] d = "sqlserver"        -> DescribeSQLServer(col)
        [] d = "sqlite"           -> DescribeSQLite(col)
        [] d = "oracle"           -> DescribeOracle(col)
        [] d = "clickhouse"       -> DescribeClickHouse(col)

-----------------------------------------------------------------------------
(***************************************************************************)
(* Properties.                                                             *)
(***************************************************************************)

Columns == [notnull : BOOLEAN, default : {"", "now"}, primary : 0..2]

Texts == (UNION {Aliases[d] : d \in Drivers}) \cup {"MySQL", "unheard-of", ""}
SomeDSNs == (UNION {Forms[d] : d \in Drivers}) \cup {"host=db"}
Configs == [driver : Texts, dsn : SomeDSNs]

Usable == {c \in Configs : OpenedWith(c) # None}

\* What may be told of a column, when anything is: its nullability and default,
\* and for MySQL and SQLite a primary key of one column.
Describes(told, col, driver) ==
  /\ told.nullable = YesNo(~col.notnull) /\ told.default = col.default
  /\ driver \in {"mysql", "sqlite"} /\ col.primary = 1 => told.key = "PRI"

\* Whichever alias it was configured by, a connection that could be opened is
\* asked in the dialect of the driver it was opened with - except "microsoft", a
\* name with capitals, and a driver found from the DSN.  PostgreSQL, MySQL, SQL
\* Server and SQLite then answer, and what is told of a column is as the server
\* has it, or the column is left out (registry.go:130-151, :301-319, :461-690).
InspectionFits ==
  \A c \in Usable :
    c.driver \in (UNION {Aliases[k] : k \in Drivers}) \ {"microsoft"} =>
      /\ DriverDialect(c) = OpenedWith(c)
      /\ \A col \in Columns : \A told \in DescribeTable(c, col) :
           \/ told = Refusal /\ OpenedWith(c) \in {"oracle", "clickhouse"}
           \/ told = Skipped
           \/ Describes(told, col, OpenedWith(c))

\* Without those exceptions: every connection that can be opened can be
\* inspected, and every column of the table is told of.
EveryConnectionIsInspected ==
  \A c \in Usable : \A col \in Columns :
    DescribeTable(c, col) \cap {Refusal, Skipped} = {}
=============================================================================
