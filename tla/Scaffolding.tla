----------------------------- MODULE Scaffolding ----------------------------
(* db:scaffold (scaffold/): what SchemaIntrospector reads of a live schema and  *)
(* the entities EntityScaffolder writes from it.  The text of the files and the *)
(* conversion of names are left out.                                            *)
EXTENDS Schema

(* ---------------------------- SchemaIntrospector -------------------------- *)

\* SQLite has no flag for auto-incremented keys: every INTEGER key counts as one,
\* and its key columns are not said to be NOT NULL.
fetchColumns(d, schema, table) ==
    {LET key == Has(schema, "key", table, x.name)
     IN [name |-> x.name, type |-> x.value, primary |-> key,
         auto |-> IF d = "sqlite" THEN key /\ x.value = "INTEGER" ELSE Fact("key", table, x.name, "auto") \in schema,
         null |-> (d = "sqlite" /\ key) \/ ~Has(schema, "notnull", table, x.name)]
     : x \in {y \in schema : y.kind = "column" /\ y.table = table}}

fetchForeignKeys(schema, table) ==
    {[column |-> x.name, ref |-> x.value] : x \in {y \in schema : y.kind = "foreign" /\ y.table = table}}

(* ----------------------------- EntityScaffolder --------------------------- *)

\* By the name the catalogue gives the type: BOOLEAN is a tinyint on MySQL; JSON
\* and ENUM have no SqlType.
mapDbTypeToTs(d, type) ==
    CASE type \in {"INTEGER", "SMALLINT"} \/ (type = "BOOLEAN" /\ d = "mysql") -> "Int"
      [] type = "BIGINT" -> "BigInt"
      [] type = "FLOAT" -> "Float"
      [] type = "DECIMAL" -> "Decimal"
      [] type = "VARCHAR" -> "VarChar"
      [] type = "TEXT" -> "Text"
      [] type \in {"BOOLEAN", "BIT"} -> "Bit"
      [] type \in {"TIMESTAMP", "DATETIME2"} -> "DateTime"
      [] type = "DATE" -> "Date"
      [] type \in {"UUID", "UNIQUEIDENTIFIER"} -> "Uuid"
      [] type = "BLOB" -> "Binary"
      [] OTHER -> "unset"

\* fault: a column that is nullable is not said to be.
generateColumnUnsaid(d, c) ==
    [name |-> c.name, type |-> mapDbTypeToTs(d, c.type), primary |-> c.primary, auto |-> c.primary /\ c.auto,
     nullable |-> "unset", enum |-> FALSE]

\* A class: its columns, and its relations to the tables introspected with it.
generateColumn(d, c) ==
    [name |-> c.name, type |-> mapDbTypeToTs(d, c.type), primary |-> c.primary, auto |-> c.primary /\ c.auto,
     nullable |-> IF c.null THEN "null" ELSE "unset", enum |-> FALSE]
hasMany(t, all) ==
    UNION {{[how |-> "many", target |-> o.name, column |-> fk.column] : fk \in {k \in o.foreignKeys : k.ref = t.name}}
           : o \in {x \in all : x.name # t.name}}
belongsTo(t) == {[how |-> "one", target |-> fk.ref, column |-> fk.column] : fk \in t.foreignKeys}

generateEntityFile(d, t, all) ==
    [entity |-> [table |-> t.name, columns |-> {generateColumn(d, c) : c \in t.columns},
                 composite |-> {}, indexes |-> {}, view |-> FALSE, stamps |-> {}],
     relations |-> hasMany(t, all) \cup belongsTo(t),
     seen |-> t.seen, whole |-> t.whole]

\* Files that exist are skipped unless forced: entity files, and the context.
scaffold(d, dir, all, force) ==
    LET names == {t.name : t \in all}
        table(n) == CHOOSE t \in all : t.name = n
        kept == IF force THEN DOMAIN dir.classes \ names ELSE DOMAIN dir.classes
    IN [classes |-> [n \in DOMAIN dir.classes \cup names |->
                         IF n \in kept THEN dir.classes[n] ELSE generateEntityFile(d, table(n), all)],
        context |-> IF dir.context # {} /\ ~force THEN dir.context ELSE names]
=============================================================================
