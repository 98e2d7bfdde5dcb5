------------------------------- MODULE Schema -------------------------------
(* The DDL of a code-first schema: what MigrationBuilder, the mapping of an     *)
(* entity to it and SchemaGenerator make of the entities (migrations/ and       *)
(* codegen/), and what a database of each dialect does with the statements.     *)
(* A schema is a set of facts; the text of the SQL is left out.                 *)
EXTENDS Integers, SequencesExt

Fact(kind, table, name, value) == [kind |-> kind, table |-> table, name |-> name, value |-> value]
Has(schema, kind, table, name) == \E x \in schema : x.kind = kind /\ x.table = table /\ x.name = name
Columns(schema, table) == {x.name : x \in {y \in schema : y.kind = "column" /\ y.table = table}}
\* The catalogues of PostgreSQL and MySQL list views among the tables.
Tables(d, schema) ==
    {x.table : x \in {y \in schema : y.kind \in (IF d \in {"postgres", "mysql"} THEN {"table", "view"} ELSE {"table"})}}

(* ---------------------------- MigrationBuilder ---------------------------- *)

\* A column as TableBuilder declares it; text, timestamps, JSON and enums are
\* nullable unless told otherwise.
col(name, type) == [name |-> name, type |-> type, primary |-> FALSE, auto |-> FALSE,
                    nullable |-> type \in {"TEXT", "TIMESTAMP", "JSON", "ENUM"}]
increments(name) == [col(name, "INTEGER") EXCEPT !.primary = TRUE, !.auto = TRUE]

\* What createTable() says of a column: SQLite is given no key but an
\* auto-incremented one, and a key is not said to be NOT NULL.
colDef(d, table, c) ==
    LET key == c.primary /\ (c.auto \/ d # "sqlite")
    IN {Fact("column", table, c.name, c.type)}
       \cup (IF key THEN {Fact("key", table, c.name, IF c.auto THEN "auto" ELSE "")} ELSE {})
       \cup (IF key \/ ~c.nullable THEN {Fact("notnull", table, c.name, "")} ELSE {})

Statement(kind, table, name, facts) == [kind |-> kind, table |-> table, name |-> name, facts |-> facts]
createTable(d, table, cols) ==
    Statement("create", table, "", {Fact("table", table, "", "")} \cup UNION {colDef(d, table, c) : c \in cols})
createIndex(table, column, unique) ==
    Statement("index", table, column, {Fact("index", table, column, IF unique THEN "unique" ELSE "")})
addColumn(table, name, type) == Statement("add", table, name, {Fact("column", table, name, type)})
dropColumn(table, name) == Statement("dropColumn", table, name, {})
dropTableIfExists(table) == Statement("drop", table, "", {})
dropTable(table) == Statement("dropTable", table, "", {})
executeSql(kind, table, name) == Statement(kind, table, name, {})
dropIndex(table, index) == Statement("dropIndex", table, index, {})
renameColumn(table, old, new, type) == Statement("rename", table, old, {Fact("column", table, new, type)})

\* On SQLite these are a comment.
Comment == Statement("comment", "", "", {})
alterColumn(d, table, name, type) ==
    IF d = "sqlite" THEN Comment ELSE Statement("alter", table, name, {Fact("column", table, name, type)})
addForeignKey(d, table, column, ref) ==
    IF d = "sqlite" THEN Comment ELSE Statement("foreign", table, column, {Fact("foreign", table, column, ref)})

(* -------------------------- entityToMigrationBuilder ---------------------- *)

\* Types as strings of one family; their lengths are left out.
sqlTypeToColumnType(d, type) ==
    CASE type = "Int" -> "INTEGER"
      [] type = "BigInt" -> "BIGINT"
      [] type = "SmallInt" -> "SMALLINT"
      [] type = "Float" -> "FLOAT"
      [] type = "Decimal" -> "DECIMAL"
      [] type = "Text" -> "TEXT"
      [] type = "Bit" -> IF d = "mssql" THEN "BIT" ELSE "BOOLEAN"
      [] type = "DateTime" -> IF d = "mssql" THEN "DATETIME2" ELSE "TIMESTAMP"
      [] type = "Date" -> "DATE"
      [] type = "Uuid" -> CASE d = "postgres" -> "UUID" [] d = "mssql" -> "UNIQUEIDENTIFIER" [] OTHER -> "VARCHAR"
      [] type = "Binary" -> "BLOB"
      [] type = "Json" -> "JSON"
      [] OTHER -> "VARCHAR"

\* The column the builder has for such a type.
builderType(t) ==
    CASE t \in {"INTEGER", "SMALLINT"} -> "INTEGER"
      [] t \in {"BOOLEAN", "BIT"} -> "BOOLEAN"
      [] t \in {"TIMESTAMP", "DATE", "DATETIME2"} -> "TIMESTAMP"
      [] t \in {"DECIMAL", "FLOAT"} -> "DECIMAL"
      [] t \in {"UUID", "UNIQUEIDENTIFIER"} -> "UUID"
      [] t \in {"TEXT", "JSON", "BIGINT"} -> t
      [] OTHER -> "VARCHAR"

Told(c, declared) == IF declared = "unset" THEN c ELSE [c EXCEPT !.nullable = declared = "null"]

column(d, e, c) ==
    CASE c.enum -> Told(col(c.name, CASE d = "mysql" -> "ENUM" [] d = "sqlite" -> "TEXT" [] OTHER -> "VARCHAR"), c.nullable)
      [] c.primary /\ c.auto /\ c.name \notin e.composite -> increments(c.name)
      [] OTHER -> Told([col(c.name, builderType(sqlTypeToColumnType(d, c.type)))
                        EXCEPT !.primary = c.primary /\ c.name \notin e.composite], c.nullable)

\* created_at, updated_at and the column of soft deletion, unless declared.
appended(e) == {[col(x, "TIMESTAMP") EXCEPT !.nullable = x # "created_at"] : x \in e.stamps \ {c.name : c \in e.columns}}

\* fault: without the composite key, which each of its columns then declares by itself.
entityToInlineKeys(d, e) ==
    IF e.view THEN <<>>
    ELSE <<createTable(d, e.table, {column(d, e, c) : c \in e.columns} \cup appended(e))>>
         \o SetToSeq({createIndex(e.table, i, TRUE) : i \in e.indexes})

\* CREATE TABLE, its indexes, a composite key (none on SQLite) and a CHECK for
\* each enum (none on MySQL), in this order.
entityToMigrationBuilder(d, e) ==
    IF e.view THEN <<>>
    ELSE <<createTable(d, e.table, {column(d, e, c) : c \in e.columns} \cup appended(e))>>
         \o SetToSeq({createIndex(e.table, i, TRUE) : i \in e.indexes})
         \o (IF e.composite = {} \/ d = "sqlite" THEN <<>>
             ELSE <<Statement("addKey", e.table, "", {Fact("key", e.table, k, "") : k \in e.composite})>>)
         \o (IF d = "mysql" THEN <<>>
             ELSE SetToSeq({Statement("check", e.table, c.name, {Fact("check", e.table, c.name, "")})
                            : c \in {x \in e.columns : x.enum}}))

(* ---------------------------- the database -------------------------------- *)

Made(schema, table) == Has(schema, "table", table, "") \/ Has(schema, "view", table, "")

\* Why a statement is refused: "exists" if the message says "already exists".
refusal(d, schema, s) ==
    CASE s.kind = "create" /\ Made(schema, s.table) -> IF d = "mssql" THEN "taken" ELSE "exists"
      [] s.kind = "create" /\ d = "mssql" /\ \E x \in s.facts : x.value \in {"BOOLEAN", "UUID", "JSON"} -> "syntax"
      [] s.kind = "create" /\ d = "mssql" /\ Cardinality({x \in s.facts : x.kind = "column" /\ x.value = "TIMESTAMP"}) > 1 -> "syntax"
      [] s.kind \in {"createIfNotExists", "add"} /\ d = "mssql" -> "syntax"
      [] s.kind \in {"create", "createIfNotExists"} /\ Cardinality({x \in s.facts : x.kind = "key"}) > 1 -> "syntax"
      [] s.kind = "add" /\ d = "postgres" /\ \E x \in s.facts : x.value = "BLOB" -> "syntax"
      [] s.kind \in {"check", "comment"} /\ d = "sqlite" -> "syntax"
      [] s.kind = "dropIndex" /\ d \in {"mysql", "mssql"} -> "syntax"
      [] s.kind = "rename" /\ d = "mssql" -> "syntax"
      [] s.kind \notin {"create", "createIfNotExists", "drop"} /\ ~Has(schema, "table", s.table, "") -> "missing"
      [] s.kind = "drop" /\ d # "mysql" /\ Has(schema, "view", s.table, "") -> "view"
      [] s.kind \in {"drop", "dropTable"} /\ \E x \in schema : x.kind = "foreign" /\ x.value = s.table /\ x.table # s.table -> "referenced"
      [] s.kind = "dropColumn" /\ d \in {"mysql", "mssql"} /\ Has(schema, "foreign", s.table, s.name) -> "referenced"
      [] s.kind = "index" /\ s.facts \subseteq schema -> IF d = "mysql" THEN "taken" ELSE "exists"
      [] s.kind = "check" /\ s.facts \subseteq schema -> IF d = "mssql" THEN "taken" ELSE "exists"
      [] s.kind = "addKey" /\ \E x \in schema : x.kind = "key" /\ x.table = s.table -> "taken"
      [] s.kind = "add" /\ s.name \in Columns(schema, s.table) -> IF d = "postgres" THEN "exists" ELSE "taken"
      [] s.kind \in {"dropColumn", "rename", "alter", "foreign"} /\ s.name \notin Columns(schema, s.table) -> "missing"
      [] OTHER -> "none"

\* MySQL's CHANGE and MODIFY, and SQL Server's ALTER COLUMN, state the whole
\* column: NOT NULL goes unless repeated.
OfColumn(s, x) == x.table = s.table /\ x.name = s.name /\ x.kind \in {"column", "notnull", "key", "foreign"}
without(schema, s, kinds) == {x \in schema : ~(OfColumn(s, x) /\ x.kind \in kinds)}
renamed(schema, s) ==
    LET new == CHOOSE n \in {x.name : x \in s.facts} : TRUE
    IN {IF OfColumn(s, x) THEN [x EXCEPT !.name = new] ELSE x : x \in schema}

effect(d, schema, s) ==
    CASE s.kind \in {"drop", "dropTable"} -> IF Has(schema, "view", s.table, "") THEN schema ELSE {x \in schema : x.table # s.table}
      [] s.kind = "dropColumn" -> {x \in schema : ~(x.table = s.table /\ x.name = s.name)}
      [] s.kind = "dropIndex" -> {x \in schema : ~(x.kind = "index" /\ x.table = s.table /\ x.name = s.name)}
      [] s.kind = "dropForeign" -> without(schema, s, {"foreign"})
      [] s.kind = "rename" /\ d = "mysql" -> renamed(without(schema, s, {"column", "notnull"}), s) \cup s.facts
      [] s.kind = "rename" -> renamed(schema, s)
      [] s.kind = "alter" -> without(schema, s, IF d = "postgres" THEN {"column"} ELSE {"column", "notnull"}) \cup s.facts
      [] s.kind = "createIfNotExists" /\ Made(schema, s.table) -> schema
      [] OTHER -> schema \cup s.facts

(* ----------------------------- SchemaGenerator ---------------------------- *)

ifNotExists(s) == IF s.kind = "create" THEN [s EXCEPT !.kind = "createIfNotExists"] ELSE s

ensureCreated(d, entities) == FlattenSeq([n \in DOMAIN entities |->
    LET ss == entityToMigrationBuilder(d, entities[n]) IN [m \in DOMAIN ss |-> ifNotExists(ss[m])]])

missingTables(d, entities, schema) == SelectSeq(entities, LAMBDA e : ~e.view /\ e.table \notin Tables(d, schema))
missingColumns(d, e, schema) ==
    IF e.table \notin Tables(d, schema) THEN {} ELSE {c \in e.columns : c.name \notin Columns(schema, e.table)}

\* The statements for what diff() finds missing, its columns with their types or not.
additions(d, entities, schema, typed) ==
    FlattenSeq([n \in DOMAIN missingTables(d, entities, schema) |-> entityToMigrationBuilder(d, missingTables(d, entities, schema)[n])])
    \o FlattenSeq([n \in DOMAIN entities |->
           SetToSeq({addColumn(entities[n].table, c.name, IF typed THEN sqlTypeToColumnType(d, c.type) ELSE "VARCHAR") : c \in missingColumns(d, entities[n], schema)})])

\* push() gives every added column the type VARCHAR(255).
push(d, entities, schema) == additions(d, entities, schema, FALSE)

generateDiffMigration(d, id, entities, schema) ==
    [id |-> id,
     up |-> additions(d, entities, schema, TRUE),
     down |-> [n \in DOMAIN missingTables(d, entities, schema) |-> dropTableIfExists(missingTables(d, entities, schema)[n].table)]
              \o FlattenSeq([n \in DOMAIN entities |->
                     SetToSeq({dropColumn(entities[n].table, c.name) : c \in missingColumns(d, entities[n], schema)})])]

generateMigration(d, id, entities) ==
    [id |-> id,
     up |-> FlattenSeq([n \in DOMAIN entities |-> entityToMigrationBuilder(d, entities[n])]),
     down |-> [n \in DOMAIN entities |-> dropTableIfExists(entities[n].table)]]
=============================================================================
