---------------------------- MODULE MCDeployment ----------------------------
(* Two versions of a model: users and a view; then users with another column    *)
(* and two further tables; a migration by hand.  Deployments in pairs, on each  *)
(* dialect, some of which scaffold entities from what the other makes.          *)
EXTENDS Deployment, TLC

CONSTANTS p1, p2

C(name, type) == [name |-> name, type |-> type, primary |-> FALSE, auto |-> FALSE, nullable |-> "unset", enum |-> FALSE]
Entity(table, columns) == [table |-> table, columns |-> columns, composite |-> {}, indexes |-> {}, view |-> FALSE, stamps |-> {}]

Id == [C("id", "Int") EXCEPT !.primary = TRUE, !.auto = TRUE]
Users1 == [Entity("users", {Id, C("name", "VarChar"), [C("rate", "Decimal") EXCEPT !.nullable = "null"]}) EXCEPT !.indexes = {"name"}]
Users2 == [Users1 EXCEPT !.columns = @ \cup {[C("born", "Date") EXCEPT !.nullable = "notnull"]}]
Report == [Entity("report", {Id}) EXCEPT !.view = TRUE]
Links == [Entity("links", {[C("a", "Int") EXCEPT !.primary = TRUE], [C("b", "Uuid") EXCEPT !.primary = TRUE], C("at", "DateTime")})
          EXCEPT !.composite = {"a", "b"}, !.stamps = {"created_at", "deleted_at"}]
Blobs == Entity("blobs", {[C("key", "VarChar") EXCEPT !.primary = TRUE], C("data", "Binary"), C("weight", "Float"), C("n", "SmallInt"),
                          [C("note", "Text") EXCEPT !.nullable = "notnull"], C("meta", "Json"), C("on", "Bit")})
Kinds == Entity("kinds", {Id, [C("kind", "VarChar") EXCEPT !.enum = TRUE, !.nullable = "notnull"]})
Stamps == Entity("stamps", {Id, C("at", "DateTime")})

One == <<Users1, Report>>
Two == <<Users2, Report, Links>>

First(dialect) == generateMigration(dialect, "m1", <<Users1>>)
After1(dialect) == FoldLeft(LAMBDA schema, s : effect(dialect, schema, s), {}, First(dialect).up)
Second(dialect) == generateDiffMigration(dialect, "m2", Two, After1(dialect))
WithView(dialect) == generateMigration(dialect, "m1", One)

\* A migration written by hand, in what each dialect lets it do.
Notes(dialect) ==
    [id |-> "m3",
     up |-> <<createTable(dialect, "notes", {increments("id"), col("txt", "VARCHAR"), col("owner", "INTEGER")}),
              createIndex("notes", "txt", FALSE)>>
            \o (IF dialect = "mysql" THEN <<>> ELSE <<dropIndex("notes", "txt")>>)
            \o <<renameColumn("notes", "txt", "body", "VARCHAR")>>
            \o (IF dialect = "sqlite" THEN <<>> ELSE <<alterColumn(dialect, "notes", "owner", "BIGINT")>>),
     down |-> <<dropTable("notes")>>]
Owned(dialect) ==
    [id |-> "m4", up |-> <<addColumn("notes", "writer", "INTEGER"), addForeignKey(dialect, "notes", "writer", "users")>>,
     down |-> (IF dialect = "mysql" THEN <<executeSql("dropForeign", "notes", "writer")>> ELSE <<>>)
              \o <<dropColumn("notes", "writer")>>]

Plainly(dialect) == [dialect |-> dialect, entities |-> Two, migrations |-> <<>>, seeds |-> {}, schema |-> {}, only |-> {}]
Migrating(dialect, ms, c1, c2) ==
    [Plainly(dialect) EXCEPT !.migrations = ms, !.seeds = {"s"}] @@ [commands |-> (p1 :> c1 @@ p2 :> c2)]
Generating(dialect, es, schema, c1, c2) ==
    [Plainly(dialect) EXCEPT !.entities = es, !.schema = schema] @@ [commands |-> (p1 :> c1 @@ p2 :> c2)]

Dialects == {"postgres", "mysql", "sqlite", "mssql"}
View == {Fact("view", "report", "", ""), Fact("column", "report", "id", "INTEGER"), Fact("notnull", "report", "id", "")}

MCWorkloads ==
    {Migrating(x, <<First(x), Second(x)>>, <<"up", "down", "up">>, c) : x \in Dialects, c \in {<<"up">>, <<"down">>, <<"seed">>}}
    \cup {Migrating(x, <<First(x), Second(x)>>, <<"up", "seed">>, <<"seed", "up">>) : x \in Dialects}
    \cup {Migrating(x, <<First(x), Notes(x), Owned(x)>>, <<"up", "down", "up">>, <<"down">>) : x \in Dialects}
    \cup {Migrating(x, <<>>, <<"seed", "reset", "seed">>, <<"seed">>) : x \in Dialects}
    \cup {[Migrating(x, <<WithView(x)>>, <<"up", "down">>, <<"up">>) EXCEPT !.schema = View] : x \in Dialects}
    \cup UNION {{Generating(x, es, s, c, <<"ensure">>) :
                    c \in {<<"push">>, <<"ensure", "push">>}, es \in {Two, <<Blobs>>, <<Kinds, Links>>, <<Stamps>>}, s \in {{}, After1(x)}}
                : x \in Dialects}
    \cup {[Migrating(x, <<Notes(x), First(x), Owned(x)>>, <<"up", "scaffold", "down">>, <<"scaffoldForce">>) EXCEPT !.only = o]
            : x \in Dialects, o \in {{}, {"notes"}}}
    \cup {[Migrating(x, <<First(x), Second(x)>>, <<"up", "down">>, <<"scaffold", "scaffoldForce">>) EXCEPT !.schema = View] : x \in Dialects}
    \cup {Generating(x, es, {}, <<"push">>, <<"scaffold">>) : x \in Dialects, es \in {Two, <<Blobs>>, <<Kinds, Links>>, <<Stamps>>}}

\* One deployer that creates the schema twice; two that run one seed.
ClaimWorkloads ==
    {Generating(x, es, {}, <<"ensure", "ensure">>, <<>>) : x \in Dialects, es \in {Two, <<Blobs>>, <<Kinds, Links>>, <<Stamps>>}}
    \cup {Migrating(x, <<>>, <<"seed">>, <<"seed">>) : x \in Dialects}
=============================================================================
