------------------------------ MODULE MCPlatform ------------------------------
(***************************************************************************)
(* Small instances of the components around the engine and the registry,   *)
(* checked in one run.  They have no variable in common; subject says      *)
(* which of them moves, the others stay in an initial state.               *)
(***************************************************************************)
EXTENDS MCFeaturePipeline, RedisLink, SchemaMigration, Explanations,
        FeatureTransforms, DataChecks, EventStream, DriftReports

CONSTANTS Subjects, c1, c2, word, date, iso

ASSUME SubjectsAssumption ==
    Subjects \subseteq {"pipeline", "redis", "schema", "explanations",
                        "transforms", "checks", "stream", "reports"}

VARIABLE subject

(* Transformers: every kind on a column of its own name or a hinted one *)
F(kind, name, hints) == [kind |-> kind, name |-> name, hints |-> hints]
MCDerived ==
    {F(kind, NoName, {c1}) : kind \in {"scale", "log", "label", "binary"}}
    \cup {F(kind, NoName, {c2}) : kind \in {"label", "frequency", "top", "date", "length"}}
    \cup {F("passthrough", c1, {}), F("label", NoName, {c1, c2})}
MCDateForm == word :> NoDate @@ date :> iso

(* Data quality: a table, and tables that differ from it in one respect *)
OneColumn(col) ==
    [types |-> (col :> "number"), key |-> col, gaps |-> (col :> "none"), repeats |-> {}]
Plain == [types |-> [k |-> "number", x |-> "number"], key |-> "k",
          gaps |-> [k |-> "none", x |-> "none"], repeats |-> {}]
MCTables ==
    {OneColumn("k"), OneColumn("x"), Plain, [Plain EXCEPT !.types.x = "text"],
     [Plain EXCEPT !.gaps.k = "few"], [Plain EXCEPT !.gaps.x = "many"],
     [Plain EXCEPT !.repeats = {"k"}]}

(* The initial state of a component that does not move is one and the same *)
Still(name, A) == subject # name => A

PlatformInit ==
    /\ subject \in Subjects
    /\ Init /\ Still("pipeline", redisUp)
    /\ RedisInit /\ Still("redis", up)
    /\ SchemaInit /\ Still("schema", revision = 0 /\ schema.tables = {})
    /\ ExplInit /\ Still("explanations", loaded = CHOOSE v \in Artifacts : TRUE)
    /\ TransformInit /\ Still("transforms", /\ layout = <<c1, c2>>
                                            /\ table = [c \in Fields |-> [i \in 1 .. NumRows |-> Missing]])
    /\ ChecksInit
    /\ StreamInit
    /\ ReportsInit

platformVars == <<vars, redisVars, schemaVars, explVars, transformVars, checkVars, streamVars, reportVars>>

Moves(name, A, others) == subject = name /\ A /\ UNCHANGED <<subject, others>>

PlatformNext ==
    \/ Moves("pipeline", Next, <<redisVars, schemaVars, explVars, transformVars, checkVars, streamVars, reportVars>>)
    \/ Moves("redis", RedisNext, <<vars, schemaVars, explVars, transformVars, checkVars, streamVars, reportVars>>)
    \/ Moves("schema", SchemaNext, <<vars, redisVars, explVars, transformVars, checkVars, streamVars, reportVars>>)
    \/ Moves("explanations", ExplNext, <<vars, redisVars, schemaVars, transformVars, checkVars, streamVars, reportVars>>)
    \/ Moves("transforms", TransformNext, <<vars, redisVars, schemaVars, explVars, checkVars, streamVars, reportVars>>)
    \/ Moves("checks", ChecksNext, <<vars, redisVars, schemaVars, explVars, transformVars, streamVars, reportVars>>)
    \/ Moves("stream", StreamNext, <<vars, redisVars, schemaVars, explVars, transformVars, checkVars, reportVars>>)
    \/ Moves("reports", ReportsNext, <<vars, redisVars, schemaVars, explVars, transformVars, checkVars, streamVars>>)

PlatformSpec == PlatformInit /\ [][PlatformNext]_<<subject, platformVars>>

(* Nothing that must happen is enabled in a component that does not move *)
FairPlatformSpec == PlatformSpec /\ Fairness /\ RedisFairness

(* The type invariant of the component that moves *)
PlatformTypeOK ==
    CASE subject = "pipeline" -> PipelineTypeOK
      [] subject = "redis" -> RedisTypeOK
      [] subject = "schema" -> SchemaTypeOK
      [] subject = "explanations" -> ExplTypeOK
      [] subject = "transforms" -> TransformTypeOK
      [] subject = "checks" -> ChecksTypeOK
      [] subject = "stream" -> StreamTypeOK
      [] subject = "reports" -> ReportsTypeOK
=============================================================================
