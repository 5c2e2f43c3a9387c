--------------------------- MODULE CompositionProofs ---------------------------
(***************************************************************************)
(* Theorems about MCPlatform: running the components side by side takes    *)
(* nothing from any of them, so what holds of a component's specification  *)
(* holds of the composition.                                               *)
(***************************************************************************)
EXTENDS MCPlatform, FeaturePipelineProofs, PlatformProofs, DataProofs

(* Whoever moves, the components take a step of their own or none *)
StepsOfComponents ==
    /\ [Next]_vars /\ [RedisNext]_redisVars
    /\ [SchemaNext]_schemaVars /\ [ExplNext]_explVars
    /\ [TransformNext]_transformVars /\ [ChecksNext]_checkVars
    /\ [StreamNext]_streamVars /\ [ReportsNext]_reportVars

LEMMA PlatformSteps == [PlatformNext]_<<subject, platformVars>> => StepsOfComponents /\ UNCHANGED subject
<1>1. CASE UNCHANGED <<subject, platformVars>>
  BY <1>1 DEF platformVars, StepsOfComponents
<1>2. CASE PlatformNext
  BY <1>2 DEF PlatformNext, Moves, StepsOfComponents
<1>3. QED
  BY <1>1, <1>2

(* Every behaviour of the composition is one of each component: the upload *)
(* pipeline, the Redis client, the migrations, the explanations, the       *)
(* transformers, the quality gate, the stream and the drift reports.       *)
THEOREM ComponentsCompose ==
    PlatformSpec => /\ Spec /\ RedisSpec /\ SchemaSpec /\ ExplSpec
                    /\ TransformSpec /\ ChecksSpec /\ StreamSpec /\ ReportsSpec
<1>1. PlatformInit => /\ Init /\ RedisInit /\ SchemaInit /\ ExplInit
                      /\ TransformInit /\ ChecksInit /\ StreamInit /\ ReportsInit
  BY DEF PlatformInit
<1>2. [PlatformNext]_<<subject, platformVars>> =>
        /\ [Next]_vars /\ [RedisNext]_redisVars
        /\ [SchemaNext]_schemaVars /\ [ExplNext]_explVars
        /\ [TransformNext]_transformVars /\ [ChecksNext]_checkVars
        /\ [StreamNext]_streamVars /\ [ReportsNext]_reportVars
  BY PlatformSteps DEF StepsOfComponents
<1>3. QED
  BY <1>1, <1>2, PTL DEF PlatformSpec, Spec, RedisSpec, SchemaSpec, ExplSpec, TransformSpec,
     ChecksSpec, StreamSpec, ReportsSpec

(* The types of the component that moves, whichever it is *)
THEOREM PlatformTypeCorrect ==
    ASSUME IsFiniteSet(Validators), IsFiniteSet(Clients), IsFiniteSet(Analyses)
    PROVE  PlatformSpec => []PlatformTypeOK
<1> DEFINE Moving == subject \in Subjects
<1>1. PlatformSpec => []Moving
  <2>1. PlatformInit => Moving
    BY DEF PlatformInit
  <2>2. Moving /\ [PlatformNext]_<<subject, platformVars>> => Moving'
    BY PlatformSteps
  <2>3. QED
    BY <2>1, <2>2, PTL DEF PlatformSpec
<1>2. /\ Moving /\ PipelineTypeOK /\ RedisTypeOK /\ SchemaTypeOK /\ ExplTypeOK
      /\ TransformTypeOK /\ ChecksTypeOK /\ StreamTypeOK /\ ReportsTypeOK
      => PlatformTypeOK
  BY SubjectsAssumption DEF PlatformTypeOK
<1>3. StreamSpec => []StreamTypeOK
  BY StreamTypeCorrect
<1>4. ChecksSpec => []ChecksTypeOK
  BY ChecksTypeCorrect
<1>5. ReportsSpec => []ReportsTypeOK
  BY ReportsTypeCorrect
<1> HIDE DEF Moving
<1>6. QED
  BY <1>1, <1>2, <1>3, <1>4, <1>5, ComponentsCompose, PipelineTypeCorrect, RedisTypeCorrect,
     SchemaTypeCorrect, ExplTypeCorrect, TransformTypeCorrect, PTL

================================================================================
