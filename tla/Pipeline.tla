-------------------------------- MODULE Pipeline --------------------------------
(* Data pipelines of ify-controller (pipeline.rs): the registry that editors   *)
(* share, saved versions and their replay, checkpoints, streams, dead letters, *)
(* lineage, schemas, the optimizer, connectors and builder templates.          *)
(*                                                                             *)
(* Editors work on copies.  A step, an author or a record is an id; names,     *)
(* parameters, times, payloads and log entries are dropped.  A JSON value is   *)
(* what FieldType::from_json() tells apart, a record a function from fields.   *)
EXTENDS Integers, Sequences, FiniteSets, SequencesExt

CONSTANTS
    Editors, PipelineIds, Steps, Fields, SchemaIds, ConnectorIds, Artifacts,
    MaxVersion,    \* bound: the version number up to which drafts are edited
    MaxUpdates,    \* bound: saved versions of one pipeline
    MaxRecords,    \* bound: records of a stream, failed ones, lineage entries
    EventTimes,    \* event times of stream records
    Configs,       \* the batch configurations that tuning starts from
    None

VARIABLES
    pipelines,     \* PipelineRegistry::pipelines
    versions,      \* PipelineRegistry::versions: saved versions, oldest first
    drafts,        \* each editor's copy, and whether its update is half done
    registered,    \* history: definitions stored by register_pipeline()
    checkpoints, dlq, lineage, stream,
    run,           \* the client's progress through a pipeline, lost in a crash
    config,        \* the BatchConfig of a client that follows the advice
    last_sample,   \* the newest metrics of the optimizer
    schemas, connectors, templates

edit_vars == <<pipelines, versions, drafts, registered>>
run_vars == <<checkpoints, dlq, lineage, stream, run>>
tune_vars == <<config, last_sample>>
catalog_vars == <<schemas, connectors, templates>>
vars == <<edit_vars, run_vars, tune_vars, catalog_vars>>

StepKind == {"Map", "Filter", "Reduce", "Aggregate", "Window"}

NewPipeline(p) == [id |-> p, steps |-> <<>>, version |-> 1]

AddStep(d, s) == [d EXCEPT !.steps = Append(@, s), !.version = @ + 1]

RemoveStep(d, s) ==
    LET kept == SelectSeq(d.steps, LAMBDA x : x # s)
    IN  IF Len(kept) < Len(d.steps) THEN [d EXCEPT !.steps = kept, !.version = @ + 1] ELSE d

(* TransformVersion::capture().                                                *)
Capture(d) == [version |-> d.version, steps_snapshot |-> d.steps]

Put(f, k, v) == [x \in DOMAIN f \cup {k} |-> IF x = k THEN v ELSE f[x]]

Free == [pc |-> "free"]

Editing(d) == [pc |-> "edit", def |-> d]

-------------------------------------------------------------------------------
(* Editors.  A new pipeline has a new id; get_pipeline() hands out a copy.     *)
Create(e, p) ==
    /\ drafts[e] = Free /\ p \notin DOMAIN pipelines
    /\ \A f \in Editors : drafts[f] # Free => drafts[f].def.id # p
    /\ drafts' = [drafts EXCEPT ![e] = Editing(NewPipeline(p))]
    /\ UNCHANGED <<pipelines, versions, registered>>

GetPipeline(e, p) ==
    /\ drafts[e] = Free /\ p \in DOMAIN pipelines
    /\ drafts' = [drafts EXCEPT ![e] = Editing(pipelines[p])]
    /\ UNCHANGED <<pipelines, versions, registered>>

Edit(e, d) ==
    /\ drafts[e].pc = "edit" /\ d.version <= MaxVersion
    /\ drafts' = [drafts EXCEPT ![e].def = d]
    /\ UNCHANGED <<pipelines, versions, registered>>

RegisterPipeline(e) ==
    /\ drafts[e].pc = "edit"
    /\ LET d == drafts[e].def IN
       pipelines' = Put(pipelines, d.id, d) /\ registered' = registered \cup {d}
    /\ drafts' = [drafts EXCEPT ![e] = Free]
    /\ UNCHANGED versions

(* update_pipeline(): the version is saved under one lock, and the definition  *)
(* replaced under another.                                                     *)
StoresFirst(e, d) ==
    IF drafts[e].pc = "edit" THEN pipelines' = Put(pipelines, d.id, d) /\ UNCHANGED versions
    ELSE versions' = [versions EXCEPT ![d.id] = Append(@, Capture(d))] /\ UNCHANGED pipelines

SavesFirst(e, d) ==
    IF drafts[e].pc = "edit"
    THEN versions' = [versions EXCEPT ![d.id] = Append(@, Capture(d))] /\ UNCHANGED pipelines
    ELSE pipelines' = Put(pipelines, d.id, d) /\ UNCHANGED versions

UpdatePipeline(e) ==
    /\ drafts[e].pc \in {"edit", "update"}
    /\ Len(versions[drafts[e].def.id]) < MaxUpdates \/ drafts[e].pc = "update"
    /\ SavesFirst(e, drafts[e].def)
    /\ drafts' = [drafts EXCEPT ![e] = IF @.pc = "edit" THEN [@ EXCEPT !.pc = "update"] ELSE Free]
    /\ UNCHANGED registered

(* replay_version(): the oldest version of that number, of a known pipeline.   *)
ReplayVersion(p, v) ==
    LET hits == SelectSeq(versions[p], LAMBDA x : x.version = v)
    IN  IF p \notin DOMAIN pipelines THEN [error |-> "PipelineNotFound"]
        ELSE IF hits = <<>> THEN [error |-> "VersionNotFound"] ELSE [steps |-> Head(hits).steps_snapshot]

EditNext ==
    /\ \E e \in Editors :
          \/ \E p \in PipelineIds : Create(e, p) \/ GetPipeline(e, p)
          \/ \E s \in Steps : drafts[e] # Free
                /\ (Edit(e, AddStep(drafts[e].def, s)) \/ Edit(e, RemoveStep(drafts[e].def, s)))
          \/ RegisterPipeline(e) \/ UpdatePipeline(e)
    /\ UNCHANGED <<run_vars, tune_vars, catalog_vars>>

-------------------------------------------------------------------------------
(* A client runs a pipeline of the registry over a stream of records.  The     *)
(* executor is the client's: the code keeps the books.                         *)
NewRun == [step |-> 0, processed |-> 0]

NewStream == [low_watermark_ms |-> 0, processed |-> 0, failed |-> 0]

DeadLetterReason == {"StepError", "SchemaValidationFailed", "MaxRetriesExceeded", "FilterRejected"}

(* StreamPipeline::advance(): the watermark is the latest event time.          *)
Advance(t) ==
    /\ run # None /\ run.processed < MaxRecords
    /\ stream' = [stream EXCEPT !.low_watermark_ms = IF t > @ THEN t ELSE @, !.processed = @ + 1]
    /\ run' = [run EXCEPT !.processed = @ + 1]
    /\ UNCHANGED <<checkpoints, dlq, lineage>>

(* LineageTracker::record() of an output.                                      *)
RecordLineage(a) ==
    /\ run # None /\ Len(lineage) < MaxRecords
    /\ lineage' = Append(lineage, a)
    /\ UNCHANGED <<checkpoints, dlq, stream, run>>

(* mark_failed(), and enqueue() of the dead letter.                            *)
MarkFailed(reason) ==
    /\ run # None /\ stream.failed < MaxRecords /\ Len(dlq) < MaxRecords
    /\ stream' = [stream EXCEPT !.failed = @ + 1]
    /\ dlq' = Append(dlq, reason)
    /\ UNCHANGED <<checkpoints, lineage, run>>

Drain == dlq # <<>> /\ dlq' = <<>> /\ UNCHANGED <<checkpoints, lineage, stream, run>>

CompleteStep ==
    /\ run # None /\ run.step < Cardinality(Steps)
    /\ run' = [run EXCEPT !.step = @ + 1]
    /\ UNCHANGED <<checkpoints, dlq, lineage, stream>>

(* save_checkpoint() replaces the pipeline's checkpoint; clear() drops it.     *)
SaveCheckpoint(p) ==
    /\ run # None /\ p \in DOMAIN pipelines
    /\ checkpoints' = Put(checkpoints, p, run)
    /\ UNCHANGED <<dlq, lineage, stream, run>>

ClearCheckpoint(p) ==
    /\ p \in DOMAIN checkpoints
    /\ checkpoints' = [x \in DOMAIN checkpoints \ {p} |-> checkpoints[x]]
    /\ UNCHANGED <<dlq, lineage, stream, run>>

StartRun == run = None /\ run' = NewRun /\ UNCHANGED <<checkpoints, dlq, lineage, stream>>

CrashRun ==
    run # None /\ run' = None /\ stream' = NewStream /\ UNCHANGED <<checkpoints, dlq, lineage>>

ResumeFromCheckpoint(p) ==
    /\ run = None /\ p \in DOMAIN checkpoints \cap DOMAIN pipelines
    /\ run' = checkpoints[p]
    /\ UNCHANGED <<checkpoints, dlq, lineage, stream>>

RunNext ==
    /\ \/ \E t \in EventTimes : Advance(t)
       \/ \E a \in Artifacts : RecordLineage(a)
       \/ \E reason \in DeadLetterReason : MarkFailed(reason)
       \/ Drain \/ CompleteStep \/ StartRun \/ CrashRun
       \/ \E p \in PipelineIds : SaveCheckpoint(p) \/ ClearCheckpoint(p) \/ ResumeFromCheckpoint(p)
    /\ UNCHANGED <<edit_vars, tune_vars, catalog_vars>>

-------------------------------------------------------------------------------
(* PipelineOptimizer: a sample says whether throughput is below 500 records    *)
(* per second and whether latency is above 100 ms.                             *)
PipelineMetrics == [slow : BOOLEAN, late : BOOLEAN]

HalveAlways(c) == c.max_batch_size > 0

HalveAllowed(c) == c.max_batch_size > 100

Advise(sample, c) ==
    CASE sample # None /\ sample.slow /\ c.parallelism < 16 ->
            [batch_size_delta |-> 0, parallelism_delta |-> 2]
      [] sample # None /\ ~(sample.slow /\ c.parallelism < 16) /\ sample.late /\ HalveAllowed(c) ->
            [batch_size_delta |-> -(c.max_batch_size \div 2), parallelism_delta |-> 0]
      [] OTHER -> [batch_size_delta |-> 0, parallelism_delta |-> 0]

RecordSample(m) == last_sample' = m /\ UNCHANGED config

FollowAdvice ==
    LET a == Advise(last_sample, config) IN
    /\ config' = [max_batch_size |-> config.max_batch_size + a.batch_size_delta,
                  parallelism |-> config.parallelism + a.parallelism_delta]
    /\ UNCHANGED last_sample

TuneNext ==
    /\ (\E m \in PipelineMetrics : RecordSample(m)) \/ FollowAdvice
    /\ UNCHANGED <<edit_vars, run_vars, catalog_vars>>

-------------------------------------------------------------------------------
(* JSON values by kind, and the type that the code gives them.                 *)
JsonKind == {"string", "i64", "f64", "bool", "array", "object", "null"}

FromJson(v) ==
    CASE v = "string" -> "String" [] v = "i64" -> "Integer" [] v = "f64" -> "Float"
      [] v = "bool" -> "Boolean"  [] v = "array" -> "Array" [] v = "object" -> "Object"
      [] v = "null" -> "Null"

Records == UNION {[fs -> JsonKind] : fs \in SUBSET Fields}

FieldSchema == [field_type : {FromJson(v) : v \in JsonKind} \cup {"Unknown"}, nullable : BOOLEAN]

(* SchemaInferrer::infer(); a sample that is not an object has one field.      *)
InferNothingNullable(sample) ==
    [f \in DOMAIN sample |-> [field_type |-> FromJson(sample[f]), nullable |-> FALSE]]

Infer(sample) ==
    [f \in DOMAIN sample |-> [field_type |-> FromJson(sample[f]), nullable |-> sample[f] = "null"]]

(* SchemaValidator::validate(), for a record that is an object.                *)
Validate(record, schema) ==
    \A f \in DOMAIN schema :
        /\ f \in DOMAIN record
        /\ record[f] = "null" => schema[f].nullable
        /\ FromJson(record[f]) \in {"Null", schema[f].field_type}

RegisterSchema(i, schema) ==
    schemas' = Put(schemas, i, schema) /\ UNCHANGED <<connectors, templates>>

RegisterConnector(c) ==
    connectors' = connectors \cup {c} /\ UNCHANGED <<schemas, templates>>

RemoveConnector(c) ==
    c \in connectors /\ connectors' = connectors \ {c} /\ UNCHANGED <<schemas, templates>>

(* PipelineBuilderNode::for_kind(): how many ports a template has.             *)
ForKind(kind) ==
    [inputs  |-> IF kind = "Source" THEN 0 ELSE 1,
     outputs |-> CASE kind = "Sink" -> 0 [] kind \in {"Filter", "Validate"} -> 2 [] OTHER -> 1]

PipelineNodeKind == StepKind \cup {"Source", "Validate", "DeadLetterRouter", "Sink"}

(* PipelineBuilderRegistry::with_defaults().                                   *)
WithDefaults == [k \in PipelineNodeKind |-> ForKind(k)]

CatalogNext ==
    /\ \/ \E i \in SchemaIds, r \in Records : RegisterSchema(i, Infer(r))
       \/ \E c \in ConnectorIds : RegisterConnector(c) \/ RemoveConnector(c)
    /\ UNCHANGED <<edit_vars, run_vars, tune_vars>>

-------------------------------------------------------------------------------
Init ==
    /\ pipelines = <<>> /\ versions = [p \in PipelineIds |-> <<>>]
    /\ drafts = [e \in Editors |-> Free] /\ registered = {}
    /\ checkpoints = <<>> /\ dlq = <<>> /\ lineage = <<>> /\ run = None
    /\ stream = NewStream
    /\ config \in Configs /\ last_sample = None
    /\ schemas = <<>> /\ connectors = {}
    /\ templates = WithDefaults

Next == EditNext \/ RunNext \/ TuneNext \/ CatalogNext

Spec == Init /\ [][Next]_vars

-------------------------------------------------------------------------------
(* A definition that an update has put in the registry can be replayed: its    *)
(* version is saved before it becomes visible, whoever else is between the two *)
(* locks of update_pipeline(), and replay_version() finds that number.  (When  *)
(* two editors save the same number it finds the steps of the first.)          *)
CurrentIsSaved ==
    \A p \in DOMAIN pipelines : LET d == pipelines[p] IN
        \/ d \in registered
        \/ /\ \E i \in DOMAIN versions[p] : versions[p][i] = Capture(d)
           /\ "steps" \in DOMAIN ReplayVersion(p, d.version)

(* Nothing but objects is of the shape that was inferred: an inferred schema   *)
(* accepts its own sample, and accepts another record only if that has every   *)
(* field with the same type, or null where the sample had null.                *)
InferredAccepts ==
    \A i \in DOMAIN schemas : \E sample \in Records :
        /\ schemas[i] = Infer(sample) /\ Validate(sample, schemas[i])
        /\ \A r \in Records : Validate(r, schemas[i]) <=> \A f \in DOMAIN sample :
              f \in DOMAIN r /\ FromJson(r[f]) = FromJson(sample[f])

(* A client that keeps following the advice stays within the range that the    *)
(* thresholds of advise() draw: the batch is not halved away.                  *)
AdviceBounded ==
    /\ config.parallelism <= 17 \/ \E c \in Configs : config.parallelism = c.parallelism
    /\ config.max_batch_size > 50 \/ \E c \in Configs : config.max_batch_size = c.max_batch_size
=================================================================================
