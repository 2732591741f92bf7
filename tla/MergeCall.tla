------------------------------- MODULE MergeCall -------------------------------
(***************************************************************************)
(* One call of merge_delta_table, by the names of the columns it handles:  *)
(* which parameters and configurations it lets in, what its schema checks  *)
(* compare, which columns it generates, and which of them each strategy    *)
(* writes.  No data is modelled: a row is known by where each column's     *)
(* value comes from.                                                       *)
(***************************************************************************)
EXTENDS Integers, FiniteSets

CONSTANTS
  Calls,      \* the arguments merge_delta_table is called with
  Sources,    \* the schemas of df, functions from names to types
  Tables,     \* the target: [exists, empty, schema]
  SkNames     \* the names that start with sk_

VARIABLES
  call, source, table,
  pc,         \* the step reached
  df,         \* the working DataFrame: column -> [from, type]
  row,        \* where each column of an inserted row comes from, once committed
  recorded    \* scd4: the history append is committed

vars == <<call, source, table, pc, df, row, recorded>>

Origins == {"source", "checksum", "sk", "control", "part", "previous", "flag", "null"}
DataTypes == {"string", "number"}

\* The parameters of merge_delta_table and the attributes of a scd_config.
Arguments ==
  {"type", "typed", "renamed", "ids", "tracked", "protected", "previous", "history",
   "columns", "skType", "skName", "partFrom", "part", "ignored", "filter", "cdc"}

ASSUME CallsAssumption == \A c \in Calls : DOMAIN c = Arguments
ASSUME SchemasAssumption ==
  /\ \A S \in Sources : \A x \in DOMAIN S : S[x] \in DataTypes
  /\ \A T \in Tables : \A x \in DOMAIN T.schema : T.schema[x] \in DataTypes

ScdTypes == {"scd0", "scd1", "scd1_delete", "scd2", "scd2_no_delete", "scd2_cdc",
             "scd3", "scd4", "scd6"}
Overwrites == {"overwrite", "overwrite-partition"}

\* normalize_merge_type: the legacy names.
Canonical(t) ==
  CASE t = "scd"           -> "scd2"
    [] t = "scd_no_delete" -> "scd2_no_delete"
    [] t = "upsert"        -> "scd1"
    [] t = "upsert-delete" -> "scd1_delete"
    [] OTHER               -> t
Type == Canonical(call.type)

Checksummed == {"scd2", "scd2_no_delete", "scd2_cdc", "scd4", "scd6"}
Versioned   == {"scd2", "scd2_no_delete", "scd6"}

\* SCDColumns: the four control columns.
Controls(k) == {k.start, k.end, k.current, k.checksum}
ValuesOf(f) == {f[x] : x \in DOMAIN f}

\* A call without scd_config gets one with nothing but ids, ignored columns and
\* control columns in it (SCDConfig.from_legacy), or none, for the overwrites.
Config ==
  IF call.typed THEN call
  ELSE [call EXCEPT !.tracked = {}, !.protected = {}, !.previous = <<>>, !.history = FALSE,
                    !.cdc = "timestamp_dms"]

Prev == Config.previous

(***************************************************************************)
(* Admission: SCDColumns, SCDConfig and the parameters.                    *)
(***************************************************************************)
ColumnsValid(k) == "" \notin Controls(k) /\ Cardinality(Controls(k)) = 4

\* SCDConfig.validate
ConfigValid(c) ==
  /\ c.ids # {} /\ "" \notin c.ids \cup c.protected \cup c.tracked
  /\ Canonical(c.type) = "scd4" => c.history
  /\ Canonical(c.type) \in {"scd3", "scd6"} => c.previous # <<>>
  /\ Canonical(c.type) = "scd0" => c.protected \cup c.tracked # {}
  /\ Canonical(c.type) = "scd2_cdc" => c.cdc # ""
  /\ Controls(c.columns) \cap (c.ids \cup DOMAIN c.previous \cup ValuesOf(c.previous)) = {}
  /\ c.ids \cap (DOMAIN c.previous \cup ValuesOf(c.previous)) = {}

ParametersValid ==
  /\ ~ (call.typed /\ call.renamed)
  /\ Type \in ScdTypes \cup (IF call.typed THEN {} ELSE Overwrites)
  /\ Type \in ScdTypes => ConfigValid(Config)
  /\ call.skType \in {"dim", "fact", ""} /\ (call.skType = "" <=> call.skName = "")
  /\ Type \in {"scd2", "scd2_no_delete"} => call.ignored = {}
  /\ Type = "scd2" => call.filter = ""

Init ==
  /\ call \in Calls /\ source \in Sources /\ table \in Tables
  /\ pc = "parameters"
  /\ df = [x \in DOMAIN source |-> [from |-> "source", type |-> source[x]]]
  /\ row = <<>>
  /\ recorded = FALSE

\* A step that goes on to the next one, or raises.
Checks(here, passes, next) ==
  /\ pc = here
  /\ pc' = IF passes THEN next ELSE "refused"
  /\ UNCHANGED <<call, source, table, row, recorded>>

CheckParameters ==
  Checks("parameters", ColumnsValid(call.columns) /\ ParametersValid, "table") /\ UNCHANGED df

CheckTable == Checks("table", table.exists, "filter") /\ UNCHANGED df

Has(D, C) == C \subseteq DOMAIN D

\* Step 2 reads the watermark from the target, and the column from df if there is one.
FilterRows ==
  /\ Checks("filter", call.filter # "" => Has(table.schema, {call.filter})
                                            /\ (table.empty \/ Has(df, {call.filter})),
            "duplicates")
  /\ UNCHANGED df

CheckDuplicates == Checks("duplicates", Has(df, call.ids), "schema") /\ UNCHANGED df

\* What column_check leaves out of the target's columns.
Unchecked ==
  Controls(call.columns)
    \cup {call.skName}
    \cup (IF call.partFrom # "" THEN {call.part} ELSE {})
    \cup ((SkNames \cap DOMAIN table.schema) \ DOMAIN source)
    \cup ValuesOf(Prev)

\* Mutant: what is left out of the target is left out of the source too.
SameColumnsBoth(S, T) ==
  /\ DOMAIN S \ Unchecked = DOMAIN T \ Unchecked
  /\ \A x \in DOMAIN S \ Unchecked : S[x] = T[x]

\* column_check: the same names, with the same types.
SameColumns(S, T) ==
  /\ DOMAIN S = DOMAIN T \ Unchecked
  /\ \A x \in DOMAIN S : S[x] = T[x]

CheckColumns == Checks("schema", SameColumns(source, table.schema), "checksum") /\ UNCHANGED df

(***************************************************************************)
(* The generated columns.                                                  *)
(***************************************************************************)
\* Mutant: the hash is not cast to a string.
WithBinary(D, C, o) ==
  [x \in DOMAIN D \cup C |-> IF x \in C THEN [from |-> o, type |-> "binary"] ELSE D[x]]

\* withColumn: a column of the name is replaced.
With(D, C, o) ==
  [x \in DOMAIN D \cup C |-> IF x \in C THEN [from |-> o, type |-> "string"] ELSE D[x]]

GenerateChecksum ==
  /\ Checks("checksum", Type \in Checksummed => Has(df, Config.tracked), "sk")
  /\ df' = IF Type \in Checksummed /\ Has(df, Config.tracked)
             THEN With(df, {call.columns.checksum}, "checksum") ELSE df

\* A dimension's key is hashed from the checksum.
SkNeeds == IF call.skType = "dim" THEN call.ids \cup {call.columns.checksum} ELSE call.ids

GenerateSk ==
  /\ Checks("sk", call.skName # "" => Has(df, SkNeeds), "convert")
  /\ df' = IF call.skName # "" /\ Has(df, SkNeeds) THEN With(df, {call.skName}, "sk") ELSE df

\* _convert_columns: a hash read as a number is NULL, a fact's key is one.
Converted(x) ==
  [from |-> IF df[x].from = "source" \/ df[x].type = table.schema[x] \/ call.skType = "fact"
              THEN df[x].from ELSE "null",
   type |-> table.schema[x]]
ConvertColumns ==
  /\ Checks("convert", TRUE, "source")
  /\ df' = [x \in DOMAIN df |->
              IF x \in DOMAIN table.schema \ (Controls(call.columns) \cup SkNames)
                THEN Converted(x) ELSE df[x]]

(***************************************************************************)
(* The strategies: which columns they need, and what an inserted row has.  *)
(***************************************************************************)
\* validate_scd_target_columns
TargetValid ==
  call.ids \cup (IF Type = "scd6" THEN Controls(call.columns) ELSE {})
      \cup DOMAIN Prev \cup ValuesOf(Prev) \subseteq DOMAIN table.schema

\* Mutant: only the ids are looked for.
SourceValidIds == Has(df, call.ids)

\* validate_scd_source_columns
SourceValid ==
  Has(df, call.ids \cup Config.tracked \cup Config.protected
            \cup (IF Type \in {"scd3", "scd6"} THEN DOMAIN Prev ELSE {})
            \cup (IF Type = "scd2_cdc" THEN {Config.cdc} ELSE {}))

\* The names scd2_batch stages its keys under; calls have one id or two.
Staging == {"merge_key"} \cup {<<"merge_key1", "merge_key2">>[i] : i \in 1 .. Cardinality(call.ids)}

\* scd3 and scd6 add the previous columns.
Enriched ==
  IF Type \in {"scd3", "scd6"} THEN With(df, ValuesOf(Prev) \ DOMAIN df, "previous") ELSE df

\* The initial load of scd6 is not partitioned.
Parted == call.partFrom # "" /\ ~ (Type = "scd6" /\ table.empty)

\* scd2_batch: what it first writes, or stages.
Stamped(D) == With(D, Controls(call.columns) \ {call.columns.checksum}, "control")
Version(D) == IF Parted THEN With(Stamped(D), {call.part}, "part") ELSE Stamped(D)

\* The columns of an inserted row.
Offered ==
  CASE Type \in Versioned    -> Version(Enriched)
    [] Type = "scd1_delete"  -> With(df, {"deleted"}, "flag")
    [] OTHER                 -> Enriched

\* scd1 and scd1_delete of a fact table compare its surrogate key.
MergeIds ==
  IF call.skType = "fact" /\ Type \in {"scd1", "scd1_delete"} THEN {call.skName} ELSE call.ids

\* insertAll needs every column of the target, an update only its own.
UpsertFits ==
  /\ Has(Offered, DOMAIN table.schema)
  /\ Has(table.schema, MergeIds \cup (DOMAIN df \ call.ignored))
  /\ Type = "scd1_delete" => Has(table.schema, DOMAIN df)

BatchFits ==
  /\ Staging \cap DOMAIN Enriched = {}
  /\ Parted => Has(Stamped(Enriched), {call.partFrom})
  /\ Has(table.schema, DOMAIN Offered)
  /\ ~ table.empty =>
       /\ Has(table.schema, Controls(call.columns))
       /\ table.schema[call.columns.checksum] = "string"
       /\ table.schema[call.columns.current] = "number"

\* The columns scd0 compares.
Compared == IF Config.protected # {} THEN Config.protected ELSE Config.tracked

\* Whether every column the strategy names resolves.
Mergeable ==
  CASE Type = "scd0"           -> Has(df, DOMAIN table.schema \cup Compared) /\ Has(table.schema, Compared)
    [] Type \in {"scd1", "scd1_delete", "scd4"} -> UpsertFits
    [] Type \in {"scd2", "scd2_no_delete"}      -> BatchFits
    [] Type = "scd3"           -> TargetValid /\ Has(table.schema, DOMAIN Offered)
    [] Type = "scd6"           -> /\ TargetValid /\ BatchFits
                                  /\ table.empty \/ ValuesOf(Prev) \cap DOMAIN df = {}
    [] Type \in Overwrites     -> Has(table.schema, DOMAIN df)
    [] OTHER                   -> FALSE    \* scd2_cdc

CheckSource ==
  /\ Checks("source", Type \in ScdTypes => SourceValid, IF Type = "scd4" THEN "append" ELSE "merge")
  /\ UNCHANGED df

\* scd4: the history takes any columns.
AppendHistory ==
  /\ pc = "append"
  /\ pc' = "merge"
  /\ recorded' = TRUE
  /\ UNCHANGED <<call, source, table, df, row>>

\* A column that is not offered is NULL, where the strategy may leave one out.
Merge ==
  /\ pc = "merge"
  /\ IF Mergeable
       THEN /\ row' = [x \in DOMAIN table.schema |->
                         IF x \in DOMAIN Offered THEN Offered[x].from ELSE "null"]
            /\ pc' = "validate"
       ELSE pc' = "failed" /\ UNCHANGED row
  /\ UNCHANGED <<call, source, table, df, recorded>>

\* The columns step 10 reads.
Validate ==
  /\ pc = "validate"
  /\ pc' = IF Has(row, call.ids \cup (IF Type \in Versioned
                                        THEN {call.columns.current, call.columns.end} ELSE {}))
             THEN "done" ELSE "failed"
  /\ UNCHANGED <<call, source, table, df, row, recorded>>

Next ==
  \/ CheckParameters \/ CheckTable \/ FilterRows \/ CheckDuplicates \/ CheckColumns
  \/ GenerateChecksum \/ GenerateSk \/ ConvertColumns \/ CheckSource
  \/ AppendHistory \/ Merge \/ Validate

Spec == Init /\ [][Next]_vars

(***************************************************************************)
(* Properties.                                                             *)
(***************************************************************************)
\* Every variable has its type.
TypeOK ==
  /\ pc \in {"parameters", "table", "filter", "duplicates", "schema", "checksum", "sk",
             "convert", "source", "append", "merge", "validate", "done", "refused", "failed"}
  /\ \A x \in DOMAIN df : df[x].from \in Origins /\ df[x].type \in DataTypes
  /\ \A x \in DOMAIN row : row[x] \in Origins
  /\ recorded \in BOOLEAN

\* What a call generates, and the target has beside the source's columns: pairs of
\* a name and what is to be found under it.
Generated ==
  ({call.skName} \ {""}) \X {"sk"}
    \cup (IF Type \in Checksummed THEN {<<call.columns.checksum, "checksum">>} ELSE {})
    \cup (IF Type \in Versioned
            THEN {call.columns.start, call.columns.end, call.columns.current} \X {"control"}
            ELSE {})
    \cup (IF Type \in Versioned /\ call.partFrom # "" THEN {<<call.part, "part">>} ELSE {})
    \cup (IF Type \in {"scd3", "scd6"} THEN ValuesOf(Prev) \X {"previous"} ELSE {})
GeneratedNames == {g[1] : g \in Generated}

\* A dimension's key under a name without sk_, in a column of numbers, is NULL; so
\* is the partition column on the initial load of scd6.
Lost(x) ==
  \/ x = call.skName /\ x \notin SkNames /\ table.schema[x] = "number"
  \/ Type = "scd6" /\ table.empty /\ call.partFrom # "" /\ x = call.part

\* What a committed call inserts into a column is what its name promises: the
\* source's value if the source has one, however many columns were generated on
\* the way; what the call generates under that name; and a NULL only in a column
\* that column_check leaves out and this call does not generate, as the surrogate
\* key of a table when a call forgets sk_name.  The flag of scd1_delete takes the
\* place of a source column of that name.
Provenance ==
  LET Flags == IF Type = "scd1_delete" THEN {"deleted"} ELSE {} IN
  /\ \A x \in Flags \cap DOMAIN row : row[x] = "flag"
  /\ \A x \in DOMAIN row \ Flags :
       /\ x \in DOMAIN source  => row[x] = "source"
       /\ x \in GeneratedNames => <<x, row[x]>> \in Generated \/ (row[x] = "null" /\ Lost(x))
       /\ x \notin DOMAIN source \cup GeneratedNames => row[x] = "null" /\ x \in Unchecked

\* What the checks let pass, the merge can do: on a target with just the columns of
\* the source and those the call generates, no strategy fails for a column once
\* step 8 is past, and none ever does after its commit.  The first commit of scd4
\* is left without the second only if the target lacks a generated column, or has
\* one too many.  What no check asks for: the staging names of scd2_batch, the
\* column a partition is made of, the types of the control columns, and an sk_name
\* that is a previous column.
AdmittedMerges ==
  pc = "failed" =>
    /\ row = <<>>
    /\ \/ Type = "scd2_cdc"
       \/ DOMAIN table.schema # DOMAIN source \cup GeneratedNames
       \/ Type \in Versioned /\
            \/ Staging \cap DOMAIN Enriched # {}
            \/ call.partFrom \notin DOMAIN df \cup {""}
            \/ table.schema[call.columns.checksum] # "string"
            \/ table.schema[call.columns.current] # "number"
            \/ call.skName \in ValuesOf(Prev)
=============================================================================
