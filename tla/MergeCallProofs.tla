---------------------------- MODULE MergeCallProofs ----------------------------
(***************************************************************************)
(* Proofs about MergeCall: the types, where the columns of an inserted row *)
(* come from, and that what the checks admit can be merged, for all calls, *)
(* schemas and tables.                                                     *)
(***************************************************************************)
EXTENDS MergeCall, TLAPS

(***************************************************************************)
(* The invariant: where the columns of df come from at each step, which    *)
(* checks the call is past, and what it has committed.                     *)
(***************************************************************************)
Cast     == {"source", "append", "merge", "validate", "done", "failed"}
Keyed    == {"convert"} \cup Cast
Hashed   == {"sk"} \cup Keyed
Matched  == {"checksum"} \cup Hashed       \* past step 3, column_check
Steps == {"parameters", "table", "filter", "duplicates", "schema", "refused"} \cup Matched

TypeInv ==
  /\ call \in Calls /\ source \in Sources /\ table \in Tables
  /\ pc \in Steps /\ recorded \in BOOLEAN

\* Every column of df has an origin and a type.
FrameTyped == \A x \in DOMAIN df : df[x].from \in Origins /\ df[x].type \in DataTypes

\* The names that steps 6 and 7 write.
HashNames == IF Type \in Checksummed THEN {call.columns.checksum} ELSE {}
KeyNames  == {call.skName} \ {""}

\* A key that step 7 cast to a number.
Nulled(x) == df[x].from = "null" /\ x \notin SkNames /\ table.schema[x] = "number"

\* df has the columns of the source, under those in C of the checksum, under
\* those in K of the surrogate key.
Holds(C, K) ==
  /\ DOMAIN df = DOMAIN source \cup C \cup K
  /\ \A x \in DOMAIN df :
       /\ x \in K => (df[x].from = "sk" /\ df[x].type = "string") \/ (pc \in Cast /\ (df[x].from = "sk" \/ Nulled(x)))
       /\ x \in C \ K => df[x].from = "checksum"
       /\ x \notin C \cup K => df[x].from = "source"

FrameInv ==
  /\ pc \in Steps \ ({"refused"} \cup Hashed) => Holds({}, {})
  /\ pc = "sk" => Holds(HashNames, {})
  /\ pc \in Keyed => Holds(HashNames, KeyNames)

\* The checks a call is past have let it in.
AdmitInv ==
  /\ pc \in Steps \ {"parameters", "refused"} => ColumnsValid(call.columns) /\ ParametersValid
  /\ pc \in {"schema"} \cup Matched => call.ids \subseteq DOMAIN source
  /\ pc \in Matched => SameColumns(source, table.schema)
  /\ pc \in Cast \ {"source"} => (Type \in ScdTypes => SourceValid)

\* The row that Merge inserts.
Inserted ==
  [x \in DOMAIN table.schema |-> IF x \in DOMAIN Offered THEN Offered[x].from ELSE "null"]

RowInv ==
  /\ pc \in Steps \ {"validate", "done"} => row = <<>>
  /\ pc \in {"validate", "done"} => Mergeable /\ row = Inserted
  /\ pc = "failed" => ~ Mergeable

Inv == TypeInv /\ FrameTyped /\ FrameInv /\ AdmitInv /\ RowInv

(***************************************************************************)
(* Lemmas about the configuration and the columns.                         *)
(***************************************************************************)
\* Without a scd_config, the one that is built has the ids and columns of the call.
LEMMA ConfigKeeps ==
  ASSUME call \in Calls
  PROVE  Config.ids = call.ids /\ Config.columns = call.columns /\ Config.type = call.type
<1>1. DOMAIN call = Arguments
  BY CallsAssumption
<1> QED  BY <1>1 DEF Config, Arguments

\* A source that column_check let pass has no column of a generated name.
LEMMA SourceApart ==
  ASSUME SameColumns(source, table.schema)
  PROVE  /\ DOMAIN source \cap Unchecked = {}
         /\ DOMAIN table.schema \subseteq DOMAIN source \cup Unchecked
         /\ DOMAIN source \subseteq DOMAIN table.schema
  BY DEF SameColumns

\* An admitted configuration keeps the previous columns off the control columns.
LEMMA PreviousApart ==
  ASSUME TypeInv, ParametersValid, Type \in ScdTypes
  PROVE  Controls(call.columns) \cap ValuesOf(Prev) = {}
<1>1. ConfigValid(Config)
  BY DEF ParametersValid
<1>2. Config.columns = call.columns
  BY ConfigKeeps DEF TypeInv
<1> QED  BY <1>1, <1>2 DEF ConfigValid, Prev

(***************************************************************************)
(* The initial states and the steps that only check.                       *)
(***************************************************************************)
LEMMA InitInv == Init => Inv
<1> SUFFICES ASSUME Init PROVE Inv
  OBVIOUS
<1>1. TypeInv
  BY DEF Init, TypeInv, Steps
<1>2. FrameTyped
  BY SchemasAssumption DEF Init, FrameTyped, Origins
<1>3. FrameInv
  BY DEF Init, FrameInv, Holds, Hashed, Keyed, Cast
<1>4. AdmitInv
  BY DEF Init, AdmitInv, Matched, Hashed, Keyed, Cast
<1>5. RowInv
  BY DEF Init, RowInv
<1> QED  BY <1>1, <1>2, <1>3, <1>4, <1>5 DEF Inv

\* What a check reads of a call does not change after step 1, and with df
\* unchanged neither does what the steps derive from it.
LEMMA Frozen ==
  ASSUME UNCHANGED <<call, source, table>>
  PROVE  /\ ColumnsValid(call.columns)' = ColumnsValid(call.columns)
         /\ ParametersValid' = ParametersValid
         /\ Type' = Type /\ Config' = Config /\ Prev' = Prev
         /\ Unchecked' = Unchecked
         /\ SameColumns(source, table.schema)' = SameColumns(source, table.schema)
         /\ HashNames' = HashNames /\ KeyNames' = KeyNames
<1>1. Type' = Type
  BY DEF Type
<1>2. Config' = Config /\ Prev' = Prev
  BY DEF Config, Prev
<1>3. ColumnsValid(call.columns)' = ColumnsValid(call.columns)
  BY DEF ColumnsValid
<1>4. ParametersValid' = ParametersValid
  BY <1>1, <1>2 DEF ParametersValid, ConfigValid, ColumnsValid
<1>5. Unchecked' = Unchecked
  BY <1>2 DEF Unchecked
<1>6. SameColumns(source, table.schema)' = SameColumns(source, table.schema)
  BY <1>5 DEF SameColumns
<1>7. HashNames' = HashNames /\ KeyNames' = KeyNames
  BY <1>1 DEF HashNames, KeyNames
<1> QED  BY <1>1, <1>2, <1>3, <1>4, <1>5, <1>6, <1>7

LEMMA FrozenFrame ==
  ASSUME UNCHANGED <<call, source, table, df>>
  PROVE  /\ SourceValid' = SourceValid
         /\ Mergeable' = Mergeable
         /\ Offered' = Offered
         /\ Inserted' = Inserted
<1>1. Type' = Type /\ Config' = Config /\ Prev' = Prev
  BY Frozen
<1>2. SourceValid' = SourceValid
  BY <1>1 DEF SourceValid, Has
<1>3. Enriched' = Enriched
  BY <1>1 DEF Enriched
<1>4. Parted' = Parted
  BY <1>1 DEF Parted
<1>5. Version(Enriched)' = Version(Enriched)
  BY <1>3, <1>4 DEF Version, Stamped
<1>6. Offered' = Offered
  BY <1>1, <1>3, <1>5 DEF Offered
<1>7. Inserted' = Inserted
  BY <1>6 DEF Inserted
<1>8. TargetValid' = TargetValid
  BY <1>1 DEF TargetValid
<1>9. UpsertFits' = UpsertFits
  <2>1. MergeIds' = MergeIds
    BY <1>1 DEF MergeIds
  <2> QED  BY <1>1, <1>6, <2>1 DEF UpsertFits, Has
<1>10. BatchFits' = BatchFits
  <2>1. Staging' = Staging
    BY DEF Staging
  <2>2. Stamped(Enriched)' = Stamped(Enriched)
    BY <1>3 DEF Stamped
  <2> QED  BY <1>3, <1>4, <1>6, <2>1, <2>2 DEF BatchFits, Has
<1>11. Compared' = Compared
  BY <1>1 DEF Compared
<1>12. Mergeable' = Mergeable
  BY <1>1, <1>6, <1>8, <1>9, <1>10, <1>11 DEF Mergeable, Has
<1> QED  BY <1>2, <1>6, <1>7, <1>12

\* A step that leaves call, df and row alone and stays on the same side of the
\* steps that write df.
LEMMA CheckFrame ==
  ASSUME Inv, UNCHANGED <<call, source, table, df>>,
         \/ pc' = "refused"
         \/ (pc \in Cast /\ pc' \in Cast)
         \/ {pc, pc'} \subseteq Steps \ ({"refused"} \cup Hashed)
  PROVE  FrameTyped' /\ FrameInv'
<1>1. FrameTyped'
  BY DEF Inv, FrameTyped
<1>2. HashNames' = HashNames /\ KeyNames' = KeyNames
  BY Frozen
<1>3. CASE pc' = "refused"
  BY <1>1, <1>3 DEF FrameInv, Hashed, Keyed, Cast
<1>4. CASE pc \in Cast /\ pc' \in Cast
  <2>1. Holds(HashNames, KeyNames)
    BY <1>4 DEF Inv, FrameInv, Keyed
  <2>2. Holds(HashNames, KeyNames)'
    BY <1>2, <1>4, <2>1 DEF Holds, Nulled
  <2> QED  BY <1>1, <1>4, <2>2 DEF FrameInv, Cast, Hashed, Keyed
<1>5. CASE {pc, pc'} \subseteq Steps \ ({"refused"} \cup Hashed)
  <2>1. Holds({}, {})
    BY <1>5 DEF Inv, FrameInv
  <2>2. Holds({}, {})'
    BY <2>1 DEF Holds, Nulled
  <2> QED  BY <1>1, <1>5, <2>2 DEF FrameInv, Cast, Hashed, Keyed
<1> QED  BY <1>3, <1>4, <1>5

LEMMA StepCheckParameters == Inv /\ CheckParameters => Inv'
<1> SUFFICES ASSUME Inv, CheckParameters PROVE Inv'
  OBVIOUS
<1> USE DEF CheckParameters, Checks
<1>1. TypeInv'
  BY DEF Inv, TypeInv, Steps
<1>2. FrameTyped' /\ FrameInv'
  <2>1. UNCHANGED <<call, source, table, df>>
    OBVIOUS
  <2>2. pc' = "refused" \/ {pc, pc'} \subseteq Steps \ ({"refused"} \cup Hashed)
    BY DEF Steps, Hashed, Keyed, Cast, Matched
  <2> QED  BY <2>1, <2>2, CheckFrame
<1>3. AdmitInv'
  BY Frozen DEF AdmitInv, Matched, Hashed, Keyed, Cast
<1>4. RowInv'
  BY DEF Inv, RowInv, Steps
<1> QED  BY <1>1, <1>2, <1>3, <1>4 DEF Inv

LEMMA StepCheckTable == Inv /\ CheckTable => Inv'
<1> SUFFICES ASSUME Inv, CheckTable PROVE Inv'
  OBVIOUS
<1> USE DEF CheckTable, Checks
<1>1. TypeInv'
  BY DEF Inv, TypeInv, Steps
<1>2. FrameTyped' /\ FrameInv'
  <2>1. UNCHANGED <<call, source, table, df>>
    OBVIOUS
  <2>2. pc' = "refused" \/ {pc, pc'} \subseteq Steps \ ({"refused"} \cup Hashed)
    BY DEF Steps, Hashed, Keyed, Cast, Matched
  <2> QED  BY <2>1, <2>2, CheckFrame
<1>3. AdmitInv'
  BY Frozen DEF Inv, AdmitInv, Steps, Matched, Hashed, Keyed, Cast
<1>4. RowInv'
  BY DEF Inv, RowInv, Steps
<1> QED  BY <1>1, <1>2, <1>3, <1>4 DEF Inv

LEMMA StepFilterRows == Inv /\ FilterRows => Inv'
<1> SUFFICES ASSUME Inv, FilterRows PROVE Inv'
  OBVIOUS
<1> USE DEF FilterRows, Checks
<1>1. TypeInv'
  BY DEF Inv, TypeInv, Steps
<1>2. FrameTyped' /\ FrameInv'
  <2>1. UNCHANGED <<call, source, table, df>>
    OBVIOUS
  <2>2. pc' = "refused" \/ {pc, pc'} \subseteq Steps \ ({"refused"} \cup Hashed)
    BY DEF Steps, Hashed, Keyed, Cast, Matched
  <2> QED  BY <2>1, <2>2, CheckFrame
<1>3. AdmitInv'
  BY Frozen DEF Inv, AdmitInv, Steps, Matched, Hashed, Keyed, Cast
<1>4. RowInv'
  BY DEF Inv, RowInv, Steps
<1> QED  BY <1>1, <1>2, <1>3, <1>4 DEF Inv

\* The ids are looked for in df while it is still the source.
LEMMA StepCheckDuplicates == Inv /\ CheckDuplicates => Inv'
<1> SUFFICES ASSUME Inv, CheckDuplicates PROVE Inv'
  OBVIOUS
<1> USE DEF CheckDuplicates, Checks
<1>1. TypeInv'
  BY DEF Inv, TypeInv, Steps
<1>2. FrameTyped' /\ FrameInv'
  <2>1. UNCHANGED <<call, source, table, df>>
    OBVIOUS
  <2>2. pc' = "refused" \/ {pc, pc'} \subseteq Steps \ ({"refused"} \cup Hashed)
    BY DEF Steps, Hashed, Keyed, Cast, Matched
  <2> QED  BY <2>1, <2>2, CheckFrame
<1>3. AdmitInv'
  <2>1. DOMAIN df = DOMAIN source
    BY DEF Inv, FrameInv, Holds, Steps, Hashed, Keyed, Cast
  <2>2. pc' # "refused" => call.ids \subseteq DOMAIN source
    BY <2>1 DEF Has
  <2> QED  BY <2>2, Frozen DEF Inv, AdmitInv, Steps, Matched, Hashed, Keyed, Cast
<1>4. RowInv'
  BY DEF Inv, RowInv, Steps
<1> QED  BY <1>1, <1>2, <1>3, <1>4 DEF Inv

LEMMA StepCheckColumns == Inv /\ CheckColumns => Inv'
<1> SUFFICES ASSUME Inv, CheckColumns PROVE Inv'
  OBVIOUS
<1> USE DEF CheckColumns, Checks
<1>1. TypeInv'
  BY DEF Inv, TypeInv, Steps, Matched
<1>2. FrameTyped' /\ FrameInv'
  <2>1. UNCHANGED <<call, source, table, df>>
    OBVIOUS
  <2>2. pc' = "refused" \/ {pc, pc'} \subseteq Steps \ ({"refused"} \cup Hashed)
    BY DEF Steps, Matched, Hashed, Keyed, Cast
  <2> QED  BY <2>1, <2>2, CheckFrame
<1>3. AdmitInv'
  BY Frozen DEF Inv, AdmitInv, Steps, Matched, Hashed, Keyed, Cast
<1>4. RowInv'
  BY DEF Inv, RowInv, Steps
<1> QED  BY <1>1, <1>2, <1>3, <1>4 DEF Inv

LEMMA StepCheckSource == Inv /\ CheckSource => Inv'
<1> SUFFICES ASSUME Inv, CheckSource PROVE Inv'
  OBVIOUS
<1> USE DEF CheckSource, Checks
<1>1. TypeInv'
  BY DEF Inv, TypeInv, Steps, Matched, Hashed, Keyed, Cast
<1>2. FrameTyped' /\ FrameInv'
  <2>1. UNCHANGED <<call, source, table, df>>
    OBVIOUS
  <2>2. pc' = "refused" \/ (pc \in Cast /\ pc' \in Cast)
    BY DEF Cast
  <2> QED  BY <2>1, <2>2, CheckFrame
<1>3. AdmitInv'
  BY Frozen, FrozenFrame DEF Inv, AdmitInv, Steps, Matched, Hashed, Keyed, Cast
<1>4. RowInv'
  BY DEF Inv, RowInv, Steps, Matched, Hashed, Keyed, Cast
<1> QED  BY <1>1, <1>2, <1>3, <1>4 DEF Inv

LEMMA StepAppendHistory == Inv /\ AppendHistory => Inv'
<1> SUFFICES ASSUME Inv, AppendHistory PROVE Inv'
  OBVIOUS
<1> USE DEF AppendHistory
<1>1. TypeInv'
  BY DEF Inv, TypeInv, Steps, Matched, Hashed, Keyed, Cast
<1>2. FrameTyped' /\ FrameInv'
  <2>1. UNCHANGED <<call, source, table, df>>
    OBVIOUS
  <2>2. pc' = "refused" \/ (pc \in Cast /\ pc' \in Cast)
    BY DEF Cast
  <2> QED  BY <2>1, <2>2, CheckFrame
<1>3. AdmitInv'
  BY Frozen, FrozenFrame DEF Inv, AdmitInv, Steps, Matched, Hashed, Keyed, Cast
<1>4. RowInv'
  BY DEF Inv, RowInv, Steps, Matched, Hashed, Keyed, Cast
<1> QED  BY <1>1, <1>2, <1>3, <1>4 DEF Inv

(***************************************************************************)
(* The steps that write columns.                                           *)
(***************************************************************************)
LEMMA WithTyped ==
  ASSUME NEW D, NEW C, NEW o \in Origins,
         \A x \in DOMAIN D : D[x].from \in Origins /\ D[x].type \in DataTypes
  PROVE  \A x \in DOMAIN With(D, C, o) :
           With(D, C, o)[x].from \in Origins /\ With(D, C, o)[x].type \in DataTypes
  BY DEF With, DataTypes

LEMMA StepGenerateChecksum == Inv /\ GenerateChecksum => Inv'
<1> SUFFICES ASSUME Inv, GenerateChecksum PROVE Inv'
  OBVIOUS
<1> USE DEF GenerateChecksum, Checks
<1>1. TypeInv'
  BY DEF Inv, TypeInv, Steps, Matched, Hashed, Keyed, Cast
<1>2. FrameTyped'
  <2>1. df' = df \/ df' = With(df, {call.columns.checksum}, "checksum")
    OBVIOUS
  <2>2. \A x \in DOMAIN With(df, {call.columns.checksum}, "checksum") :
          /\ With(df, {call.columns.checksum}, "checksum")[x].from \in Origins
          /\ With(df, {call.columns.checksum}, "checksum")[x].type \in DataTypes
    BY WithTyped DEF Inv, FrameTyped, Origins
  <2> QED  BY <2>1, <2>2 DEF Inv, FrameTyped
<1>3. FrameInv'
  <2>1. Holds({}, {})
    BY DEF Inv, FrameInv, Steps, Matched, Hashed, Keyed, Cast
  <2>2. HashNames' = HashNames
    BY Frozen
  <2>3. CASE pc' = "sk" /\ Type \in Checksummed
    <3>1. df' = With(df, HashNames, "checksum")
      BY <2>3 DEF HashNames
    <3>2. DOMAIN df' = DOMAIN df \cup HashNames
      BY <3>1 DEF With
    <3>3. \A x \in HashNames : df'[x].from = "checksum"
      BY <3>1 DEF With
    <3>4. \A x \in DOMAIN df \ HashNames : df'[x] = df[x]
      BY <3>1 DEF With
    <3>5. Holds(HashNames, {})'
      BY <2>1, <2>2, <3>2, <3>3, <3>4 DEF Holds
    <3> QED  BY <2>3, <3>5 DEF FrameInv, Hashed, Keyed, Cast
  <2>4. CASE pc' = "sk" /\ Type \notin Checksummed
    <3>1. df' = df /\ HashNames = {}
      BY <2>4 DEF HashNames
    <3>2. Holds(HashNames, {})'
      BY <2>1, <2>2, <3>1 DEF Holds
    <3> QED  BY <2>4, <3>2 DEF FrameInv, Hashed, Keyed, Cast
  <2>5. CASE pc' = "refused"
    BY <2>5 DEF FrameInv, Hashed, Keyed, Cast
  <2> QED  BY <2>3, <2>4, <2>5
<1>4. AdmitInv'
  BY Frozen DEF Inv, AdmitInv, Steps, Matched, Hashed, Keyed, Cast
<1>5. RowInv'
  BY DEF Inv, RowInv, Steps, Matched, Hashed, Keyed, Cast
<1> QED  BY <1>1, <1>2, <1>3, <1>4, <1>5 DEF Inv

LEMMA StepGenerateSk == Inv /\ GenerateSk => Inv'
<1> SUFFICES ASSUME Inv, GenerateSk PROVE Inv'
  OBVIOUS
<1> USE DEF GenerateSk, Checks
<1>1. TypeInv'
  BY DEF Inv, TypeInv, Steps, Matched, Hashed, Keyed, Cast
<1>2. FrameTyped'
  <2>1. df' = df \/ df' = With(df, {call.skName}, "sk")
    OBVIOUS
  <2>2. \A x \in DOMAIN With(df, {call.skName}, "sk") :
          /\ With(df, {call.skName}, "sk")[x].from \in Origins
          /\ With(df, {call.skName}, "sk")[x].type \in DataTypes
    BY WithTyped DEF Inv, FrameTyped, Origins
  <2> QED  BY <2>1, <2>2 DEF Inv, FrameTyped
<1>3. FrameInv'
  <2>1. Holds(HashNames, {})
    BY DEF Inv, FrameInv
  <2>2. HashNames' = HashNames /\ KeyNames' = KeyNames
    BY Frozen
  <2>3. CASE pc' = "convert" /\ call.skName # ""
    <3>1. df' = With(df, KeyNames, "sk")
      BY <2>3 DEF KeyNames
    <3>2. DOMAIN df' = DOMAIN df \cup KeyNames
      BY <3>1 DEF With
    <3>3. \A x \in KeyNames : df'[x].from = "sk" /\ df'[x].type = "string"
      <4>1. \A x \in KeyNames : df'[x] = [from |-> "sk", type |-> "string"]
        BY <3>1 DEF With
      <4> DEFINE key == [from |-> "sk", type |-> "string"]
      <4>2. key.from = "sk" /\ key.type = "string"
        OBVIOUS
      <4>3. \A x \in KeyNames : df'[x] = key
        BY <4>1
      <4> HIDE DEF key
      <4> QED  BY <4>2, <4>3
    <3>4. \A x \in DOMAIN df \ KeyNames : df'[x] = df[x]
      BY <3>1 DEF With
    <3>5. Holds(HashNames, KeyNames)'
      BY <2>1, <2>2, <3>2, <3>3, <3>4 DEF Holds
    <3> QED  BY <2>3, <3>5 DEF FrameInv, Hashed, Keyed, Cast
  <2>4. CASE pc' = "convert" /\ call.skName = ""
    <3>1. df' = df /\ KeyNames = {}
      BY <2>4 DEF KeyNames
    <3>2. Holds(HashNames, KeyNames)'
      BY <2>1, <2>2, <3>1 DEF Holds
    <3> QED  BY <2>4, <3>2 DEF FrameInv, Hashed, Keyed, Cast
  <2>5. CASE pc' = "refused"
    BY <2>5 DEF FrameInv, Hashed, Keyed, Cast
  <2> QED  BY <2>3, <2>4, <2>5
<1>4. AdmitInv'
  BY Frozen DEF Inv, AdmitInv, Steps, Matched, Hashed, Keyed, Cast
<1>5. RowInv'
  BY DEF Inv, RowInv, Steps, Matched, Hashed, Keyed, Cast
<1> QED  BY <1>1, <1>2, <1>3, <1>4, <1>5 DEF Inv

\* Only a surrogate key can be lost to the cast: the checksum is a control column,
\* and what comes from the source keeps its place.
LEMMA StepConvertColumns == Inv /\ ConvertColumns => Inv'
<1> SUFFICES ASSUME Inv, ConvertColumns PROVE Inv'
  OBVIOUS
<1> USE DEF ConvertColumns, Checks
<1> DEFINE casts(x) == x \in DOMAIN table.schema \ (Controls(call.columns) \cup SkNames)
<1>1. TypeInv'
  BY DEF Inv, TypeInv, Steps, Matched, Hashed, Keyed, Cast
<1>2. \A x \in DOMAIN table.schema : table.schema[x] \in DataTypes
  BY SchemasAssumption DEF Inv, TypeInv
<1>3. DOMAIN df' = DOMAIN df
  OBVIOUS
<1>4. \A x \in DOMAIN df : casts(x) => df'[x] = Converted(x)
  OBVIOUS
<1>5. \A x \in DOMAIN df : ~ casts(x) => df'[x] = df[x]
  OBVIOUS
<1>6. \A x \in DOMAIN df : casts(x) =>
        /\ df'[x].type = table.schema[x]
        /\ df'[x].from = df[x].from
             \/ (df'[x].from = "null" /\ df[x].from # "source" /\ df[x].type # table.schema[x])
  BY <1>4 DEF Converted
<1> HIDE DEF casts, ConvertColumns
<1>7. FrameTyped'
  <2> SUFFICES ASSUME NEW x \in DOMAIN df
               PROVE  df'[x].from \in Origins /\ df'[x].type \in DataTypes
    BY <1>3 DEF FrameTyped
  <2>1. df[x].from \in Origins /\ df[x].type \in DataTypes
    BY DEF Inv, FrameTyped
  <2>2. CASE ~ casts(x)
    BY <1>5, <2>1, <2>2
  <2>3. CASE casts(x)
    BY <1>2, <1>6, <2>1, <2>3 DEF casts, Origins
  <2> QED  BY <2>2, <2>3
<1>8. pc = "convert" /\ pc' = "source" /\ UNCHANGED <<call, source, table, row>>
  BY DEF ConvertColumns
<1>9. FrameInv'
  <2>1. Holds(HashNames, KeyNames)
    BY <1>8 DEF Inv, FrameInv, Keyed
  <2>2. HashNames' = HashNames /\ KeyNames' = KeyNames
    BY <1>8, Frozen
  <2>3. ASSUME NEW x \in KeyNames, x \in DOMAIN df
        PROVE  df'[x].from = "sk" \/ Nulled(x)'
    <3>1. df[x].from = "sk" /\ df[x].type = "string"
      BY <1>8, <2>1, <2>3 DEF Holds, Cast
    <3>2. CASE ~ casts(x)
      BY <1>5, <2>3, <3>1, <3>2
    <3>3. CASE casts(x)
      <4>1. x \notin SkNames /\ x \in DOMAIN table.schema
        BY <3>3 DEF casts
      <4>2. table.schema[x] # "string" => table.schema[x] = "number"
        BY <1>2, <4>1 DEF DataTypes
      <4> QED  BY <1>6, <1>8, <2>3, <3>1, <3>3, <4>1, <4>2 DEF Nulled
    <3> QED  BY <3>2, <3>3
  <2>4. ASSUME NEW x \in HashNames \ KeyNames, x \in DOMAIN df
        PROVE  df'[x].from = "checksum"
    <3>1. df[x].from = "checksum"
      BY <2>1, <2>4 DEF Holds
    <3>2. ~ casts(x)
      BY DEF casts, HashNames, Controls
    <3> QED  BY <1>5, <2>4, <3>1, <3>2
  <2>5. ASSUME NEW x \in DOMAIN df, x \notin HashNames \cup KeyNames
        PROVE  df'[x].from = "source"
    BY <1>5, <1>6, <2>1, <2>5 DEF Holds
  <2>6. Holds(HashNames, KeyNames)'
    BY <1>3, <1>8, <2>1, <2>2, <2>3, <2>4, <2>5 DEF Holds, Cast
  <2> QED  BY <1>8, <2>6 DEF FrameInv, Hashed, Keyed, Cast
<1>10. AdmitInv'
  BY <1>8, Frozen DEF Inv, AdmitInv, Steps, Matched, Hashed, Keyed, Cast
<1>11. RowInv'
  BY <1>8 DEF Inv, RowInv, Steps, Matched, Hashed, Keyed, Cast
<1> QED  BY <1>1, <1>7, <1>9, <1>10, <1>11 DEF Inv

(***************************************************************************)
(* What the strategies offer.                                              *)
(***************************************************************************)
LEMMA EnrichedFacts ==
  /\ DOMAIN Enriched =
       DOMAIN df \cup (IF Type \in {"scd3", "scd6"} THEN ValuesOf(Prev) ELSE {})
  /\ \A x \in DOMAIN df : Enriched[x] = df[x]
  /\ \A x \in DOMAIN Enriched \ DOMAIN df : Enriched[x].from = "previous"
  BY DEF Enriched, With

LEMMA VersionFacts ==
  ASSUME NEW D
  PROVE  /\ DOMAIN Version(D) =
              DOMAIN D \cup (Controls(call.columns) \ {call.columns.checksum})
                \cup (IF Parted THEN {call.part} ELSE {})
         /\ \A x \in DOMAIN Version(D) :
              \/ x \in DOMAIN D /\ Version(D)[x] = D[x]
              \/ x \in Controls(call.columns) \ {call.columns.checksum} /\ Version(D)[x].from = "control"
              \/ Parted /\ x = call.part /\ Version(D)[x].from = "part"
<1> DEFINE C == Controls(call.columns) \ {call.columns.checksum}
<1>1. /\ DOMAIN Stamped(D) = DOMAIN D \cup C
      /\ \A x \in DOMAIN Stamped(D) :
           (x \in DOMAIN D /\ Stamped(D)[x] = D[x]) \/ (x \in C /\ Stamped(D)[x].from = "control")
  BY DEF Stamped, With
<1>2. CASE Parted
  <2>1. Version(D) = With(Stamped(D), {call.part}, "part")
    BY <1>2 DEF Version
  <2>2. DOMAIN Version(D) = DOMAIN Stamped(D) \cup {call.part}
    BY <2>1 DEF With
  <2>3. Version(D)[call.part].from = "part"
    BY <2>1 DEF With
  <2>4. \A x \in DOMAIN Stamped(D) \ {call.part} : Version(D)[x] = Stamped(D)[x]
    BY <2>1 DEF With
  <2> QED  BY <1>1, <1>2, <2>2, <2>3, <2>4
<1>3. CASE ~ Parted
  <2>1. Version(D) = Stamped(D)
    BY <1>3 DEF Version
  <2> QED  BY <1>1, <1>3, <2>1
<1> QED  BY <1>2, <1>3

\* The names that are offered, and under each what df or the strategy has there.
LEMMA OfferedNames ==
  DOMAIN Offered =
    DOMAIN df
      \cup (IF Type \in {"scd3", "scd6"} THEN ValuesOf(Prev) ELSE {})
      \cup (IF Type \in Versioned THEN Controls(call.columns) \ {call.columns.checksum} ELSE {})
      \cup (IF Type \in Versioned /\ Parted THEN {call.part} ELSE {})
      \cup (IF Type = "scd1_delete" THEN {"deleted"} ELSE {})
<1>1. CASE Type \in Versioned
  <2>1. Offered = Version(Enriched)
    BY <1>1 DEF Offered, Versioned
  <2>2. Type # "scd1_delete"
    BY <1>1 DEF Versioned
  <2> QED  BY <1>1, <2>1, <2>2, EnrichedFacts, VersionFacts
<1>2. CASE Type = "scd1_delete"
  BY <1>2 DEF Offered, Versioned, With
<1>3. CASE Type \notin Versioned /\ Type # "scd1_delete"
  <2>1. Offered = Enriched
    BY <1>3 DEF Offered
  <2> QED  BY <1>3, <2>1, EnrichedFacts
<1> QED  BY <1>1, <1>2, <1>3

LEMMA OfferedOrigins ==
  ASSUME NEW x \in DOMAIN Offered
  PROVE  \/ x \in DOMAIN df /\ Offered[x] = df[x]
         \/ Type \in {"scd3", "scd6"} /\ x \in ValuesOf(Prev) /\ Offered[x].from = "previous"
         \/ Type \in Versioned /\ x \in Controls(call.columns) \ {call.columns.checksum}
              /\ Offered[x].from = "control"
         \/ Type \in Versioned /\ Parted /\ x = call.part /\ Offered[x].from = "part"
         \/ Type = "scd1_delete" /\ x = "deleted" /\ Offered[x].from = "flag"
<1>1. \A y \in DOMAIN Enriched :
        \/ y \in DOMAIN df /\ Enriched[y] = df[y]
        \/ Type \in {"scd3", "scd6"} /\ y \in ValuesOf(Prev) /\ Enriched[y].from = "previous"
  BY EnrichedFacts
<1>2. CASE Type \in Versioned
  <2>1. Offered = Version(Enriched)
    BY <1>2 DEF Offered, Versioned
  <2>2. \/ x \in DOMAIN Enriched /\ Offered[x] = Enriched[x]
        \/ x \in Controls(call.columns) \ {call.columns.checksum} /\ Offered[x].from = "control"
        \/ Parted /\ x = call.part /\ Offered[x].from = "part"
    BY <2>1, VersionFacts
  <2> QED  BY <1>1, <1>2, <2>2
<1>3. CASE Type = "scd1_delete"
  BY <1>3 DEF Offered, Versioned, With
<1>4. CASE Type \notin Versioned /\ Type # "scd1_delete"
  <2>1. Offered = Enriched
    BY <1>4 DEF Offered
  <2> QED  BY <1>1, <2>1
<1> QED  BY <1>2, <1>3, <1>4

(***************************************************************************)
(* The merge and the check after it.                                       *)
(***************************************************************************)
LEMMA StepMerge == Inv /\ Merge => Inv'
<1> SUFFICES ASSUME Inv, Merge PROVE Inv'
  OBVIOUS
<1>0. /\ UNCHANGED <<call, source, table, df, recorded>>
      /\ pc = "merge" /\ pc' \in {"validate", "failed"}
  BY DEF Merge
<1>1. TypeInv'
  BY <1>0 DEF Inv, TypeInv, Steps, Matched, Hashed, Keyed, Cast
<1>2. FrameTyped' /\ FrameInv'
  <2>1. UNCHANGED <<call, source, table, df>>
    BY <1>0
  <2>2. pc \in Cast /\ pc' \in Cast
    BY <1>0 DEF Cast
  <2> QED  BY <2>1, <2>2, CheckFrame
<1>3. AdmitInv'
  BY <1>0, Frozen, FrozenFrame DEF Inv, AdmitInv, Steps, Matched, Hashed, Keyed, Cast
<1>4. RowInv'
  <2>1. Mergeable' = Mergeable /\ Inserted' = Inserted
    BY <1>0, FrozenFrame
  <2>2. CASE Mergeable
    <3>1. pc' = "validate" /\ row' = Inserted
      BY <2>2 DEF Merge, Inserted
    <3> QED  BY <2>1, <2>2, <3>1 DEF RowInv
  <2>3. CASE ~ Mergeable
    <3>1. pc' = "failed" /\ row' = row
      BY <2>3 DEF Merge
    <3>2. row = <<>>
      BY <1>0 DEF Inv, RowInv, Steps, Matched, Hashed, Keyed, Cast
    <3> QED  BY <2>1, <2>3, <3>1, <3>2 DEF RowInv
  <2> QED  BY <2>2, <2>3
<1> QED  BY <1>1, <1>2, <1>3, <1>4 DEF Inv

\* Step 10 finds every column it reads: the ids were in the source, and a version
\* was offered with its control columns.
LEMMA ValidatePasses ==
  ASSUME Inv, pc = "validate"
  PROVE  Has(row, call.ids \cup (IF Type \in Versioned
                                   THEN {call.columns.current, call.columns.end} ELSE {}))
<1>1. DOMAIN row = DOMAIN table.schema /\ Mergeable
  BY DEF Inv, RowInv, Inserted
<1>2. call.ids \subseteq DOMAIN table.schema
  <2>1. call.ids \subseteq DOMAIN source /\ SameColumns(source, table.schema)
    BY DEF Inv, AdmitInv, Matched, Hashed, Keyed, Cast
  <2> QED  BY <2>1, SourceApart
<1>3. ASSUME Type \in Versioned
      PROVE  {call.columns.current, call.columns.end} \subseteq DOMAIN table.schema
  <2>1. BatchFits
    BY <1>1, <1>3 DEF Mergeable, Versioned, Overwrites
  <2>2. DOMAIN Offered \subseteq DOMAIN table.schema
    BY <2>1 DEF BatchFits, Has
  <2>3. DOMAIN df \cup (Controls(call.columns) \ {call.columns.checksum}) \subseteq DOMAIN Offered
    BY <1>3, OfferedNames
  <2>4. call.columns.checksum \in DOMAIN df
    BY <1>3 DEF Inv, FrameInv, Holds, Keyed, Cast, HashNames, Versioned, Checksummed
  <2> QED  BY <2>2, <2>3, <2>4 DEF Controls
<1> QED  BY <1>1, <1>2, <1>3 DEF Has

LEMMA StepValidate == Inv /\ Validate => Inv'
<1> SUFFICES ASSUME Inv, Validate PROVE Inv'
  OBVIOUS
<1>0. /\ UNCHANGED <<call, source, table, df, row, recorded>>
      /\ pc = "validate" /\ pc' = "done"
  BY ValidatePasses DEF Validate
<1>1. TypeInv'
  BY <1>0 DEF Inv, TypeInv, Steps, Matched, Hashed, Keyed, Cast
<1>2. FrameTyped' /\ FrameInv'
  <2>1. UNCHANGED <<call, source, table, df>>
    BY <1>0
  <2>2. pc \in Cast /\ pc' \in Cast
    BY <1>0 DEF Cast
  <2> QED  BY <2>1, <2>2, CheckFrame
<1>3. AdmitInv'
  BY <1>0, Frozen, FrozenFrame DEF Inv, AdmitInv, Steps, Matched, Hashed, Keyed, Cast
<1>4. RowInv'
  BY <1>0, FrozenFrame DEF Inv, RowInv
<1> QED  BY <1>1, <1>2, <1>3, <1>4 DEF Inv

THEOREM Invariant == Spec => []Inv
<1>1. Init => Inv
  BY InitInv
<1>2. Inv /\ [Next]_vars => Inv'
  <2> SUFFICES ASSUME Inv, [Next]_vars PROVE Inv'
    OBVIOUS
  <2>1. CASE UNCHANGED vars
    <3>1. UNCHANGED <<call, source, table, df>> /\ pc' = pc /\ row' = row /\ recorded' = recorded
      BY <2>1 DEF vars
    <3>2. TypeInv' /\ FrameTyped'
      BY <3>1 DEF Inv, TypeInv, FrameTyped
    <3>3. FrameInv'
      BY <3>1, Frozen DEF Inv, FrameInv, Holds, Nulled
    <3>4. AdmitInv'
      BY <3>1, Frozen, FrozenFrame DEF Inv, AdmitInv
    <3>5. RowInv'
      BY <3>1, FrozenFrame DEF Inv, RowInv
    <3> QED  BY <3>2, <3>3, <3>4, <3>5 DEF Inv
  <2> QED
    BY <2>1, StepCheckParameters, StepCheckTable, StepFilterRows, StepCheckDuplicates,
       StepCheckColumns, StepGenerateChecksum, StepGenerateSk, StepConvertColumns,
       StepCheckSource, StepAppendHistory, StepMerge, StepValidate DEF Next
<1> QED  BY <1>1, <1>2, PTL DEF Spec

(***************************************************************************)
(* What follows from the invariant.                                        *)
(***************************************************************************)
\* The columns of df past step 8: those of the source, and the names of the hashes.
LEMMA PastCast ==
  ASSUME Inv, pc \in Cast
  PROVE  /\ DOMAIN df = DOMAIN source \cup HashNames \cup KeyNames
         /\ \A x \in KeyNames : df[x].from = "sk" \/ Nulled(x)
         /\ \A x \in HashNames \ KeyNames : df[x].from = "checksum"
         /\ \A x \in DOMAIN source \ (HashNames \cup KeyNames) : df[x].from = "source"
         /\ call.ids \subseteq DOMAIN source
         /\ SameColumns(source, table.schema)
         /\ ColumnsValid(call.columns) /\ ParametersValid
<1>1. Holds(HashNames, KeyNames)
  BY DEF Inv, FrameInv, Keyed
<1>2. DOMAIN df = DOMAIN source \cup HashNames \cup KeyNames
  BY <1>1 DEF Holds
<1>3. \A x \in KeyNames : df[x].from = "sk" \/ Nulled(x)
  BY <1>1, <1>2 DEF Holds
<1>4. \A x \in HashNames \ KeyNames : df[x].from = "checksum"
  BY <1>1, <1>2 DEF Holds
<1>5. \A x \in DOMAIN source \ (HashNames \cup KeyNames) : df[x].from = "source"
  BY <1>1, <1>2 DEF Holds
<1>6. pc \in Matched /\ pc \in Steps \ {"parameters", "refused"}
  BY DEF Cast, Matched, Hashed, Keyed, Steps
<1>7. /\ call.ids \subseteq DOMAIN source
      /\ SameColumns(source, table.schema)
      /\ ColumnsValid(call.columns) /\ ParametersValid
  BY <1>6 DEF Inv, AdmitInv
<1> QED  BY <1>2, <1>3, <1>4, <1>5, <1>7

\* Where a generated name comes from.
LEMMA GeneratedCases ==
  ASSUME NEW x \in GeneratedNames
  PROVE  \/ x \in KeyNames
         \/ Type \in Checksummed /\ x = call.columns.checksum
         \/ Type \in Versioned /\ x \in {call.columns.start, call.columns.end, call.columns.current}
         \/ Type \in Versioned /\ call.partFrom # "" /\ x = call.part
         \/ Type \in {"scd3", "scd6"} /\ x \in ValuesOf(Prev)
<1>1. PICK g \in Generated : x = g[1]
  BY DEF GeneratedNames
<1> DEFINE G1 == ({call.skName} \ {""}) \X {"sk"}
           G2 == IF Type \in Checksummed THEN {<<call.columns.checksum, "checksum">>} ELSE {}
           G3 == IF Type \in Versioned
                   THEN {call.columns.start, call.columns.end, call.columns.current} \X {"control"}
                   ELSE {}
           G4 == IF Type \in Versioned /\ call.partFrom # "" THEN {<<call.part, "part">>} ELSE {}
           G5 == IF Type \in {"scd3", "scd6"} THEN ValuesOf(Prev) \X {"previous"} ELSE {}
<1>2. g \in G1 \/ g \in G2 \/ g \in G3 \/ g \in G4 \/ g \in G5
  BY DEF Generated
<1>3. g \in G1 => x \in KeyNames
  BY <1>1 DEF KeyNames
<1>4. g \in G2 => Type \in Checksummed /\ x = call.columns.checksum
  BY <1>1
<1>5. g \in G3 =>
        Type \in Versioned /\ x \in {call.columns.start, call.columns.end, call.columns.current}
  BY <1>1
<1>6. ASSUME g \in G4
      PROVE  Type \in Versioned /\ call.partFrom # "" /\ x = call.part
  <2>1. CASE Type \in Versioned /\ call.partFrom # ""
    <3>1. g = <<call.part, "part">>
      BY <1>6, <2>1
    <3> QED  BY <1>1, <2>1, <3>1
  <2>2. CASE ~ (Type \in Versioned /\ call.partFrom # "")
    <3>1. G4 = {}
      BY <2>2
    <3> QED  BY <1>6, <3>1
  <2> QED  BY <2>1, <2>2
<1>7. g \in G5 => Type \in {"scd3", "scd6"} /\ x \in ValuesOf(Prev)
  BY <1>1
<1> HIDE DEF G1, G2, G3, G4, G5
<1> QED  BY <1>2, <1>3, <1>4, <1>5, <1>6, <1>7

\* column_check leaves out everything a call generates.
LEMMA GeneratedUnchecked == GeneratedNames \subseteq Unchecked
<1> SUFFICES ASSUME NEW x \in GeneratedNames PROVE x \in Unchecked
  OBVIOUS
<1> QED  BY GeneratedCases DEF Unchecked, KeyNames, Controls

\* Every name that is offered and does not come from the source is generated.
LEMMA OfferedGenerated ==
  ASSUME Inv, pc \in Cast, NEW x \in DOMAIN Offered, ~ (Type = "scd1_delete" /\ x = "deleted")
  PROVE  \/ x \in DOMAIN source \ Unchecked /\ Offered[x].from = "source"
         \/ x \notin DOMAIN source /\ <<x, Offered[x].from>> \in Generated
         \/ x \notin DOMAIN source /\ x \in GeneratedNames /\ Offered[x].from = "null" /\ Lost(x)
<1>1. DOMAIN source \cap Unchecked = {}
  BY PastCast, SourceApart
<1>2. CASE x \in DOMAIN df /\ Offered[x] = df[x]
  <2>1. CASE x \in KeyNames
    <3>1. x = call.skName /\ x # "" /\ x \in Unchecked
      BY <2>1 DEF KeyNames, Unchecked
    <3>2. <<x, "sk">> \in Generated
      BY <3>1 DEF Generated
    <3>3. x \in GeneratedNames
      BY <3>2 DEF GeneratedNames
    <3>4. df[x].from = "sk" \/ Nulled(x)
      BY <2>1, PastCast
    <3>5. Nulled(x) => df[x].from = "null" /\ Lost(x)
      BY <3>1 DEF Nulled, Lost
    <3> QED  BY <1>1, <1>2, <3>1, <3>2, <3>3, <3>4, <3>5
  <2>2. CASE x \in HashNames \ KeyNames
    <3>1. Type \in Checksummed /\ x = call.columns.checksum
      BY <2>2 DEF HashNames
    <3>2. <<x, "checksum">> \in Generated
      BY <3>1 DEF Generated
    <3>3. x \in Unchecked
      BY <3>1 DEF Unchecked, Controls
    <3>4. df[x].from = "checksum"
      BY <2>2, PastCast
    <3> QED  BY <1>1, <1>2, <3>2, <3>3, <3>4
  <2>3. CASE x \in DOMAIN source \ (HashNames \cup KeyNames)
    BY <1>1, <1>2, <2>3, PastCast
  <2> QED  BY <1>2, <2>1, <2>2, <2>3, PastCast
<1>3. CASE Type \in {"scd3", "scd6"} /\ x \in ValuesOf(Prev) /\ Offered[x].from = "previous"
  <2>1. x \in Unchecked
    BY <1>3 DEF Unchecked
  <2>2. <<x, "previous">> \in Generated
    BY <1>3 DEF Generated
  <2> QED  BY <1>1, <1>3, <2>1, <2>2
<1>4. CASE Type \in Versioned /\ x \in Controls(call.columns) \ {call.columns.checksum}
             /\ Offered[x].from = "control"
  <2>1. x \in Unchecked
    BY <1>4 DEF Unchecked
  <2>2. x \in {call.columns.start, call.columns.end, call.columns.current}
    BY <1>4 DEF Controls
  <2>3. <<x, "control">> \in Generated
    BY <1>4, <2>2 DEF Generated
  <2> QED  BY <1>1, <1>4, <2>1, <2>3
<1>5. CASE Type \in Versioned /\ Parted /\ x = call.part /\ Offered[x].from = "part"
  <2>1. call.partFrom # ""
    BY <1>5 DEF Parted
  <2>2. x \in Unchecked
    BY <1>5, <2>1 DEF Unchecked
  <2>3. <<x, "part">> \in Generated
    BY <1>5, <2>1 DEF Generated
  <2> QED  BY <1>1, <1>5, <2>2, <2>3
<1> QED  BY <1>2, <1>3, <1>4, <1>5, OfferedOrigins

\* A generated name that is not offered is the partition of scd6's initial load.
LEMMA NotOffered ==
  ASSUME Inv, pc \in Cast, NEW x \in GeneratedNames, x \notin DOMAIN Offered
  PROVE  Lost(x)
<1>1. DOMAIN df = DOMAIN source \cup HashNames \cup KeyNames
  BY PastCast
<1>2. x \notin KeyNames \cup HashNames
  BY <1>1, OfferedNames
<1>3. Type \in Versioned => x \notin Controls(call.columns) \ {call.columns.checksum}
  BY OfferedNames
<1>4. Type \in Versioned => x # call.columns.checksum
  BY <1>2 DEF HashNames, Versioned, Checksummed
<1>5. Type \in {"scd3", "scd6"} => x \notin ValuesOf(Prev)
  BY OfferedNames
<1>6. Type \in Versioned /\ call.partFrom # "" /\ x = call.part
  <2>1. Type \in Checksummed => x # call.columns.checksum
    BY <1>2 DEF HashNames
  <2>2. Type \in Versioned =>
          x \notin {call.columns.start, call.columns.end, call.columns.current}
    BY <1>3, <1>4 DEF Controls
  <2> QED  BY <1>2, <1>5, <2>1, <2>2, GeneratedCases
<1>7. ~ Parted
  BY <1>6, OfferedNames
<1> QED  BY <1>6, <1>7 DEF Parted, Lost

LEMMA InvProvenance == Inv => Provenance
<1> SUFFICES ASSUME Inv PROVE Provenance
  OBVIOUS
<1>1. CASE pc \notin {"validate", "done"}
  <2>1. row = <<>>
    BY <1>1 DEF Inv, TypeInv, RowInv
  <2> QED  BY <2>1 DEF Provenance
<1>2. CASE pc \in {"validate", "done"}
  <2> DEFINE Flags == IF Type = "scd1_delete" THEN {"deleted"} ELSE {}
  <2>0. pc \in Cast
    BY <1>2 DEF Cast
  <2>1. DOMAIN row = DOMAIN table.schema
    BY <1>2 DEF Inv, RowInv, Inserted
  <2>2. \A x \in DOMAIN row : row[x] = IF x \in DOMAIN Offered THEN Offered[x].from ELSE "null"
    BY <1>2 DEF Inv, RowInv, Inserted
  <2>3. \A x \in Flags \cap DOMAIN row : row[x] = "flag"
    <3>1. Type = "scd1_delete" => "deleted" \in DOMAIN Offered /\ Offered["deleted"].from = "flag"
      BY DEF Offered, Versioned, With
    <3> QED  BY <2>2, <3>1
  <2>4. ASSUME NEW x \in DOMAIN row \ Flags
        PROVE  /\ x \in DOMAIN source  => row[x] = "source"
               /\ x \in GeneratedNames => <<x, row[x]>> \in Generated \/ (row[x] = "null" /\ Lost(x))
               /\ x \notin DOMAIN source \cup GeneratedNames => row[x] = "null" /\ x \in Unchecked
    <3>1. ~ (Type = "scd1_delete" /\ x = "deleted")
      OBVIOUS
    <3>2. CASE x \in DOMAIN Offered
      <4>1. row[x] = Offered[x].from
        BY <2>2, <3>2
      <4>2. \/ x \in DOMAIN source \ Unchecked /\ Offered[x].from = "source"
            \/ x \notin DOMAIN source /\ <<x, Offered[x].from>> \in Generated
            \/ x \notin DOMAIN source /\ x \in GeneratedNames /\ Offered[x].from = "null" /\ Lost(x)
        BY <2>0, <3>1, <3>2, OfferedGenerated
      <4>3. <<x, row[x]>> \in Generated => x \in GeneratedNames
        BY DEF GeneratedNames
      <4>4. x \in GeneratedNames => x \in Unchecked
        BY GeneratedUnchecked
      <4> QED  BY <4>1, <4>2, <4>3, <4>4
    <3>3. CASE x \notin DOMAIN Offered
      <4>1. row[x] = "null"
        BY <2>2, <3>3
      <4>2. x \notin DOMAIN source
        BY <2>0, <3>3, OfferedNames, PastCast
      <4>3. x \in Unchecked
        BY <2>0, <2>1, <4>2, PastCast, SourceApart
      <4>4. x \in GeneratedNames => Lost(x)
        BY <2>0, <3>3, NotOffered
      <4> QED  BY <4>1, <4>2, <4>3, <4>4
    <3> QED  BY <3>2, <3>3
  <2> QED  BY <2>3, <2>4 DEF Provenance
<1> QED  BY <1>1, <1>2

(***************************************************************************)
(* What the checks admit can be merged.                                    *)
(***************************************************************************)
\* A target with the columns of the source and the generated ones.
Fitting == DOMAIN table.schema = DOMAIN source \cup GeneratedNames

\* What no check asks for.
Unasked ==
  Type \in Versioned /\
    \/ Staging \cap DOMAIN Enriched # {}
    \/ call.partFrom \notin DOMAIN df \cup {""}
    \/ table.schema[call.columns.checksum] # "string"
    \/ table.schema[call.columns.current] # "number"
    \/ call.skName \in ValuesOf(Prev)

LEMMA KeyGenerated == KeyNames \subseteq GeneratedNames
<1> SUFFICES ASSUME NEW x \in KeyNames PROVE x \in GeneratedNames
  OBVIOUS
<1>1. <<x, "sk">> \in Generated
  BY DEF KeyNames, Generated
<1> QED  BY <1>1 DEF GeneratedNames

LEMMA HashGenerated == HashNames \subseteq GeneratedNames
<1> SUFFICES ASSUME NEW x \in HashNames PROVE x \in GeneratedNames
  OBVIOUS
<1>1. <<x, "checksum">> \in Generated
  BY DEF HashNames, Generated
<1> QED  BY <1>1 DEF GeneratedNames

LEMMA PreviousGenerated ==
  ASSUME Type \in {"scd3", "scd6"}
  PROVE  ValuesOf(Prev) \subseteq GeneratedNames
<1> SUFFICES ASSUME NEW x \in ValuesOf(Prev) PROVE x \in GeneratedNames
  OBVIOUS
<1>1. <<x, "previous">> \in Generated
  BY DEF Generated
<1> QED  BY <1>1 DEF GeneratedNames

LEMMA ControlsGenerated ==
  ASSUME Type \in Versioned
  PROVE  Controls(call.columns) \subseteq GeneratedNames
<1> SUFFICES ASSUME NEW x \in Controls(call.columns) PROVE x \in GeneratedNames
  OBVIOUS
<1>1. CASE x = call.columns.checksum
  BY <1>1, HashGenerated DEF HashNames, Versioned, Checksummed
<1>2. CASE x \in {call.columns.start, call.columns.end, call.columns.current}
  <2>1. <<x, "control">> \in Generated
    BY <1>2 DEF Generated
  <2> QED  BY <2>1 DEF GeneratedNames
<1> QED  BY <1>1, <1>2 DEF Controls

LEMMA PartGenerated ==
  ASSUME Type \in Versioned, Parted
  PROVE  call.part \in GeneratedNames
<1>1. <<call.part, "part">> \in Generated
  BY DEF Parted, Generated
<1> QED  BY <1>1 DEF GeneratedNames

\* On a fitting target, whatever a strategy offers has a place, but for the flag
\* of scd1_delete.
LEMMA OfferedFits ==
  ASSUME Inv, pc \in Cast, Fitting, Type # "scd1_delete"
  PROVE  DOMAIN Offered \subseteq DOMAIN table.schema
<1>1. DOMAIN df \subseteq DOMAIN table.schema
  BY PastCast, KeyGenerated, HashGenerated DEF Fitting
<1>2. Type \in {"scd3", "scd6"} => ValuesOf(Prev) \subseteq DOMAIN table.schema
  BY PreviousGenerated DEF Fitting
<1>3. Type \in Versioned => Controls(call.columns) \subseteq DOMAIN table.schema
  BY ControlsGenerated DEF Fitting
<1>4. Type \in Versioned /\ Parted => call.part \in DOMAIN table.schema
  BY PartGenerated DEF Fitting
<1> QED  BY <1>1, <1>2, <1>3, <1>4, OfferedNames

LEMMA BatchMerges ==
  ASSUME Inv, pc \in Cast, Fitting, Type \in Versioned, ~ Unasked
  PROVE  BatchFits
<1>1. Staging \cap DOMAIN Enriched = {}
  BY DEF Unasked
<1>2. Parted => Has(Stamped(Enriched), {call.partFrom})
  <2>1. Parted => call.partFrom \in DOMAIN df
    BY DEF Unasked, Parted
  <2>2. DOMAIN df \subseteq DOMAIN Stamped(Enriched)
    BY EnrichedFacts DEF Stamped, With
  <2> QED  BY <2>1, <2>2 DEF Has
<1>3. Has(table.schema, DOMAIN Offered)
  BY OfferedFits DEF Has, Versioned
<1>4. Has(table.schema, Controls(call.columns))
  BY ControlsGenerated DEF Has, Fitting
<1>5. table.schema[call.columns.checksum] = "string" /\ table.schema[call.columns.current] = "number"
  BY DEF Unasked
<1> QED  BY <1>1, <1>2, <1>3, <1>4, <1>5 DEF BatchFits

\* The columns that the configuration names are in df.
LEMMA SourceHas ==
  ASSUME Inv, pc \in Cast \ {"source"}, Type \in ScdTypes
  PROVE  /\ Config.tracked \cup Config.protected \subseteq DOMAIN df
         /\ Type \in {"scd3", "scd6"} => DOMAIN Prev \subseteq DOMAIN df
<1>1. SourceValid
  BY DEF Inv, AdmitInv
<1> QED  BY <1>1 DEF SourceValid, Has

LEMMA PreviousFits ==
  ASSUME Inv, pc \in Cast \ {"source"}, Fitting, Type \in {"scd3", "scd6"}
  PROVE  TargetValid
<1>1. DOMAIN df \subseteq DOMAIN table.schema /\ call.ids \subseteq DOMAIN table.schema
  BY PastCast, KeyGenerated, HashGenerated DEF Fitting
<1>2. DOMAIN Prev \subseteq DOMAIN df
  BY SourceHas DEF ScdTypes
<1>3. ValuesOf(Prev) \subseteq DOMAIN table.schema
  BY PreviousGenerated DEF Fitting
<1>4. Type = "scd6" => Controls(call.columns) \subseteq DOMAIN table.schema
  BY ControlsGenerated DEF Fitting, Versioned
<1> QED  BY <1>1, <1>2, <1>3, <1>4 DEF TargetValid

\* What a call generates without versions and previous columns is the hashes.
LEMMA PlainGenerated ==
  ASSUME Type \notin Versioned \cup {"scd3"}
  PROVE  GeneratedNames = HashNames \cup KeyNames
<1>1. GeneratedNames \subseteq HashNames \cup KeyNames
  <2> SUFFICES ASSUME NEW x \in GeneratedNames PROVE x \in HashNames \cup KeyNames
    OBVIOUS
  <2>1. Type \in Checksummed /\ x = call.columns.checksum => x \in HashNames
    BY DEF HashNames
  <2> QED  BY <2>1, GeneratedCases DEF Versioned
<1> QED  BY <1>1, KeyGenerated, HashGenerated

LEMMA PlainMerges ==
  ASSUME Inv, pc \in Cast \ {"source"}, Fitting,
         Type \in {"scd0", "scd1", "scd1_delete", "scd4"} \cup Overwrites
  PROVE  Mergeable
<1>1. DOMAIN df = DOMAIN table.schema
  <2>1. GeneratedNames = HashNames \cup KeyNames
    BY PlainGenerated DEF Overwrites, Versioned
  <2> QED  BY <2>1, PastCast DEF Fitting
<1>2. DOMAIN df \subseteq DOMAIN Offered
  BY OfferedNames
<1>3. CASE Type = "scd0"
  <2>1. Compared \subseteq DOMAIN df
    BY <1>3, SourceHas DEF Compared, ScdTypes
  <2> QED  BY <1>1, <1>3, <2>1 DEF Mergeable, Has, Overwrites
<1>4. CASE Type \in {"scd1", "scd1_delete", "scd4"}
  <2>1. call.ids \subseteq DOMAIN df
    BY PastCast
  <2>2. call.skType = "fact" => call.skName \in DOMAIN df
    <3>1. call.skType = "" <=> call.skName = ""
      BY PastCast DEF ParametersValid
    <3>2. call.skType = "fact" => call.skName \in KeyNames
      BY <3>1 DEF KeyNames
    <3> QED  BY <3>2, PastCast
  <2>3. MergeIds \subseteq DOMAIN df
    BY <2>1, <2>2 DEF MergeIds
  <2>4. UpsertFits
    BY <1>1, <1>2, <2>3 DEF UpsertFits, Has
  <2> QED  BY <1>4, <2>4 DEF Mergeable, Overwrites
<1>5. CASE Type \in Overwrites
  BY <1>1, <1>5 DEF Mergeable, Has, Overwrites
<1> QED  BY <1>3, <1>4, <1>5

LEMMA Admits ==
  ASSUME Inv, pc = "failed", Fitting, ~ Unasked, Type # "scd2_cdc"
  PROVE  Mergeable
<1>0. pc \in Cast \ {"source"} /\ pc \in Cast
  BY DEF Cast
<1>1. Type \in ScdTypes \cup Overwrites
  BY <1>0, PastCast DEF ParametersValid
<1>2. CASE Type \in {"scd0", "scd1", "scd1_delete", "scd4"} \cup Overwrites
  BY <1>0, <1>2, PlainMerges
<1>3. CASE Type \in {"scd2", "scd2_no_delete"}
  <2>1. BatchFits
    BY <1>0, <1>3, BatchMerges DEF Versioned
  <2> QED  BY <1>3, <2>1 DEF Mergeable, Overwrites
<1>4. CASE Type = "scd3"
  <2>1. TargetValid
    BY <1>0, <1>4, PreviousFits
  <2>2. Has(table.schema, DOMAIN Offered)
    BY <1>0, <1>4, OfferedFits DEF Has
  <2> QED  BY <1>4, <2>1, <2>2 DEF Mergeable, Overwrites
<1>5. CASE Type = "scd6"
  <2>1. TargetValid
    BY <1>0, <1>5, PreviousFits
  <2>2. BatchFits
    BY <1>0, <1>5, BatchMerges DEF Versioned
  <2>3. ValuesOf(Prev) \cap DOMAIN df = {}
    <3>1. DOMAIN source \cap ValuesOf(Prev) = {}
      BY <1>0, PastCast, SourceApart DEF Unchecked
    <3>2. KeyNames \cap ValuesOf(Prev) = {}
      BY <1>5 DEF Unasked, KeyNames, Versioned
    <3>3. HashNames \cap ValuesOf(Prev) = {}
      <4>1. Controls(call.columns) \cap ValuesOf(Prev) = {}
        BY <1>0, <1>5, PastCast, PreviousApart DEF Inv, ScdTypes
      <4> QED  BY <4>1 DEF HashNames, Controls
    <3> QED  BY <1>0, <3>1, <3>2, <3>3, PastCast
  <2> QED  BY <1>5, <2>1, <2>2, <2>3 DEF Mergeable, Overwrites
<1> QED  BY <1>1, <1>2, <1>3, <1>4, <1>5 DEF ScdTypes

LEMMA InvAdmittedMerges == Inv => AdmittedMerges
<1> SUFFICES ASSUME Inv, pc = "failed" PROVE AdmittedMerges
  BY DEF AdmittedMerges
<1>1. row = <<>> /\ ~ Mergeable
  BY DEF Inv, RowInv, Steps, Matched, Hashed, Keyed, Cast
<1>2. Type = "scd2_cdc" \/ ~ Fitting \/ Unasked
  BY <1>1, Admits
<1> QED  BY <1>1, <1>2 DEF AdmittedMerges, Fitting, Unasked

LEMMA InvTypeOK == Inv => TypeOK
<1> SUFFICES ASSUME Inv PROVE TypeOK
  OBVIOUS
<1>1. \A x \in DOMAIN row : row[x] \in Origins
  <2>1. CASE row = <<>>
    BY <2>1
  <2>2. CASE row = Inserted
    <3> SUFFICES ASSUME NEW x \in DOMAIN row PROVE row[x] \in Origins
      OBVIOUS
    <3>1. row[x] = IF x \in DOMAIN Offered THEN Offered[x].from ELSE "null"
      BY <2>2 DEF Inserted
    <3>2. x \in DOMAIN Offered => Offered[x].from \in Origins
      BY OfferedOrigins DEF Inv, FrameTyped, Origins
    <3> QED  BY <3>1, <3>2 DEF Origins
  <2> QED  BY <2>1, <2>2 DEF Inv, TypeInv, RowInv
<1>2. pc \in {"parameters", "table", "filter", "duplicates", "schema", "checksum", "sk",
              "convert", "source", "append", "merge", "validate", "done", "refused", "failed"}
  BY DEF Inv, TypeInv, Steps, Matched, Hashed, Keyed, Cast
<1> QED  BY <1>1, <1>2 DEF TypeOK, Inv, TypeInv, FrameTyped

(***************************************************************************)
(* The theorems.                                                           *)
(***************************************************************************)
\* Every variable keeps its type, whatever the calls, schemas and tables.
THEOREM TypeCorrect == Spec => []TypeOK
  BY Invariant, InvTypeOK, PTL

\* What merge_delta_table inserts into a column is what the column's name promises:
\* no generated column, cast or strategy ever takes the place of a source column.
THEOREM ProvenanceAlways == Spec => []Provenance
  BY Invariant, InvProvenance, PTL

\* A call that its checks let in does not fail in the merge for a column, unless
\* for one of the reasons no check asks about, and never after its commit.
THEOREM AdmittedAlwaysMerge == Spec => []AdmittedMerges
  BY Invariant, InvAdmittedMerges, PTL
=============================================================================
