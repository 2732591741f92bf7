------------------------------- MODULE DfUtils -------------------------------
(***************************************************************************)
(* The hashes of gandalf/utils/df_utils.py as operators on texts: the      *)
(* checksum that tells whether a row has changed, and the surrogate keys.  *)
(* sha2 and xxhash64 are taken as one-to-one, so the text that is hashed   *)
(* stands for its hash; what the code does before it hashes is modelled.   *)
(***************************************************************************)
EXTENDS SequencesExt

CONSTANTS
  SqlNull,   \* NULL
  ByName     \* the names of all columns, in alphabetical order

\* concat_ws("||", ...) passes over NULLs.
Joined(vs) ==
  LET ts == SelectSeq(vs, LAMBDA v : v # SqlNull)
  IN IF ts = <<>> THEN "" ELSE FoldLeft(LAMBDA text, v : text \o "||" \o v, Head(ts), Tail(ts))

\* hash_columns and generate_check_sum: NULL and the empty text count as "*".
Token(v) == IF v \in {SqlNull, ""} THEN "*" ELSE v

\* The columns generate_check_sum hashes: those of tracked_columns, which is a
\* set of one list or of none, or else all but the ignored, the control and the
\* sk_* columns.
HashedColumns(columns, tracked, ignored, control, sks) ==
  IF tracked # {} THEN UNION tracked ELSE columns \ (ignored \cup control \cup sks)

\* Column by column in alphabetical order; those that are not hashed are passed over.
Tokens(row, hashed) ==
  [i \in DOMAIN ByName |-> IF ByName[i] \in hashed THEN Token(row[ByName[i]]) ELSE SqlNull]

\* Mutant: what is missing leaves no trace, as in concat_ws alone.
CheckSumBare(row, hashed) == Joined(SelectSeq(Tokens(row, hashed), LAMBDA v : v # "*"))

CheckSum(row, hashed) == Joined(Tokens(row, hashed))

DimTokens(ids, cs, now) ==
  [i \in DOMAIN ids |-> IF ids[i] = SqlNull THEN "*" ELSE ids[i]] \o <<cs, now>>

\* Mutant: the key does not have the time in it.
DimSkStable(ids, cs, now) == Joined(Front(DimTokens(ids, cs, now)))

\* generate_dim_sk, now being current_timestamp as text.
DimSk(ids, cs, now) == Joined(DimTokens(ids, cs, now))

\* Mutant: the components are hashed without their order.
FactSkUnordered(ids) == ToSet(SelectSeq(ids, LAMBDA v : v # SqlNull))

\* generate_fact_sk: xxhash64 takes the values in order and passes over NULLs.
FactSk(ids) == SelectSeq(ids, LAMBDA v : v # SqlNull)
=============================================================================
