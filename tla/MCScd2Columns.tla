---------------------------- MODULE MCScd2Columns ----------------------------
(* Instances of Scd2Columns for TLC. *)
EXTENDS Scd2Columns

\* Two keys whose ids spell the same text.
TextKeys == {<<"a", "bc">>, <<"ab", "c">>}

ColumnNames == <<"city", "name", "seen">>

\* The first two have one value in different columns, the first and the last
\* differ in what is missing and in an ignored column.
Payloads ==
  {[city |-> SqlNull, name |-> "x", seen |-> "1"],
   [city |-> "x", name |-> SqlNull, seen |-> "1"],
   [city |-> "", name |-> "x", seen |-> "2"]}

\* The table is one of those the theorems of Scd2Proofs about texts are about.
ASSUME TextsAssumption == Columnar /\ ChecksumsApart /\ SurrogatesApart
=============================================================================
