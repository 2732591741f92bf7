------------------------------ MODULE MCMergeCall ------------------------------
(* An instance of MergeCall for TLC. *)
EXTENDS MergeCall

Columns == [start |-> "start", end |-> "end", current |-> "current", checksum |-> "checksum"]
TypeOf(x) == IF x \in {"current", "key"} THEN "number" ELSE "string"
Schema(S) == [x \in S |-> TypeOf(x)]
PrefixedNames == {"sk_client", "sk_city"}

(* Calls: a plain one of every type, and variations of it. *)
Plain(t) ==
  [type |-> t, typed |-> FALSE, renamed |-> FALSE, ids |-> {"id"}, tracked |-> {},
   protected |-> {}, previous |-> <<>>, history |-> FALSE, columns |-> Columns,
   skType |-> "", skName |-> "", partFrom |-> "", part |-> "", ignored |-> {}, filter |-> "", cdc |-> "timestamp_dms"]
Previous == [x \in {"city"} |-> "old_city"]
Configured(t) ==
  [Plain(t) EXCEPT !.typed = TRUE, !.previous = IF t \in {"scd3", "scd6"} THEN Previous ELSE <<>>,
     !.history = t = "scd4", !.cdc = "city", !.protected = IF t = "scd0" THEN {"city"} ELSE {}]
Basic ==
  {Plain(t) : t \in {"scd", "scd_no_delete", "upsert", "upsert-delete", "scd2_cdc", "scd4",
                     "overwrite", "overwrite-partition", "merge"}}
    \cup {Configured(t) : t \in {"scd0", "scd2", "scd2_cdc", "scd3", "scd4", "scd6", "overwrite"}}
WithSk(c, type, name) == [c EXCEPT !.skType = type, !.skName = name]
PartedBy(c, from) == [c EXCEPT !.partFrom = from, !.part = "month"]
SomeCalls ==
  Basic
    \cup {WithSk(c, t, n) : c \in Basic, t \in {"dim", "fact"}, n \in {"sk_client", "key", "checksum"}}
    \cup {PartedBy(c, x) : c \in Basic, x \in {"city", "end", "none"}}
    \cup {PartedBy(WithSk(c, "dim", "sk_client"), "city") : c \in Basic}
    \cup {[c EXCEPT !.filter = "city"] : c \in Basic}
    \cup {[c EXCEPT !.tracked = {"city", "sk_city"}, !.protected = {}] : c \in Basic}
    \cup {[c EXCEPT !.ids = {"id", "old_city"}] : c \in Basic}
    \cup {[c EXCEPT !.ignored = {"city"}] : c \in Basic}
    \cup {[c EXCEPT !.renamed = TRUE] : c \in Basic}
    \cup {[WithSk(c, "dim", "old_city") EXCEPT !.columns.end = "start"] : c \in Basic}
    \cup {WithSk(c, "dim", "old_city") : c \in Basic}

(* Schemas: the business columns with any of some others. *)
SomeSources ==
  {Schema({"id", "city"} \cup S) :
     S \in {S \in SUBSET {"old_city", "sk_city", "deleted", "merge_key1", "checksum"} : Cardinality(S) < 3}}
    \cup {Schema({"id"}), [Schema({"id", "city"}) EXCEPT !["city"] = "number"]}
VersionNames == {"start", "end", "current", "checksum"}
SomeTables ==
  {[exists |-> TRUE, empty |-> e, schema |-> Schema({"id", "city"} \cup V \cup S)] :
     e \in BOOLEAN, V \in {{}, {"checksum"}, VersionNames},
     S \in {{"old_city", "sk_client", "month"}} \cup
           {S \in SUBSET {"old_city", "sk_client", "sk_city", "deleted", "month", "key"} : Cardinality(S) < 3}}
    \cup {[exists |-> FALSE, empty |-> TRUE, schema |-> Schema({})],
          [exists |-> TRUE, empty |-> FALSE,
           schema |-> [Schema({"id", "city"} \cup VersionNames) EXCEPT !["checksum"] = "number"]]}
=============================================================================
