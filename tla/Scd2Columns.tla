----------------------------- MODULE Scd2Columns -----------------------------
(***************************************************************************)
(* Scd2 on tables whose columns are known: a payload is a function from    *)
(* column names to texts, a key the sequence of its ids, and checksums and *)
(* surrogate keys are those df_utils.py computes.  What Scd2 says of       *)
(* checksums is said here of the columns themselves.                       *)
(***************************************************************************)
EXTENDS Scd2, DfUtils

CONSTANTS
  Ignored,   \* checksum_ignore_columns
  Tracked    \* tracked_columns: a set of one set of columns, or of none

Business == ToSet(ByName)
Hashed   == HashedColumns(Business, Tracked, Ignored, {}, {})

\* Step 6 of merge_delta_table, of every payload.
CheckSums == [v \in Vals |-> CheckSum(v, Hashed)]

\* Step 7: the surrogate key a version got with its row.  The start of the version
\* stands for current_timestamp(), which the query that writes the row evaluates.
SurrogateKey(r) == DimSk(r.key, r.cs, ToString(r.start))

(***************************************************************************)
(* What a table must be like for its texts to say what is in it.  Nothing  *)
(* in the code sees to that.                                               *)
(***************************************************************************)
\* No two of these sequences are joined to one text, because of "||" in a value.
JoinedApart(S) == \A a, b \in S : Joined(a) = Joined(b) => a = b

ChecksumsApart == JoinedApart({Tokens(v, Hashed) : v \in Vals})

SurrogatesApart ==
  /\ JoinedApart({DimTokens(k, CsOf[v], ToString(t))
                    : k \in Keys, v \in Vals, t \in NullTime .. MaxRuns})
  /\ \A t, u \in NullTime .. MaxRuns : ToString(t) = ToString(u) => t = u

\* Checksums are of the columns, of which there are those hashed (step 6 rejects
\* others), and a key has a text for each of the ids.
Columnar ==
  /\ CsOf = CheckSums
  /\ Hashed \subseteq Business
  /\ \A k \in Keys : k \in Seq(ToSet(k) \ {SqlNull})
  /\ \A k, l \in Keys : Len(k) = Len(l)

Missing == {SqlNull, "", "*"}
Same(v, w) == \A c \in Hashed : v[c] = w[c] \/ {v[c], w[c]} \subseteq Missing

\* README.md: "Checksum change detection".  With one job, what a
\* committed load brings is current in every hashed column, up to the one token for
\* what is missing; and a version only follows one it differs from.
ChangesSeen ==
  /\ \A j \in Jobs : job[j].pc \in {"count", "current", "bounds"} =>
       \A s \in job[j].feed :
         \E r \in Current(target) : r.key = s.key /\ Same(r.val, s.val)
  /\ \A q, r \in target : q.key = r.key /\ q.end + 1 = r.start => ~ Same(q.val, r.val)

\* generate_dim_sk: "Key is unique per SCD2 version".  No two rows have the same
\* surrogate key, though a key may return to an earlier payload, or two keys have
\* one payload and begin together.
SurrogateUnique ==
  \A q, r \in target : q # r => SurrogateKey(q) # SurrogateKey(r)
=============================================================================
