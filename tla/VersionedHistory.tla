--------------------------- MODULE VersionedHistory ---------------------------
(***************************************************************************)
(* What a Type 2 dimension promises its readers, without staging legs,     *)
(* merge keys or sentinels: at most one live version per key and a past    *)
(* that only grows.  A load is asked for, with its feed and its instant,   *)
(* and later done at once or dropped.  Done, it keeps a live version       *)
(* whose payload has the same checksum in the feed, ends every version the *)
(* feed changes, and opens a version for every other row of the feed.  A   *)
(* full load also ends the versions of the keys the feed leaves out.       *)
(***************************************************************************)
EXTENDS Integers

CONSTANTS
  Feeds,     \* the feeds a load may bring: sets of [key, val], one row per key
  CsOf,      \* the checksum of a payload
  Stamps,    \* the instants of loads
  Ordered    \* TRUE: a load is later than every live version when it is done

VARIABLES
  live,      \* the versions now valid: [key, val, from]
  past,      \* the versions ended: [key, val, from, to]
  asked      \* the loads not yet done or dropped: [feed, full, at]

vars == <<live, past, asked>>

Init ==
  /\ \E F \in Feeds : live = {[key |-> s.key, val |-> s.val, from |-> 0] : s \in F}
  /\ past = {}
  /\ asked = {}

Ask(load) ==
  /\ asked' = asked \cup {load}
  /\ UNCHANGED <<live, past>>

\* Version v survives the load.
Kept(v, load) ==
  \/ ~ load.full /\ \A s \in load.feed : s.key # v.key
  \/ \E s \in load.feed : s.key = v.key /\ CsOf[s.val] = CsOf[v.val]

Load(load) ==
  LET kept  == {v \in live : Kept(v, load)}
      fresh == {s \in load.feed : \A v \in kept : v.key # s.key}
  IN /\ Ordered => \A v \in live : v.from < load.at
     /\ live' = kept \cup {[key |-> s.key, val |-> s.val, from |-> load.at] : s \in fresh}
     /\ past' = past \cup {[key |-> v.key, val |-> v.val, from |-> v.from,
                            to |-> load.at - 1] : v \in live \ kept}
     /\ asked' = asked \ {load}

Drop(load) ==
  /\ asked' = asked \ {load}
  /\ UNCHANGED <<live, past>>

Next ==
  \/ \E load \in asked : Load(load) \/ Drop(load)
  \/ \E load \in [feed : Feeds, full : BOOLEAN, at : Stamps] : Ask(load)

Spec == Init /\ [][Next]_vars
=============================================================================
