--------------------------- MODULE DistinctTracker --------------------------
(***************************************************************************)
(* Counting the distinct values of a result column in bounded memory       *)
(* (_DistinctTracker, src/scripts/run_readonly_query.py): the values       *)
(* themselves up to a number and a size, then the KmvHashes smallest of    *)
(* their hashes, from which the count is estimated.                        *)
(*                                                                         *)
(* The hashes kept are held twice: in a set, which tells whether a hash is *)
(* known, and in a heap, which tells the largest.  heapq is external: a    *)
(* heap is the set of its elements.  The switch to hashes takes one step   *)
(* per value, as its loop does, in any order.                              *)
(***************************************************************************)
EXTENDS Naturals, FiniteSets

CONSTANTS
    Values,         \* canonical non-null values
    Hash,           \* [Values -> 0..HashRange-1]
    HashRange,
    CanonicalBytes, \* [Values -> Nat]
    ExactMaxValues, \* DISTINCT_EXACT_MAX_VALUES
    ExactMaxBytes,  \* DISTINCT_EXACT_MAX_UTF8_BYTES
    KmvHashes       \* DISTINCT_KMV_HASHES

ASSUME TrackerConstants ==
    /\ HashRange \in Nat
    /\ Hash \in [Values -> 0..HashRange-1]
    /\ CanonicalBytes \in [Values -> Nat]
    /\ ExactMaxValues \in Nat /\ ExactMaxBytes \in Nat
    /\ KmvHashes \in Nat /\ KmvHashes >= 2

VARIABLES
    mode,       \* "exact", "switching" or "approximate"
    exact,      \* the values, while there are few
    exactBytes, \* their size
    left,       \* while switching: the values to be hashed, and the one
    incoming,   \* that did not fit
    kmv,        \* the hashes kept, as a set
    heap        \* and as a heap

tracker == <<mode, exact, exactBytes, left, incoming, kmv, heap>>

TrackerInit ==
    /\ mode = "exact"
    /\ exact = {} /\ exactBytes = 0
    /\ left = {} /\ incoming = {}
    /\ kmv = {} /\ heap = {}

Largest(hashes) == CHOOSE m \in hashes : \A h \in hashes : h <= m

(* Faulty variant of AddHash: the largest hash stays in the heap.          *)
AddHashToSet(h) ==
    IF h \in kmv THEN UNCHANGED <<kmv, heap>>
    ELSE IF Cardinality(kmv) < KmvHashes
    THEN kmv' = kmv \cup {h} /\ heap' = heap \cup {h}
    ELSE LET removed == Largest(heap) IN
         /\ kmv' = IF h < removed THEN (kmv \ {removed}) \cup {h} ELSE kmv
         /\ heap' = IF h < removed THEN heap \cup {h} ELSE heap

(* _add_kmv_hash                                                           *)
AddHash(h) ==
    IF h \in kmv THEN UNCHANGED <<kmv, heap>>
    ELSE IF Cardinality(kmv) < KmvHashes
    THEN kmv' = kmv \cup {h} /\ heap' = heap \cup {h}
    ELSE LET removed == Largest(heap) IN
         /\ kmv' = IF h < removed THEN (kmv \ {removed}) \cup {h} ELSE kmv
         /\ heap' = IF h < removed THEN (heap \ {removed}) \cup {h} ELSE heap

(* observe, of a value                                                     *)
FitsExactly(v) ==
    /\ Cardinality(exact) < ExactMaxValues
    /\ exactBytes + CanonicalBytes[v] <= ExactMaxBytes

Observe(v) ==
    \/ /\ mode = "exact" /\ v \in exact
       /\ UNCHANGED tracker
    \/ /\ mode = "exact" /\ v \notin exact /\ FitsExactly(v)
       /\ exact' = exact \cup {v}
       /\ exactBytes' = exactBytes + CanonicalBytes[v]
       /\ UNCHANGED <<mode, left, incoming, kmv, heap>>
    \/ /\ mode = "exact" /\ v \notin exact /\ ~FitsExactly(v)
       /\ mode' = "switching"
       /\ left' = exact /\ incoming' = {v}
       /\ UNCHANGED <<exact, exactBytes, kmv, heap>>
    \/ /\ mode = "approximate"
       /\ AddHash(Hash[v])
       /\ UNCHANGED <<mode, exact, exactBytes, left, incoming>>

(* _switch_to_approximate, and the hash of the value that brought it about *)
SwitchValue(v) ==
    /\ mode = "switching"
    /\ v \in left
    /\ AddHash(Hash[v])
    /\ left' = left \ {v}
    /\ UNCHANGED <<mode, exact, exactBytes, incoming>>

Switched(v) ==
    /\ mode = "switching"
    /\ left = {}
    /\ v \in incoming
    /\ AddHash(Hash[v])
    /\ mode' = "approximate"
    /\ exact' = {} /\ exactBytes' = 0 /\ incoming' = {}
    /\ UNCHANGED left

(* Faulty variant of DistinctCount: an estimate in any case.               *)
DistinctEstimate(nonNull) ==
    LET kept == Cardinality(kmv)
        estimate == ((KmvHashes - 1) * HashRange) \div (Largest(kmv) + 1)
        capped == IF nonNull < estimate THEN nonNull ELSE estimate
    IN  IF mode = "exact" THEN Cardinality(exact)
        ELSE IF capped < kept THEN kept ELSE capped

(* finish: the distinct count of a profile.  With fewer hashes than it may *)
(* keep, the tracker has kept them all.                                    *)
DistinctCount(nonNull) ==
    LET kept == Cardinality(kmv)
        estimate == IF kept < KmvHashes THEN kept
                    ELSE ((KmvHashes - 1) * HashRange) \div (Largest(kmv) + 1)
        capped == IF nonNull < estimate THEN nonNull ELSE estimate
    IN  IF mode = "exact" THEN Cardinality(exact)
        ELSE IF capped < kept THEN kept ELSE capped

-----------------------------------------------------------------------------
(* What the tracker should know of the values it has seen.                 *)

HashesOf(seen) == {Hash[v] : v \in seen}

(* The k smallest of some numbers.                                         *)
KSmallest(S, all) ==
    /\ S \subseteq all
    /\ Cardinality(S) <= KmvHashes
    /\ S # all => /\ Cardinality(S) = KmvHashes
                  /\ \A a \in S, b \in all \ S : a < b

TrackerRight(seen) ==
    /\ mode = "exact" => exact = seen /\ kmv = {}
    /\ mode = "switching" =>
         /\ exact = seen \ incoming /\ incoming \subseteq seen
         /\ KSmallest(kmv, HashesOf(exact \ left))
    /\ mode = "approximate" => KSmallest(kmv, HashesOf(seen))
    /\ heap = kmv
=============================================================================
