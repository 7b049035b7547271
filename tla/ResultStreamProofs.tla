------------------------- MODULE ResultStreamProofs -------------------------
(***************************************************************************)
(* Proofs about the execution of a query: for any table, any limits, any   *)
(* hash function and any number of failures, what is published is the      *)
(* table up to the approved number of rows, an execution that has failed   *)
(* reads nothing more and leaves nothing, and the tracker of distinct      *)
(* values is right, and so is the count that it gives.                     *)
(*                                                                         *)
(* The inductive invariant says where a row can be: what has come from the *)
(* database is in the file or in the batch, in the order of the table.     *)
(***************************************************************************)
EXTENDS ResultStream, OrderFacts, FiniteSetTheorems, SequenceTheorems

(* The rows written and those of the batch are the first of the table.     *)
InOrder ==
    /\ Len(csv) + Len(batch) <= Len(table)
    /\ \A k \in 1..Len(csv) : csv[k] = table[k]
    /\ \A k \in 1..Len(batch) : batch[k] = table[Len(csv) + k]

Flow ==
    /\ InOrder
    /\ Len(csv) + Len(batch) <= MaxRows
    /\ read <= Served
    /\ pc \in {"leased", "opened", "streaming"} =>
         /\ read = Len(csv) + Len(batch)
         /\ ~exhausted /\ ~truncated
    /\ pc \in {"leased", "opened"} => batch = <<>> /\ csv = <<>> /\ ~short
    /\ pc = "streaming" /\ short => read = Served
    /\ exhausted =>
         /\ read = Served
         /\ Len(csv) = Smaller(Served, MaxRows)
         /\ truncated = (Served > MaxRows)

Phases ==
    /\ failed => pc \in {"closing", "aborting", "withdrawing", "unlinking", "failed", "dead"}
    /\ pc \in {"aborting", "withdrawing", "unlinking", "failed"} => failed
    /\ pc \in {"written", "profiled", "placed", "announced", "moved", "withdrawing", "done"} =>
         exhausted
    /\ pc = "closing" /\ ~failed => exhausted
    /\ pc \in {"leased", "opened", "placed", "announced", "moved", "done"} => place # "temporary"

(* Where a publication can be.                                             *)
Publishing ==
    /\ lease \in {"publishing", "completed"} =>
         /\ exhausted
         /\ pc \in {"announced", "moved", "withdrawing", "unlinking", "done", "failed", "dead"}
    /\ lease = "completed" => place = "output"
    /\ pc = "announced" => lease = "publishing"
    /\ pc = "moved" => lease = "publishing" /\ place = "output"
    /\ pc = "done" => lease = "completed"
    /\ pc = "unlinking" => place # "output"
    /\ stuck => pc \in {"withdrawing", "unlinking", "failed", "dead"}

Requested == limit # 0 => Len(table) <= limit

TrackerTypes ==
    /\ mode \in {"exact", "switching", "approximate"}
    /\ exact \subseteq Values /\ IsFiniteSet(exact)
    /\ Cardinality(exact) <= ExactMaxValues
    /\ exactBytes \in 0..ExactMaxBytes
    /\ left \subseteq exact
    /\ incoming \subseteq Values
    /\ mode = "switching" => \E v \in Values : incoming = {v}
    /\ kmv \subseteq 0..HashRange-1
    /\ Cardinality(kmv) <= KmvHashes

StreamTypes ==
    /\ table \in Tables /\ limit \in Limits /\ mysql \in BOOLEAN
    /\ pc \in {"leased", "opened", "streaming", "written", "closing", "profiled", "placed",
              "announced", "moved", "aborting", "withdrawing", "unlinking", "done", "failed",
              "dead"}
    /\ read \in 0..MaxRows+1
    /\ batch \in Seq(Rows) /\ Len(batch) <= BatchSize
    /\ short \in BOOLEAN /\ exhausted \in BOOLEAN /\ truncated \in BOOLEAN
    /\ csv \in Seq(Rows)
    /\ bytes \in 0..MaxBytes
    /\ place \in {"nowhere", "temporary", "staged", "output"} /\ active \in BOOLEAN
    /\ failed \in BOOLEAN /\ late \in BOOLEAN /\ stuck \in BOOLEAN
    /\ lease \in {"executing", "publishing", "completed", "aborted"}
    /\ faults \in 0..MaxFaults

Inv ==
    /\ StreamTypes /\ Requested /\ Flow /\ Phases /\ Publishing
    /\ TrackerTypes /\ TrackerRight(Seen)

-----------------------------------------------------------------------------
(* The tracker.                                                            *)

(* Hashes are numbers below HashRange.                                     *)
LEMMA HashTypes ==
    /\ HashRange \in Nat
    /\ \A v \in Values : Hash[v] \in 0..HashRange-1
    /\ \A seen \in SUBSET Values : HashesOf(seen) \subseteq 0..HashRange-1
    /\ \A seen \in SUBSET Values, v \in Values :
           HashesOf(seen \cup {v}) = HashesOf(seen) \cup {Hash[v]}
    /\ HashesOf({}) = {}
BY TrackerConstants DEF HashesOf

(* A set of hashes that is not empty has a largest.                        *)
LEMMA LargestIs ==
    ASSUME NEW hashes \in SUBSET (0..HashRange-1), hashes # {}
    PROVE  /\ Largest(hashes) \in hashes
           /\ \A h \in hashes : h <= Largest(hashes)
<1>1. HashRange \in Nat /\ HashRange # 0
  <2>1. PICK h \in 0..HashRange-1 : h \in hashes
    OBVIOUS
  <2> QED BY <2>1, HashTypes
<1>2. HashRange - 1 \in Nat
  BY <1>1
<1>3. \E m \in hashes : \A h \in hashes : h <= m
  BY <1>2, NatMaximum
<1> QED BY <1>3, Zenon DEF Largest

(* _add_kmv_hash keeps the smallest hashes.                                *)
LEMMA AddHashKeeps ==
    ASSUME NEW all \in SUBSET (0..HashRange-1), KSmallest(kmv, all), heap = kmv,
           NEW h \in 0..HashRange-1, AddHash(h)
    PROVE  KSmallest(kmv', all \cup {h}) /\ heap' = kmv' /\ kmv' \subseteq all \cup {h}
<1>1. /\ HashRange \in Nat /\ KmvHashes \in Nat /\ KmvHashes >= 2
  BY TrackerConstants
<1>2. /\ kmv \subseteq all /\ Cardinality(kmv) <= KmvHashes
      /\ kmv # all => Cardinality(kmv) = KmvHashes /\ \A a \in kmv, b \in all \ kmv : a < b
  BY DEF KSmallest
<1>3. IsFiniteSet(0..HashRange-1)
  BY <1>1, FS_Interval
<1>4. IsFiniteSet(kmv) /\ Cardinality(kmv) \in Nat
  BY <1>2, <1>3, FS_Subset, FS_CardinalityType
<1>5. CASE h \in kmv
  <2>1. kmv' = kmv /\ heap' = heap /\ all \cup {h} = all
    BY <1>2, <1>5 DEF AddHash
  <2> QED BY <2>1, <1>2
<1>6. CASE h \notin kmv /\ Cardinality(kmv) < KmvHashes
  <2>1. kmv' = kmv \cup {h} /\ heap' = heap \cup {h} /\ kmv = all
    BY <1>2, <1>4, <1>1, <1>6 DEF AddHash
  <2>2. Cardinality(kmv \cup {h}) = Cardinality(kmv) + 1
    BY <1>4, <1>6, FS_AddElement
  <2>3. Cardinality(kmv') <= KmvHashes
    BY <2>1, <2>2, <1>1, <1>4, <1>6
  <2> QED BY <2>1, <2>3 DEF KSmallest
<1>7. CASE h \notin kmv /\ ~(Cardinality(kmv) < KmvHashes)
  <2> DEFINE removed == Largest(kmv)
  <2>1. Cardinality(kmv) = KmvHashes
    BY <1>7, <1>2, <1>4, <1>1
  <2>2. kmv # {}
    BY <2>1, <1>1, FS_EmptySet
  <2>3. kmv \in SUBSET (0..HashRange-1)
    BY <1>2
  <2>4. removed \in kmv /\ \A x \in kmv : x <= removed
    BY <2>2, <2>3, LargestIs
  <2>5. \A a \in kmv, b \in all \ kmv : a < b
    BY <1>2
  <2>6. /\ kmv' = IF h < removed THEN (kmv \ {removed}) \cup {h} ELSE kmv
        /\ heap' = IF h < removed THEN (heap \ {removed}) \cup {h} ELSE heap
    BY <1>7 DEF AddHash
  <2> HIDE DEF removed
  <2>7. removed \in Nat /\ \A x \in all : x \in Nat
    BY <2>3, <2>4, <1>1
  <2>8. CASE h < removed
    <3>1. kmv' = (kmv \ {removed}) \cup {h} /\ heap' = kmv'
      BY <2>6, <2>8
    <3>2. IsFiniteSet(kmv \ {removed}) /\ Cardinality(kmv \ {removed}) = KmvHashes - 1
      BY <2>1, <2>4, <1>4, FS_RemoveElement
    <3>3. Cardinality(kmv') = Cardinality(kmv \ {removed}) + 1
      BY <3>1, <3>2, <1>7, FS_AddElement
    <3>4. Cardinality(kmv') = KmvHashes
      BY <3>2, <3>3, <1>1
    <3>5. kmv' \subseteq all \cup {h}
      BY <3>1, <1>2
    <3>6. ASSUME NEW a \in kmv', NEW b \in (all \cup {h}) \ kmv' PROVE a < b
      <4>1. b = removed \/ b \in all \ kmv
        BY <3>1
      <4>2. removed <= b
        BY <4>1, <2>4, <2>5, <2>7
      <4>3. a = h \/ (a \in kmv /\ a # removed)
        BY <3>1
      <4>4. a \in Nat /\ b \in Nat
        <5>1. h \in Nat
          BY <1>1
        <5>2. a \in Nat
          BY <4>3, <5>1, <2>7, <1>2
        <5>3. b \in Nat
          BY <4>1, <2>7
        <5> QED BY <5>2, <5>3
      <4>5. CASE a = h
        BY <4>5, <4>2, <4>4, <2>8, <2>7
      <4>6. CASE a \in kmv /\ a # removed
        <5>1. a <= removed
          BY <4>6, <2>4
        <5> QED BY <5>1, <4>6, <4>2, <4>4, <2>7
      <4> QED BY <4>3, <4>5, <4>6
    <3> QED BY <3>1, <3>4, <3>5, <3>6, <1>1 DEF KSmallest
  <2>9. CASE ~(h < removed)
    <3>1. kmv' = kmv /\ heap' = kmv'
      BY <2>6, <2>9
    <3>2. removed < h
      BY <2>9, <2>4, <2>7, <1>7
    <3>3. ASSUME NEW a \in kmv, NEW b \in (all \cup {h}) \ kmv PROVE a < b
      <4>1. a <= removed /\ a \in Nat
        BY <2>4, <2>7, <1>2
      <4>2. CASE b = h
        BY <4>1, <4>2, <3>2, <2>7
      <4>3. CASE b \in all \ kmv
        BY <4>3, <2>5
      <4> QED BY <4>2, <4>3
    <3> QED BY <3>1, <3>3, <2>1, <1>2 DEF KSmallest
  <2> QED BY <2>8, <2>9
<1> QED BY <1>5, <1>6, <1>7

(* observe, of a value: the tracker knows one value more.                  *)
LEMMA ObserveKeeps ==
    ASSUME TrackerTypes, NEW seen \in SUBSET Values, TrackerRight(seen),
           NEW v \in Values, Observe(v)
    PROVE  /\ TrackerTypes' /\ TrackerRight(seen \cup {v})'
<1>1. /\ KmvHashes \in Nat /\ ExactMaxValues \in Nat /\ ExactMaxBytes \in Nat
      /\ CanonicalBytes[v] \in Nat
  BY TrackerConstants
<1>2. IsFiniteSet(exact) /\ Cardinality(exact) \in Nat
  BY FS_CardinalityType DEF TrackerTypes
<1>3. /\ mode = "exact" => exact = seen /\ kmv = {}
      /\ mode = "approximate" => KSmallest(kmv, HashesOf(seen))
      /\ heap = kmv
  BY DEF TrackerRight
<1>4. KSmallest({}, {})
  BY <1>1, FS_EmptySet DEF KSmallest
<1>5. CASE mode = "exact" /\ v \in exact /\ UNCHANGED tracker
  <2>1. seen \cup {v} = seen
    BY <1>5, <1>3
  <2> QED BY <1>5, <2>1 DEF TrackerTypes, TrackerRight, tracker
<1>6. CASE /\ mode = "exact" /\ v \notin exact /\ FitsExactly(v)
           /\ exact' = exact \cup {v}
           /\ exactBytes' = exactBytes + CanonicalBytes[v]
           /\ UNCHANGED <<mode, left, incoming, kmv, heap>>
  <2>1. IsFiniteSet(exact') /\ Cardinality(exact') = Cardinality(exact) + 1
    BY <1>6, <1>2, FS_AddElement
  <2>2. Cardinality(exact') <= ExactMaxValues
    BY <2>1, <1>6, <1>2, <1>1 DEF FitsExactly
  <2>3. exactBytes' \in 0..ExactMaxBytes
    BY <1>6, <1>1 DEF FitsExactly, TrackerTypes
  <2>4. TrackerTypes'
    BY <1>6, <2>1, <2>2, <2>3 DEF TrackerTypes
  <2>5. TrackerRight(seen \cup {v})'
    BY <1>6, <1>3 DEF TrackerRight
  <2> QED BY <1>6, <2>4, <2>5
<1>7. CASE /\ mode = "exact" /\ v \notin exact /\ ~FitsExactly(v)
           /\ mode' = "switching"
           /\ left' = exact /\ incoming' = {v}
           /\ UNCHANGED <<exact, exactBytes, kmv, heap>>
  <2>1. TrackerTypes'
    BY <1>7 DEF TrackerTypes
  <2>2. exact' \ left' = {}
    BY <1>7
  <2>3. KSmallest(kmv', HashesOf(exact' \ left'))
    BY <2>2, <1>3, <1>4, <1>7, HashTypes
  <2>4. exact' = (seen \cup {v}) \ incoming' /\ incoming' \subseteq seen \cup {v}
    BY <1>3, <1>7
  <2>5. heap' = kmv'
    BY <1>3, <1>7
  <2>6. TrackerRight(seen \cup {v})'
    BY <1>7, <2>3, <2>4, <2>5 DEF TrackerRight
  <2> QED BY <1>7, <2>1, <2>6
<1>8. CASE /\ mode = "approximate"
           /\ AddHash(Hash[v])
           /\ UNCHANGED <<mode, exact, exactBytes, left, incoming>>
  <2>1. /\ KSmallest(kmv', HashesOf(seen) \cup {Hash[v]}) /\ heap' = kmv'
        /\ kmv' \subseteq HashesOf(seen) \cup {Hash[v]}
    BY <1>3, <1>8, HashTypes, AddHashKeeps
  <2>2. KSmallest(kmv', HashesOf(seen \cup {v}))
    BY <2>1, HashTypes
  <2>3. kmv' \subseteq 0..HashRange-1
    BY <2>1, HashTypes
  <2>4. Cardinality(kmv') <= KmvHashes
    BY <2>1 DEF KSmallest
  <2>5. TrackerTypes'
    BY <1>8, <2>3, <2>4 DEF TrackerTypes
  <2>6. TrackerRight(seen \cup {v})'
    BY <1>8, <2>1, <2>2 DEF TrackerRight
  <2> QED BY <1>8, <2>5, <2>6
<1> QED BY <1>5, <1>6, <1>7, <1>8 DEF Observe

(* _switch_to_approximate, of one value and of the last: the tracker knows *)
(* the same values as before.                                              *)
LEMMA SwitchKeeps ==
    ASSUME TrackerTypes, NEW seen \in SUBSET Values, TrackerRight(seen),
           NEW v \in Values, SwitchValue(v) \/ Switched(v)
    PROVE  TrackerTypes' /\ TrackerRight(seen)'
<1>1. /\ mode = "switching"
      /\ exact = seen \ incoming /\ incoming \subseteq seen
      /\ KSmallest(kmv, HashesOf(exact \ left))
      /\ heap = kmv
      /\ exact \subseteq Values /\ left \subseteq exact
  BY DEF TrackerRight, TrackerTypes, SwitchValue, Switched
<1>2. /\ KSmallest(kmv', HashesOf((exact \ left) \cup {v})) /\ heap' = kmv'
      /\ kmv' \subseteq 0..HashRange-1
  <2>1. AddHash(Hash[v])
    BY DEF SwitchValue, Switched
  <2>2. exact \ left \in SUBSET Values
    BY <1>1
  <2>3. /\ KSmallest(kmv', HashesOf(exact \ left) \cup {Hash[v]}) /\ heap' = kmv'
        /\ kmv' \subseteq HashesOf(exact \ left) \cup {Hash[v]}
    BY <1>1, <2>1, <2>2, HashTypes, AddHashKeeps
  <2> QED BY <2>2, <2>3, HashTypes
<1>3. Cardinality(kmv') <= KmvHashes
  BY <1>2 DEF KSmallest
<1>4. CASE SwitchValue(v)
  <2>1. exact' \ left' = (exact \ left) \cup {v}
    BY <1>1, <1>4 DEF SwitchValue
  <2>2. TrackerTypes'
    BY <1>2, <1>3, <1>4 DEF SwitchValue, TrackerTypes
  <2>3. /\ mode' = "switching" /\ exact' = seen \ incoming' /\ incoming' \subseteq seen
        /\ KSmallest(kmv', HashesOf(exact' \ left')) /\ heap' = kmv'
    BY <1>1, <1>2, <1>4, <2>1 DEF SwitchValue
  <2> QED BY <2>2, <2>3 DEF TrackerRight
<1>5. CASE Switched(v)
  <2>1. incoming = {v}
    BY <1>1, <1>5 DEF Switched, TrackerTypes
  <2>2. (exact \ left) \cup {v} = seen
    BY <1>1, <1>5, <2>1 DEF Switched
  <2>3. Cardinality({}) = 0 /\ IsFiniteSet({})
    BY FS_EmptySet
  <2>4. TrackerTypes'
    BY <1>2, <1>3, <1>5, <2>3, TrackerConstants DEF Switched, TrackerTypes
  <2>5. mode' = "approximate" /\ KSmallest(kmv', HashesOf(seen)) /\ heap' = kmv'
    BY <1>2, <1>5, <2>2 DEF Switched
  <2> QED BY <2>4, <2>5 DEF TrackerRight
<1> QED BY <1>4, <1>5

-----------------------------------------------------------------------------
(* The rows.                                                               *)

LEMMA Constants ==
    /\ MaxRows \in Nat /\ MaxRows # 0 /\ BatchSize \in Nat /\ BatchSize # 0
    /\ MaxBytes \in Nat /\ HeaderBytes \in Nat /\ MaxFaults \in Nat
    /\ \A row \in Rows : RowBytes[row] \in Nat
    /\ \A t \in Tables : t \in Seq(Rows) /\ Len(t) \in Nat
    /\ Limits \subseteq Nat
    /\ HashRange \in Nat /\ ExactMaxBytes \in Nat /\ ExactMaxValues \in Nat
    /\ KmvHashes \in Nat
BY StreamConstants, TrackerConstants, LenProperties

(* What the query that is executed returns: the table, or one row more     *)
(* than is approved of a longer one.                                       *)
LEMMA ServedIs ==
    ASSUME table \in Tables, limit \in Limits, Requested
    PROVE  /\ Served \in Nat /\ Served <= Len(table) /\ Served <= MaxRows + 1
           /\ Smaller(Served, MaxRows) = Smaller(Len(table), MaxRows)
           /\ (Served > MaxRows) = (Len(table) > MaxRows)
<1>1. Len(table) \in Nat /\ limit \in Nat /\ MaxRows \in Nat /\ MaxRows # 0
  BY Constants
<1>2. CASE limit = 0 \/ limit > MaxRows + 1
  BY <1>1, <1>2 DEF Served, Smaller, Bounded
<1>3. CASE ~(limit = 0 \/ limit > MaxRows + 1)
  BY <1>1, <1>3 DEF Served, Smaller, Bounded, Requested
<1> QED BY <1>2, <1>3

(* The values of a longer file.                                            *)
LEMMA SeenTypes ==
    ASSUME csv \in Seq(Rows)
    PROVE  Seen \in SUBSET Values
<1>1. \A i \in DOMAIN csv : csv[i] \in Rows
  BY LenProperties
<1> QED BY <1>1 DEF Seen, Rows

LEMMA SeenAfter ==
    ASSUME csv \in Seq(Rows), NEW row \in Rows, csv' = Append(csv, row)
    PROVE  Seen' = IF row = Null THEN Seen ELSE Seen \cup {row}
<1>1. /\ csv' \in Seq(Rows) /\ Len(csv') = Len(csv) + 1 /\ Len(csv) \in Nat
      /\ \A i \in 1..Len(csv) : csv'[i] = csv[i]
      /\ csv'[Len(csv) + 1] = row
  BY AppendProperties, LenProperties
<1>2. DOMAIN csv = 1..Len(csv) /\ DOMAIN csv' = 1..Len(csv) + 1
  BY <1>1, LenProperties
<1>3. {csv'[i] : i \in DOMAIN csv'} = {csv[i] : i \in DOMAIN csv} \cup {row}
  <2>1. ASSUME NEW i \in DOMAIN csv' PROVE csv'[i] \in {csv[j] : j \in DOMAIN csv} \cup {row}
    <3>1. i \in DOMAIN csv \/ i = Len(csv) + 1
      BY <1>1, <1>2
    <3> QED BY <3>1, <1>1, <1>2
  <2>2. ASSUME NEW i \in DOMAIN csv PROVE csv[i] \in {csv'[j] : j \in DOMAIN csv'}
    <3>1. i \in DOMAIN csv' /\ csv'[i] = csv[i]
      BY <1>1, <1>2
    <3> QED BY <3>1, Zenon
  <2>3. row \in {csv'[j] : j \in DOMAIN csv'}
    <3>1. Len(csv) + 1 \in DOMAIN csv'
      BY <1>1, <1>2
    <3> QED BY <3>1, <1>1, Zenon
  <2>4. ASSUME NEW x \in {csv'[i] : i \in DOMAIN csv'}
        PROVE  x \in {csv[j] : j \in DOMAIN csv} \cup {row}
    BY <2>1, Zenon
  <2>5. ASSUME NEW x \in {csv[j] : j \in DOMAIN csv} \cup {row}
        PROVE  x \in {csv'[i] : i \in DOMAIN csv'}
    BY <2>2, <2>3, Zenon
  <2> QED BY <2>4, <2>5, Zenon
<1> QED BY <1>3 DEF Seen

(* A file and a tracker that do not change leave what is known of the      *)
(* values as it is.                                                        *)
LEMMA TrackerUnchanged ==
    ASSUME TrackerTypes, TrackerRight(Seen), UNCHANGED <<csv, tracker>>
    PROVE  TrackerTypes' /\ TrackerRight(Seen)'
<1>1. Seen' = Seen
  BY DEF Seen
<1>2. UNCHANGED <<mode, exact, exactBytes, left, incoming, kmv, heap>>
  BY DEF tracker
<1> QED BY <1>1, <1>2 DEF TrackerTypes, TrackerRight, KSmallest, HashesOf

-----------------------------------------------------------------------------
(* The steps keep the types.                                               *)

LEMMA FetchedIs ==
    ASSUME Inv, Fetch
    PROVE  /\ FetchSize \in Nat /\ FetchSize # 0 /\ FetchSize <= BatchSize
           /\ FetchSize <= MaxRows - read
           /\ read' \in Nat /\ read <= read' /\ read' <= read + FetchSize /\ read' <= Served
           /\ batch' \in Seq(Rows) /\ Len(batch') = read' - read
           /\ \A k \in 1..read' - read : batch'[k] = table[read + k]
           /\ short' => read' = Served
<1>1. /\ read \in Nat /\ read < MaxRows /\ read <= Served /\ read' = Smaller(read + FetchSize, Served)
      /\ short' = (read' - read < FetchSize)
      /\ batch' = SubSeq(table, read + 1, read')
      /\ table \in Seq(Rows) /\ Len(table) \in Nat
  BY Constants DEF Inv, Fetch, StreamTypes, Flow
<1>2. Served \in Nat /\ Served <= Len(table)
  BY ServedIs DEF Inv, StreamTypes
<1>3. /\ FetchSize \in Nat /\ FetchSize # 0 /\ FetchSize <= BatchSize
      /\ FetchSize <= MaxRows - read
  BY <1>1, Constants DEF FetchSize, Smaller
<1>4. /\ read' \in Nat /\ read <= read' /\ read' <= read + FetchSize /\ read' <= Served
      /\ read' - read < FetchSize => read' = Served
  BY <1>1, <1>2, <1>3 DEF Smaller
<1>10. short' => read' = Served
  BY <1>1, <1>4
<1>5. \A i \in read+1..read' : table[i] \in Rows
  <2>1. ASSUME NEW i \in read+1..read' PROVE i \in 1..Len(table)
    BY <1>1, <1>2, <1>4
  <2> QED BY <2>1, <1>1, ElementOfSeq
<1>6. read + 1 \in Int /\ read' \in Int
  BY <1>1, <1>4
<1>7. /\ batch' \in Seq(Rows)
      /\ Len(batch') = IF read + 1 <= read' THEN read' - (read + 1) + 1 ELSE 0
      /\ \A k \in 1..read' - (read + 1) + 1 : batch'[k] = table[(read + 1) + k - 1]
  BY <1>1, <1>5, <1>6, SubSeqProperties
<1>8. Len(batch') = read' - read
  BY <1>1, <1>4, <1>7
<1>9. \A k \in 1..read' - read : batch'[k] = table[read + k]
  <2>1. ASSUME NEW k \in 1..read' - read
        PROVE  k \in 1..read' - (read + 1) + 1 /\ (read + 1) + k - 1 = read + k
    BY <1>1, <1>4
  <2> QED BY <2>1, <1>7
<1> QED BY <1>3, <1>4, <1>10, <1>7, <1>8, <1>9

(* A row is taken from the batch and added to the file.                    *)
LEMMA WrittenIs ==
    ASSUME Inv, WriteRow
    PROVE  /\ Len(batch) \in Nat /\ Len(batch) # 0 /\ Len(csv) \in Nat
           /\ Head(batch) \in Rows /\ Head(batch) = batch[1]
           /\ csv' \in Seq(Rows) /\ Len(csv') = Len(csv) + 1
           /\ \A k \in 1..Len(csv) : csv'[k] = csv[k]
           /\ csv'[Len(csv) + 1] = Head(batch)
           /\ batch' \in Seq(Rows) /\ Len(batch') = Len(batch) - 1
           /\ \A k \in 1..Len(batch) - 1 : batch'[k] = batch[k + 1]
<1>1. /\ batch \in Seq(Rows) /\ batch # <<>> /\ csv \in Seq(Rows)
      /\ csv' = Append(csv, Head(batch)) /\ batch' = Tail(batch)
  BY DEF Inv, StreamTypes, WriteRow
<1>2. Len(batch) \in Nat /\ Len(batch) # 0 /\ Len(csv) \in Nat
  BY <1>1, EmptySeq, LenProperties
<1>3. /\ Head(batch) \in Rows /\ batch' \in Seq(Rows) /\ Len(batch') = Len(batch) - 1
      /\ \A k \in 1..Len(batch') : batch'[k] = batch[k + 1]
  BY <1>1, HeadTailProperties
<1>4. Head(batch) = batch[1]
  BY <1>1
<1>5. /\ csv' \in Seq(Rows) /\ Len(csv') = Len(csv) + 1
      /\ \A k \in 1..Len(csv) : csv'[k] = csv[k]
      /\ csv'[Len(csv) + 1] = Head(batch)
  BY <1>1, <1>3, AppendProperties
<1> QED BY <1>2, <1>3, <1>4, <1>5

(* At most MaxFaults steps fail.                                           *)
LEMMA FaultsBounded ==
    ASSUME StreamTypes, Fault \/ UNCHANGED faults
    PROVE  faults' \in 0..MaxFaults
BY Constants DEF Fault, Faults, StreamTypes

(* An exception removes the file, or costs a failure.                      *)
LEMMA RaiseIs ==
    ASSUME faults \in Nat, MaxFaults \in Nat, faults <= MaxFaults, NEW certain, Raise(certain)
    PROVE  /\ faults' \in 0..MaxFaults /\ pc' = "closing" /\ failed' = TRUE
           /\ (place' = "nowhere" /\ faults' >= faults) \/ faults' >= faults + 1
<1>1. \A n \in {1, 2} : Raised(certain, n) => Faults(n) \/ Faults(n - 1)
  BY DEF Raised
<1>2. \A n \in 0..2 : Faults(n) => faults' \in 0..MaxFaults /\ faults' = faults + n
  BY DEF Faults
<1>3. /\ pc' = "closing" /\ failed' = TRUE
      /\ (Raised(certain, 1) /\ place' = "nowhere") \/ Raised(certain, 2)
  BY DEF Raise
<1>4. CASE Raised(certain, 1) /\ place' = "nowhere"
  <2>1. Faults(1) \/ Faults(0)
    BY <1>1, <1>4
  <2> QED BY <1>2, <1>3, <1>4, <2>1
<1>5. CASE Raised(certain, 2)
  <2>1. Faults(2) \/ Faults(1)
    BY <1>1, <1>5
  <2> QED BY <1>2, <1>3, <1>5, <2>1
<1> QED BY <1>3, <1>4, <1>5

LEMMA FailingIs ==
    ASSUME StreamTypes, StartFails \/ FetchFails \/ WriteFails \/ FinishFile
    PROVE  /\ faults' \in 0..MaxFaults /\ pc' = "closing" /\ UNCHANGED log
           /\ pc \in {"opened", "streaming", "written"}
           /\ \/ /\ failed' = TRUE
                 /\ (place' = "nowhere" /\ faults' >= faults) \/ faults' >= faults + 1
              \/ UNCHANGED <<failed, place, faults>>
<1>0. faults \in Nat /\ MaxFaults \in Nat /\ faults <= MaxFaults
  BY Constants DEF StreamTypes
<1>1. CASE StartFails
  <2>1. pc = "opened" /\ UNCHANGED log /\ Raise(HeaderBytes > MaxBytes)
    BY <1>1 DEF StartFails
  <2> QED BY <1>0, <2>1, RaiseIs
<1>2. CASE FetchFails
  <2>1. pc = "streaming" /\ UNCHANGED log /\ Raise(late)
    BY <1>2 DEF FetchFails, Ready
  <2> QED BY <1>0, <2>1, RaiseIs
<1>3. CASE WriteFails
  <2>1. pc = "streaming" /\ UNCHANGED log /\ Raise(bytes + RowBytes[Head(batch)] > MaxBytes)
    BY <1>3 DEF WriteFails, Ready
  <2> QED BY <1>0, <2>1, RaiseIs
<1>4. CASE FinishFile
  <2>1. /\ pc = "written" /\ UNCHANGED log
        /\ (pc' = "closing" /\ UNCHANGED <<failed, place, faults>>) \/ Raise(FALSE)
    BY <1>4 DEF FinishFile
  <2>2. CASE pc' = "closing" /\ UNCHANGED <<failed, place, faults>>
    BY <1>0, <2>1, <2>2
  <2>3. CASE Raise(FALSE)
    BY <1>0, <2>1, <2>3, RaiseIs
  <2> QED BY <2>1, <2>2, <2>3
<1> QED BY <1>1, <1>2, <1>3, <1>4

LEMMA TypesKept ==
    ASSUME Inv, Next
    PROVE  StreamTypes'
<1> USE Constants DEF query, stream, file, log
<1>0. StreamTypes /\ Flow
  BY DEF Inv
<1>a. Served \in Nat /\ Served <= MaxRows + 1
  BY ServedIs DEF Inv, StreamTypes
<1>1. CASE Open
  BY <1>1, <1>0 DEF Open, StreamTypes
<1>2. CASE OpenFails
  <2>1. faults' \in 0..MaxFaults
    BY <1>2, <1>0, FaultsBounded DEF OpenFails
  <2> QED BY <1>2, <1>0, <2>1 DEF OpenFails, StreamTypes
<1>3. CASE StartFile
  BY <1>3, <1>0 DEF StartFile, StreamTypes
<1>4. CASE StartFails
  <2>1. faults' \in 0..MaxFaults
    BY <1>4, <1>0, FailingIs
  <2> QED BY <1>4, <1>0, <2>1 DEF StartFails, StreamTypes, Raise
<1>5. CASE Fetch
  <2>1. /\ read' \in 0..MaxRows+1
        /\ batch' \in Seq(Rows) /\ Len(batch') <= BatchSize
    BY <1>5, <1>0, <1>a, FetchedIs DEF StreamTypes
  <2> QED BY <1>5, <1>0, <2>1 DEF Fetch, StreamTypes
<1>6. CASE EndOfRows
  BY <1>6, <1>0 DEF EndOfRows, StreamTypes
<1>7. CASE Sentinel
  <2>1. read' \in 0..MaxRows+1
    BY <1>7, <1>0, <1>a DEF Sentinel, StreamTypes, Smaller
  <2> QED BY <1>7, <1>0, <2>1 DEF Sentinel, StreamTypes
<1>8. CASE FetchFails
  <2>1. read' \in 0..MaxRows+1
    BY <1>8, <1>0, <1>a DEF FetchFails, StreamTypes, Smaller, FetchSize
  <2>2. faults' \in 0..MaxFaults
    BY <1>8, <1>0, FailingIs
  <2> QED BY <1>8, <1>0, <2>1, <2>2 DEF FetchFails, StreamTypes, Raise
<1>9. CASE WriteRow
  <2>1. csv' \in Seq(Rows) /\ batch' \in Seq(Rows) /\ Len(batch') <= BatchSize
    BY <1>9, <1>0, WrittenIs DEF StreamTypes
  <2>2. bytes' \in 0..MaxBytes
    BY <1>9, <1>0, WrittenIs DEF WriteRow, StreamTypes
  <2> QED BY <1>9, <1>0, <2>1, <2>2 DEF WriteRow, StreamTypes
<1>10. CASE WriteFails
  <2>1. faults' \in 0..MaxFaults
    BY <1>10, <1>0, FailingIs
  <2> QED BY <1>10, <1>0, <2>1 DEF WriteFails, StreamTypes, Raise
<1>11. CASE Profile
  BY <1>11, <1>0 DEF Profile, StreamTypes
<1>12. CASE FinishFile
  <2>1. faults' \in 0..MaxFaults
    BY <1>12, <1>0, FailingIs
  <2>2. CASE pc' = "closing" /\ UNCHANGED <<failed, place, faults>>
    BY <1>12, <1>0, <2>1, <2>2 DEF FinishFile, StreamTypes
  <2>3. CASE Raise(FALSE)
    BY <1>12, <1>0, <2>1, <2>3 DEF FinishFile, StreamTypes, Raise
  <2> QED BY <1>12, <2>2, <2>3 DEF FinishFile
<1>13. CASE Close
  <2>1. read' \in 0..MaxRows+1
    BY <1>13, <1>0, <1>a DEF Close, StreamTypes, ConnectionFirst
  <2>2. faults' \in 0..MaxFaults
    BY <1>13, <1>0, FaultsBounded DEF Close
  <2> QED BY <1>13, <1>0, <2>1, <2>2 DEF Close, StreamTypes
<1>14. CASE Place
  BY <1>14, <1>0 DEF Place, StreamTypes
<1>15. CASE PlaceFails
  <2>1. faults' \in 0..MaxFaults
    BY <1>15, <1>0, FaultsBounded DEF PlaceFails
  <2> QED BY <1>15, <1>0, <2>1 DEF PlaceFails, StreamTypes
<1>16. CASE Announce
  BY <1>16, <1>0 DEF Announce, StreamTypes
<1>17. CASE AnnounceFails
  <2>1. faults' \in 0..MaxFaults
    BY <1>17, <1>0, FaultsBounded DEF AnnounceFails
  <2> QED BY <1>17, <1>0, <2>1 DEF AnnounceFails, StreamTypes, HalfCommit
<1>18. CASE MoveOutput
  BY <1>18, <1>0 DEF MoveOutput, StreamTypes
<1>19. CASE MoveFails
  <2>1. faults' \in 0..MaxFaults
    BY <1>19, <1>0, FaultsBounded DEF MoveFails
  <2> QED BY <1>19, <1>0, <2>1 DEF MoveFails, StreamTypes
<1>20. CASE Complete
  BY <1>20, <1>0 DEF Complete, StreamTypes
<1>21. CASE CompleteFails
  <2>1. faults' \in 0..MaxFaults
    BY <1>21, <1>0, FaultsBounded DEF CompleteFails
  <2> QED BY <1>21, <1>0, <2>1 DEF CompleteFails, StreamTypes, HalfCommit, log
<1>22. CASE Abort
  <2>0. Fault \/ UNCHANGED faults
    BY <1>22 DEF Abort
  <2>1. faults' \in 0..MaxFaults
    BY <1>0, <2>0, FaultsBounded
  <2>2. /\ lease' \in {"executing", "publishing", "completed", "aborted"} /\ stuck' \in BOOLEAN
        /\ place' \in {"nowhere", "temporary", "staged", "output"}
    BY <1>22, <1>0 DEF Abort, StreamTypes, HalfCommit, Discarded
  <2>3. /\ pc' \in {"unlinking", "failed"}
        /\ UNCHANGED <<query, stream, csv, bytes, failed, late, tracker>>
    BY <1>22 DEF Abort
  <2> QED BY <1>0, <2>1, <2>2, <2>3 DEF StreamTypes
<1>23. CASE Unlink
  <2>1. faults' \in 0..MaxFaults
    BY <1>23, <1>0, FaultsBounded DEF Unlink
  <2> QED BY <1>23, <1>0, <2>1 DEF Unlink, StreamTypes
<1>24. CASE Expire
  BY <1>24, <1>0 DEF Expire, StreamTypes, Running
<1>25. CASE LoseLease
  <2>1. faults' \in 0..MaxFaults
    BY <1>25, <1>0, FaultsBounded DEF LoseLease
  <2> QED BY <1>25, <1>0, <2>1 DEF LoseLease, StreamTypes, Abortable
<1>26. CASE Kill
  <2>1. faults' \in 0..MaxFaults
    BY <1>26, <1>0, FaultsBounded DEF Kill
  <2> QED BY <1>26, <1>0, <2>1 DEF Kill, StreamTypes, HalfCommit, Abortable
<1>27. CASE RecoverState
  <2>0. Fault \/ UNCHANGED faults
    BY <1>27 DEF RecoverState, Recovery
  <2>1. faults' \in 0..MaxFaults
    BY <1>0, <2>0, FaultsBounded
  <2>2. /\ stuck' \in BOOLEAN
        /\ UNCHANGED <<query, pc, stream, file, failed, late, lease, tracker>>
    BY <1>27, Zenon DEF RecoverState
  <2> QED BY <1>0, <2>1, <2>2 DEF StreamTypes
<1>28. CASE RecoverLease
  <2>0. Fault \/ UNCHANGED faults
    BY <1>28 DEF RecoverLease, Recovery
  <2>1. faults' \in 0..MaxFaults
    BY <1>0, <2>0, FaultsBounded
  <2> QED BY <1>28, <1>0, <2>1 DEF RecoverLease, StreamTypes, Discarded, Recovered, Recovery
<1> QED BY <1>1, <1>2, <1>3, <1>4, <1>5, <1>6, <1>7, <1>8, <1>9, <1>10,
           <1>11, <1>12, <1>13, <1>14, <1>15, <1>16, <1>17, <1>18, <1>19,
           <1>20, <1>21, <1>22, <1>23, <1>24, <1>25, <1>26, <1>27, <1>28 DEF Next

-----------------------------------------------------------------------------
(* The steps keep the phases.                                              *)
LEMMA PhasesKept ==
    ASSUME Inv, Next
    PROVE  Phases' /\ Publishing'
<1> USE DEF query, stream, file, log, Phases, Publishing
<1>0. Phases /\ Publishing /\ StreamTypes /\ Flow
  BY DEF Inv
<1>1. CASE Open
  BY <1>1, <1>0 DEF Open, Flow, StreamTypes
<1>2. CASE OpenFails
  BY <1>2, <1>0 DEF OpenFails, Flow, StreamTypes
<1>3. CASE StartFile
  BY <1>3, <1>0 DEF StartFile, Flow, StreamTypes
<1>4. CASE StartFails
  BY <1>4, <1>0 DEF StartFails, Flow, StreamTypes, Raise
<1>5. CASE Fetch
  BY <1>5, <1>0 DEF Fetch, Flow, StreamTypes, Ready
<1>6. CASE EndOfRows
  BY <1>6, <1>0 DEF EndOfRows, Flow, StreamTypes, Ready
<1>7. CASE Sentinel
  BY <1>7, <1>0 DEF Sentinel, Flow, StreamTypes, Ready
<1>8. CASE FetchFails
  BY <1>8, <1>0 DEF FetchFails, Flow, StreamTypes, Raise, Ready
<1>9. CASE WriteRow
  BY <1>9, <1>0 DEF WriteRow, Flow, StreamTypes, Ready
<1>10. CASE WriteFails
  BY <1>10, <1>0 DEF WriteFails, Flow, StreamTypes, Raise, Ready
<1>11. CASE Profile
  BY <1>11, <1>0 DEF Profile, Flow, StreamTypes
<1>12. CASE FinishFile
  BY <1>12, <1>0 DEF FinishFile, Flow, StreamTypes, Raise
<1>13. CASE Close
  BY <1>13, <1>0 DEF Close, Flow, StreamTypes
<1>14. CASE Place
  BY <1>14, <1>0 DEF Place, Flow, StreamTypes
<1>15. CASE PlaceFails
  BY <1>15, <1>0 DEF PlaceFails, Flow, StreamTypes
<1>16. CASE Announce
  BY <1>16, <1>0 DEF Announce, Flow, StreamTypes
<1>17. CASE AnnounceFails
  BY <1>17, <1>0 DEF AnnounceFails, Flow, StreamTypes, HalfCommit
<1>18. CASE MoveOutput
  BY <1>18, <1>0 DEF MoveOutput, Flow, StreamTypes
<1>19. CASE MoveFails
  BY <1>19, <1>0 DEF MoveFails, Flow, StreamTypes
<1>20. CASE Complete
  BY <1>20, <1>0 DEF Complete, Flow, StreamTypes
<1>21. CASE CompleteFails
  BY <1>21, <1>0 DEF CompleteFails, Flow, StreamTypes, HalfCommit, log
<1>22. CASE Abort
  BY <1>22, <1>0 DEF Abort, Flow, StreamTypes, HalfCommit, Abortable, Discarded
<1>23. CASE Unlink
  BY <1>23, <1>0 DEF Unlink, Flow, StreamTypes
<1>24. CASE Expire
  BY <1>24, <1>0 DEF Expire, Flow, StreamTypes, Running
<1>25. CASE LoseLease
  BY <1>25, <1>0 DEF LoseLease, Flow, StreamTypes, Abortable, Locked
<1>26. CASE Kill
  BY <1>26, <1>0 DEF Kill, Flow, StreamTypes, HalfCommit, Abortable, Running
<1>27. CASE RecoverState
  BY <1>27, <1>0 DEF RecoverState, Flow, StreamTypes, Recovery, Locked
<1>28. CASE RecoverLease
  BY <1>28, <1>0 DEF RecoverLease, Flow, StreamTypes, Discarded, Recovered, Abortable, Recovery, Locked
<1> QED BY <1>1, <1>2, <1>3, <1>4, <1>5, <1>6, <1>7, <1>8, <1>9, <1>10,
           <1>11, <1>12, <1>13, <1>14, <1>15, <1>16, <1>17, <1>18, <1>19,
           <1>20, <1>21, <1>22, <1>23, <1>24, <1>25, <1>26, <1>27, <1>28 DEF Next

(* The steps keep the rows in order.                                       *)
LEMMA FlowKept ==
    ASSUME Inv, Next
    PROVE  Flow'
<1> USE DEF query, stream, file, log
<1>0. Flow /\ StreamTypes /\ Phases /\ Publishing
  BY DEF Inv
<1>a. /\ Len(csv) \in Nat /\ Len(batch) \in Nat /\ read \in Nat
      /\ MaxRows \in Nat /\ MaxRows # 0 /\ Len(table) \in Nat
  BY <1>0, LenProperties, Constants DEF StreamTypes
<1>b. Served \in Nat /\ Served <= Len(table) /\ Served <= MaxRows + 1
  BY ServedIs DEF Inv, StreamTypes
<1>c. Served' = Served
  BY DEF Next, Served, Smaller, Bounded, Open, OpenFails, StartFile, StartFails, Fetch,
         EndOfRows, Sentinel, FetchFails, WriteRow, WriteFails, Profile, FinishFile, Close,
         Place, PlaceFails, Announce, AnnounceFails, MoveOutput, MoveFails,
         Complete, CompleteFails, HalfCommit, Abort, Unlink, Expire, LoseLease, Kill,
         RecoverState, RecoverLease
<1>1. CASE Open
  BY <1>1, <1>0, <1>c DEF Open, Flow, InOrder
<1>2. CASE OpenFails
  BY <1>2, <1>0, <1>c DEF OpenFails, Flow, InOrder
<1>3. CASE StartFile
  BY <1>3, <1>0, <1>c DEF StartFile, Flow, InOrder
<1>4. CASE StartFails
  BY <1>4, <1>0, <1>c DEF StartFails, Flow, InOrder, Raise
<1>5. CASE Fetch
  <2>1. /\ pc = "streaming" /\ batch = <<>> /\ read = Len(csv) /\ read < MaxRows /\ ~truncated
        /\ UNCHANGED <<table, csv, truncated>>
        /\ exhausted' = (read' = read)
        /\ pc' = "streaming" \/ pc' = "written"
    BY <1>5, <1>0, <1>a, EmptySeq DEF Fetch, Ready, Flow
  <2>2. /\ FetchSize \in Nat /\ FetchSize # 0 /\ FetchSize <= MaxRows - read
        /\ read' \in Nat /\ read <= read' /\ read' <= read + FetchSize /\ read' <= Served
        /\ Len(batch') = read' - read
        /\ \A k \in 1..read' - read : batch'[k] = table[read + k]
        /\ short' => read' = Served
        /\ short' = (read' - read < FetchSize)
    BY <1>5, FetchedIs DEF Fetch
  <2>3. InOrder'
    BY <2>1, <2>2, <1>0, <1>a, <1>b DEF Flow, InOrder
  <2>4. Len(csv') + Len(batch') = read' /\ read' <= MaxRows
    BY <2>1, <2>2, <1>a
  <2>5. ASSUME exhausted'
        PROVE  read' = Served /\ Len(csv) = Smaller(Served, MaxRows) /\ ~(Served > MaxRows)
    <3>1. read' = read
      BY <2>1, <2>5
    <3>2. read' - read < FetchSize
      BY <2>2, <3>1, <1>a
    <3>3. short'
      BY <2>2, <3>2, Zenon
    <3> QED BY <3>1, <3>3, <2>1, <2>2, <1>a, <1>b DEF Smaller
  <2>6. pc' = "streaming" => ~exhausted'
    BY <1>5, <2>1 DEF Fetch
  <2>7. exhausted' => truncated' = (Served > MaxRows)
    <3>1. truncated' = FALSE
      BY <2>1, <1>0, Zenon DEF StreamTypes
    <3>2. exhausted' => (Served > MaxRows) = FALSE
      BY <2>5
    <3> QED BY <3>1, <3>2, Zenon
  <2>8. ~truncated' /\ (pc' = "streaming" => ~exhausted')
    BY <2>1, <2>6, Zenon
  <2>9. /\ Len(csv') + Len(batch') <= MaxRows /\ read' <= Served'
        /\ pc' = "streaming" => read' = Len(csv') + Len(batch')
        /\ pc' \notin {"leased", "opened"}
        /\ pc' = "streaming" /\ short' => read' = Served'
    BY <2>1, <2>2, <2>4, <1>c
  <2>10. exhausted' =>
            /\ read' = Served'
            /\ Len(csv') = Smaller(Served', MaxRows)
            /\ truncated' = (Served' > MaxRows)
    BY <2>1, <2>5, <2>7, <1>c
  <2> QED BY <2>3, <2>8, <2>9, <2>10, Zenon DEF Flow
<1>6. CASE EndOfRows
  <2>1. read = Len(csv) /\ read = Served /\ read <= MaxRows /\ ~truncated
    BY <1>6, <1>0, <1>a, EmptySeq DEF EndOfRows, Ready, Flow
  <2>2. Len(csv) = Smaller(Served, MaxRows) /\ ~(Served > MaxRows)
    BY <2>1, <1>a DEF Smaller
  <2>3. UNCHANGED <<table, csv, batch, truncated, read>> /\ pc' = "written"
    BY <1>6 DEF EndOfRows
  <2>4. truncated' = (Served > MaxRows)
    <3>1. truncated' = FALSE
      BY <2>1, <2>3, <1>0, Zenon DEF StreamTypes
    <3>2. (Served > MaxRows) = FALSE
      BY <2>2
    <3> QED BY <3>1, <3>2, Zenon
  <2> QED BY <2>1, <2>2, <2>3, <2>4, <1>0, <1>c DEF Flow, InOrder
<1>7. CASE Sentinel
  <2>1. /\ read = Len(csv) /\ read = MaxRows /\ read <= Served
        /\ read' = Smaller(read + 1, Served) /\ truncated' = (read' > read)
        /\ UNCHANGED <<table, csv, batch>> /\ pc' = "written"
    BY <1>7, <1>0, <1>a, EmptySeq DEF Sentinel, Ready, Flow
  <2>2. read' = Served
    BY <2>1, <1>a, <1>b DEF Smaller
  <2>3. truncated' = (Served > MaxRows)
    BY <2>1, <2>2
  <2>4. Len(csv) = Smaller(Served, MaxRows)
    BY <2>1, <1>a, <1>b DEF Smaller
  <2>5. read' <= Served
    BY <2>2, <1>b
  <2> QED BY <2>1, <2>2, <2>3, <2>4, <2>5, <1>0, <1>c DEF Flow, InOrder
<1>8. CASE FetchFails
  <2>1. read' <= Served
    BY <1>8, <1>0, <1>a, <1>b, Constants DEF FetchFails, Flow, FetchSize, Smaller
  <2>2. /\ pc = "streaming" /\ ~exhausted /\ pc' = "closing"
        /\ UNCHANGED <<table, csv, batch, exhausted>>
    BY <1>8, <1>0 DEF FetchFails, Ready, Flow, Raise
  <2> QED BY <2>1, <2>2, <1>0, <1>c DEF Flow, InOrder
<1>9. CASE WriteRow
  <2>1. /\ pc = "streaming" /\ pc' = "streaming"
        /\ UNCHANGED <<table, read, short, exhausted, truncated>>
    BY <1>9 DEF WriteRow, Ready
  <2>2. /\ Len(batch) # 0 /\ Len(csv') = Len(csv) + 1 /\ Len(batch') = Len(batch) - 1
        /\ \A k \in 1..Len(csv) : csv'[k] = csv[k]
        /\ csv'[Len(csv) + 1] = batch[1]
        /\ \A k \in 1..Len(batch) - 1 : batch'[k] = batch[k + 1]
    BY <1>9, WrittenIs
  <2>3. /\ Len(csv) + Len(batch) <= Len(table)
        /\ \A k \in 1..Len(csv) : csv[k] = table[k]
        /\ \A k \in 1..Len(batch) : batch[k] = table[Len(csv) + k]
    BY <1>0 DEF Flow, InOrder
  <2>4. Len(csv') + Len(batch') = Len(csv) + Len(batch)
    BY <2>2, <1>a
  <2>5. ASSUME NEW k \in 1..Len(csv') PROVE csv'[k] = table[k]
    <3>1. CASE k \in 1..Len(csv)
      BY <3>1, <2>2, <2>3
    <3>2. CASE k = Len(csv) + 1
      BY <3>2, <2>2, <2>3, <1>a
    <3> QED BY <3>1, <3>2, <2>2, <1>a
  <2>6. ASSUME NEW k \in 1..Len(batch') PROVE batch'[k] = table[Len(csv') + k]
    <3>1. k \in 1..Len(batch) - 1 /\ k + 1 \in 1..Len(batch)
      BY <2>2, <1>a
    <3>2. batch'[k] = table[Len(csv) + (k + 1)]
      BY <3>1, <2>2, <2>3
    <3>3. Len(csv) + (k + 1) = Len(csv') + k
      BY <2>2, <1>a
    <3> QED BY <3>2, <3>3
  <2>7. InOrder'
    BY <2>1, <2>3, <2>4, <2>5, <2>6 DEF InOrder
  <2> QED BY <2>1, <2>4, <2>7, <1>0, <1>c DEF Flow
<1>10. CASE WriteFails
  BY <1>10, <1>0, <1>c DEF WriteFails, Flow, InOrder, Raise, Ready
<1>11. CASE Profile
  BY <1>11, <1>0, <1>c DEF Profile, Flow, InOrder
<1>12. CASE FinishFile
  BY <1>12, <1>0, <1>c DEF FinishFile, Flow, InOrder, Raise
<1>13. CASE Close
  <2>1. /\ read' = read \/ read' = Served
        /\ pc' \in {"aborting", "profiled"}
        /\ UNCHANGED <<table, csv, batch, exhausted, truncated>>
    BY <1>13 DEF Close
  <2> QED BY <2>1, <1>0, <1>b, <1>c DEF Flow, InOrder
<1>14. CASE Place
  BY <1>14, <1>0, <1>c DEF Place, Flow, InOrder
<1>15. CASE PlaceFails
  BY <1>15, <1>0, <1>c DEF PlaceFails, Flow, InOrder
<1>16. CASE Announce
  BY <1>16, <1>0, <1>c DEF Announce, Flow, InOrder
<1>17. CASE AnnounceFails
  BY <1>17, <1>0, <1>c DEF AnnounceFails, Flow, InOrder
<1>18. CASE MoveOutput
  BY <1>18, <1>0, <1>c DEF MoveOutput, Flow, InOrder
<1>19. CASE MoveFails
  BY <1>19, <1>0, <1>c DEF MoveFails, Flow, InOrder
<1>20. CASE Complete
  BY <1>20, <1>0, <1>c DEF Complete, Flow, InOrder
<1>21. CASE CompleteFails
  BY <1>21, <1>0, <1>c DEF CompleteFails, Flow, InOrder
<1>22. CASE Abort
  BY <1>22, <1>0, <1>c DEF Abort, Flow, InOrder
<1>23. CASE Unlink
  BY <1>23, <1>0, <1>c DEF Unlink, Flow, InOrder
<1>24. CASE Expire
  BY <1>24, <1>0, <1>c DEF Expire, Flow, InOrder, Running
<1>25. CASE LoseLease
  BY <1>25, <1>0, <1>c DEF LoseLease, Flow, InOrder
<1>26. CASE Kill
  BY <1>26, <1>0, <1>c DEF Kill, Flow, InOrder, Running
<1>27. CASE RecoverState
  BY <1>27, <1>0, <1>c DEF RecoverState, Flow, InOrder
<1>28. CASE RecoverLease
  BY <1>28, <1>0, <1>c DEF RecoverLease, Flow, InOrder
<1> QED BY <1>1, <1>2, <1>3, <1>4, <1>5, <1>6, <1>7, <1>8, <1>9, <1>10,
           <1>11, <1>12, <1>13, <1>14, <1>15, <1>16, <1>17, <1>18, <1>19,
           <1>20, <1>21, <1>22, <1>23, <1>24, <1>25, <1>26, <1>27, <1>28 DEF Next

-----------------------------------------------------------------------------
(* The steps keep the tracker right: all but two leave it alone.           *)
LEMMA TrackerKept ==
    ASSUME Inv, Next
    PROVE  TrackerTypes' /\ TrackerRight(Seen)'
<1>0. TrackerTypes /\ TrackerRight(Seen) /\ csv \in Seq(Rows)
  BY DEF Inv, StreamTypes
<1>1. CASE WriteRow
  <2>1. PICK seen \in SUBSET Values : seen = Seen
    BY <1>0, SeenTypes
  <2>2. Head(batch) \in Rows /\ csv' = Append(csv, Head(batch))
    BY <1>1, WrittenIs DEF WriteRow
  <2>3. Seen' = IF Head(batch) = Null THEN seen ELSE seen \cup {Head(batch)}
    BY <1>0, <2>1, <2>2, SeenAfter
  <2>4. CASE Head(batch) = Null
    <3>1. UNCHANGED tracker /\ Seen' = seen
      BY <1>1, <2>3, <2>4 DEF WriteRow
    <3> QED BY <1>0, <2>1, <3>1 DEF tracker, TrackerTypes, TrackerRight
  <2>5. CASE Head(batch) # Null
    <3>1. PICK v \in Values : v = Head(batch)
      BY <2>2, <2>5 DEF Rows
    <3>2. Observe(v) /\ Seen' = seen \cup {v}
      BY <1>1, <2>3, <2>5, <3>1 DEF WriteRow
    <3>3. TrackerTypes' /\ TrackerRight(seen \cup {v})'
      BY <1>0, <2>1, <3>2, ObserveKeeps
    <3> QED BY <3>2, <3>3 DEF TrackerRight
  <2> QED BY <2>4, <2>5
<1>2. CASE Profile
  <2>1. PICK seen \in SUBSET Values : seen = Seen
    BY <1>0, SeenTypes
  <2>2. PICK v \in Values : SwitchValue(v) \/ Switched(v)
    BY <1>2 DEF Profile
  <2>3. Seen' = seen
    BY <1>2, <2>1 DEF Profile, Seen, file
  <2>4. TrackerTypes' /\ TrackerRight(seen)'
    BY <1>0, <2>1, <2>2, SwitchKeeps
  <2> QED BY <2>3, <2>4 DEF TrackerRight
<1>3. CASE ~WriteRow /\ ~Profile
  <2>1. UNCHANGED <<csv, tracker>>
    BY <1>3 DEF Next, file, Open, OpenFails, StartFile, StartFails, Fetch, EndOfRows,
         Sentinel, FetchFails, WriteFails, FinishFile, Close, Place, PlaceFails,
         Announce, AnnounceFails, MoveOutput, MoveFails,
         Complete, CompleteFails, HalfCommit, Abort, Unlink, Expire, LoseLease, Kill,
         RecoverState, RecoverLease
  <2> QED BY <1>0, <2>1, TrackerUnchanged
<1> QED BY <1>1, <1>2, <1>3

-----------------------------------------------------------------------------
(* The invariant holds, and says what the properties say.                  *)

LEMMA InvInit ==
    ASSUME Init
    PROVE  Inv
<1> USE Constants, EmptySeq DEF Init, TrackerInit
<1>1. IsFiniteSet({}) /\ Cardinality({}) = 0
  BY FS_EmptySet
<1>2. csv = <<>> /\ batch = <<>> /\ Len(csv) = 0 /\ Len(batch) = 0
  OBVIOUS
<1>3. StreamTypes
  <2>1. csv \in Seq(Rows) /\ batch \in Seq(Rows)
    BY <1>2
  <2>2. /\ read \in 0..MaxRows+1 /\ bytes \in 0..MaxBytes /\ faults \in 0..MaxFaults
        /\ Len(batch) <= BatchSize
    BY <1>2
  <2> QED BY <2>1, <2>2, Zenon DEF StreamTypes
<1>4. Requested
  BY DEF Requested
<1>5. Served \in Nat /\ Len(table) \in Nat
  BY <1>3, <1>4, ServedIs DEF StreamTypes
<1>6. Flow
  BY <1>2, <1>5 DEF Flow, InOrder
<1>7. Phases /\ Publishing
  BY DEF Phases, Publishing
<1>8. TrackerTypes
  BY <1>1 DEF TrackerTypes
<1>9. Seen = {}
  BY <1>2, <1>3, LenProperties DEF Seen, StreamTypes
<1>10. TrackerRight(Seen)
  BY <1>9 DEF TrackerRight
<1> QED BY <1>3, <1>4, <1>6, <1>7, <1>8, <1>10 DEF Inv

LEMMA InvStep ==
    ASSUME Inv, [Next]_vars
    PROVE  Inv'
<1>1. CASE Next
  <2>1. UNCHANGED <<table, limit>>
    BY <1>1 DEF Next, query, Open, OpenFails, StartFile, StartFails, Fetch, EndOfRows,
         Sentinel, FetchFails, WriteRow, WriteFails, Profile, FinishFile, Close, Place,
         PlaceFails, Announce, AnnounceFails, MoveOutput, MoveFails,
         Complete, CompleteFails, HalfCommit, Abort, Unlink, Expire, LoseLease, Kill,
         RecoverState, RecoverLease
  <2>2. Requested'
    BY <2>1 DEF Inv, Requested
  <2> QED BY <1>1, <2>2, TypesKept, FlowKept, PhasesKept, TrackerKept DEF Inv
<1>2. CASE UNCHANGED vars
  <2>1. UNCHANGED <<query, pc, stream, file, failed, late, log, faults, tracker>>
    BY <1>2 DEF vars
  <2>2. TrackerTypes' /\ TrackerRight(Seen)'
    BY <2>1, TrackerUnchanged DEF Inv, file
  <2>3. Served' = Served
    BY <2>1 DEF query, Served, Smaller, Bounded
  <2>4. StreamTypes' /\ Requested'
    BY <2>1 DEF Inv, query, stream, file, log, StreamTypes, Requested
  <2>5. Flow' /\ Phases' /\ Publishing'
    BY <2>1, <2>3 DEF Inv, query, stream, file, log, Flow, InOrder, Phases, Publishing
  <2> QED BY <2>2, <2>4, <2>5 DEF Inv
<1> QED BY <1>1, <1>2

LEMMA InvTypes ==
    ASSUME Inv
    PROVE  TypeOK
<1>1. StreamTypes /\ Flow /\ TrackerTypes
  BY DEF Inv
<1>2. Len(csv) <= MaxRows
  <2>1. Len(csv) \in Nat /\ Len(batch) \in Nat
    BY <1>1, LenProperties DEF StreamTypes
  <2> QED BY <1>1, <2>1, Constants DEF Flow
<1> QED BY <1>1, <1>2 DEF TypeOK, StreamTypes, TrackerTypes

LEMMA InvExact ==
    ASSUME Inv
    PROVE  PublishedExact
<1>1. StreamTypes /\ Flow /\ Publishing /\ Requested
  BY DEF Inv
<1>2. SUFFICES ASSUME lease = "completed" PROVE
        /\ csv = SubSeq(table, 1, Smaller(Len(table), MaxRows))
        /\ truncated = (Len(table) > MaxRows)
        /\ exhausted
  BY DEF PublishedExact
<1>3. exhausted
  BY <1>1, <1>2 DEF Publishing
<1>4. /\ Smaller(Served, MaxRows) = Smaller(Len(table), MaxRows)
      /\ (Served > MaxRows) = (Len(table) > MaxRows)
  BY <1>1, ServedIs DEF StreamTypes
<1>5. /\ Len(csv) = Smaller(Len(table), MaxRows)
      /\ truncated = (Len(table) > MaxRows)
  BY <1>1, <1>3, <1>4, Zenon DEF Flow
<1>6. csv = SubSeq(table, 1, Len(csv))
  <2>1. /\ csv \in Seq(Rows) /\ table \in Seq(Rows) /\ Len(csv) \in Nat
        /\ Len(batch) \in Nat /\ Len(table) \in Nat
    BY <1>1, LenProperties, Constants DEF StreamTypes
  <2>2. /\ Len(csv) <= Len(table)
        /\ \A k \in 1..Len(csv) : csv[k] = table[k]
    BY <1>1, <2>1 DEF Flow, InOrder
  <2>3. \A k \in 1..Len(csv) : table[k] \in Rows
    BY <2>1, <2>2, ElementOfSeq
  <2> DEFINE t == SubSeq(table, 1, Len(csv))
  <2>4. 1 \in Int /\ Len(csv) \in Int
    BY <2>1
  <2>5. /\ t \in Seq(Rows)
        /\ Len(t) = IF 1 <= Len(csv) THEN Len(csv) - 1 + 1 ELSE 0
        /\ \A k \in 1..Len(csv) - 1 + 1 : t[k] = table[1 + k - 1]
    BY <2>3, <2>4, SubSeqProperties
  <2> HIDE DEF t
  <2>6. Len(t) = Len(csv)
    BY <2>1, <2>5
  <2>7. \A k \in 1..Len(csv) : csv[k] = t[k]
    <3>1. ASSUME NEW k \in 1..Len(csv)
          PROVE  k \in 1..Len(csv) - 1 + 1 /\ 1 + k - 1 = k
      BY <2>1
    <3> QED BY <3>1, <2>2, <2>5
  <2>8. csv = t
    BY <2>1, <2>5, <2>6, <2>7, SeqEqual
  <2> QED BY <2>8 DEF t
<1> QED BY <1>3, <1>5, <1>6

(* Closing a stream that failed reads nothing: what MySQL would still send *)
(* has been dropped, or there is nothing.                                  *)
LEMMA StepReadsNothing ==
    ASSUME Inv, [Next]_vars, failed
    PROVE  read' = read
<1>1. Flow /\ Phases /\ StreamTypes
  BY DEF Inv
<1>2. pc \in {"closing", "aborting", "withdrawing", "unlinking", "failed", "dead"}
  BY <1>1 DEF Phases
<1>3. CASE Close
  <2>1. read' = read \/ (exhausted /\ read' = Served)
    BY <1>3 DEF Close, ConnectionFirst
  <2> QED BY <1>1, <2>1 DEF Flow
<1>4. CASE ~Close /\ Next
  BY <1>2, <1>4 DEF Next, Open, OpenFails, StartFile, StartFails, Fetch, EndOfRows, Ready,
     Sentinel, FetchFails, WriteRow, WriteFails, Profile, FinishFile, Place, PlaceFails,
     Announce, AnnounceFails, MoveOutput, MoveFails,
         Complete, CompleteFails, HalfCommit, Abort, Unlink, Expire, LoseLease, Kill,
         RecoverState, RecoverLease, stream
<1>5. CASE UNCHANGED vars
  BY <1>5 DEF vars, stream
<1> QED BY <1>3, <1>4, <1>5

(* The types and the limits of what is kept, for any table, constants and  *)
(* number of failures.                                                     *)
THEOREM TypeCorrect == Spec => []TypeOK
<1>1. Init => Inv
  BY InvInit
<1>2. Inv /\ [Next]_vars => Inv'
  BY InvStep
<1>3. Inv => TypeOK
  BY InvTypes
<1> QED BY <1>1, <1>2, <1>3, PTL DEF Spec

(* What is published is the requested result up to the approved number of  *)
(* rows, and is called truncated if and only if there was more.            *)
THEOREM PublishedAlwaysExact == Spec => []PublishedExact
<1>1. Init => Inv
  BY InvInit
<1>2. Inv /\ [Next]_vars => Inv'
  BY InvStep
<1>3. Inv => PublishedExact
  BY InvExact
<1> QED BY <1>1, <1>2, <1>3, PTL DEF Spec

(* The tracker holds the values, or the smallest of their hashes, whatever *)
(* their number, their order and the hash function.                        *)
THEOREM DistinctAlwaysRight == Spec => []DistinctRight
<1>1. Init => Inv
  BY InvInit
<1>2. Inv /\ [Next]_vars => Inv'
  BY InvStep
<1>3. Inv => DistinctRight
  BY DEF Inv, DistinctRight
<1> QED BY <1>1, <1>2, <1>3, PTL DEF Spec

(* An execution that has failed reads nothing more from the database.      *)
THEOREM AbortsReadNothing == Spec => AbortReadsNothing
<1>1. Init => Inv
  BY InvInit
<1>2. Inv /\ [Next]_vars => Inv'
  BY InvStep
<1>3. Inv /\ [Next]_vars => [failed => read' = read]_vars
  BY StepReadsNothing
<1> QED BY <1>1, <1>2, <1>3, PTL DEF Spec, AbortReadsNothing

(* What a temporary file of a failed execution costs: a failure that left  *)
(* it, and another one that took the lease away or kept the abort from     *)
(* removing it.                                                            *)
Charged ==
    /\ lease = "aborted" /\ Running => faults >= 1
    /\ place = "temporary" /\ failed => faults >= 1
    /\ place = "temporary" /\ failed /\ Running /\ (lease = "aborted" \/ stuck) => faults >= 2
    /\ pc = "failed" /\ place = "temporary" => faults >= 2

LEMMA ChargedKept ==
    ASSUME Inv, Charged, [Next]_vars
    PROVE  Charged'
<1> USE DEF query, stream, file, log, Running
<1>0. /\ Phases /\ Publishing /\ faults \in Nat /\ StreamTypes
      /\ lease \in {"executing", "publishing", "completed", "aborted"}
      /\ failed \in BOOLEAN /\ stuck \in BOOLEAN
  BY Constants DEF Inv, StreamTypes
<1>1. Fault => faults' = faults + 1
  BY DEF Fault, Faults
<1>2. CASE Open \/ StartFile \/ Fetch \/ EndOfRows \/ Sentinel \/ WriteRow \/ Profile
           \/ Place \/ Announce \/ MoveOutput \/ Complete \/ Expire
  BY <1>2, <1>0 DEF Charged, Phases, Open, StartFile, Fetch, EndOfRows, Sentinel, WriteRow,
     Profile, Place, Announce, MoveOutput, Complete, Expire, Ready
<1>3. CASE OpenFails
  BY <1>3, <1>0, <1>1 DEF Charged, Phases, OpenFails
<1>9. CASE Close
  BY <1>9, <1>0, <1>1 DEF Charged, Phases, Publishing, Close
<1>4. CASE StartFails \/ FetchFails \/ WriteFails \/ FinishFile
  <2>1. /\ faults' \in Nat /\ pc' = "closing" /\ UNCHANGED log
        /\ pc \in {"opened", "streaming", "written"}
        /\ \/ /\ failed' = TRUE
              /\ (place' = "nowhere" /\ faults' >= faults) \/ faults' >= faults + 1
           \/ UNCHANGED <<failed, place, faults>>
    <3>1. faults' \in 0..MaxFaults => faults' \in Nat
      BY Constants
    <3> QED BY <1>4, <1>0, <3>1, FailingIs, Zenon
  <2> QED BY <1>0, <2>1 DEF Charged, Phases, Publishing
<1>5. CASE PlaceFails \/ AnnounceFails \/ MoveFails \/ CompleteFails
  BY <1>5, <1>0, <1>1 DEF Charged, Phases, Publishing, PlaceFails, AnnounceFails, MoveFails,
     CompleteFails, HalfCommit
<1>6. CASE Abort
  BY <1>6, <1>0, <1>1 DEF Charged, Phases, Publishing, Abort, Abortable, Discarded, HalfCommit
<1>7. CASE Unlink \/ LoseLease \/ Kill \/ RecoverState \/ RecoverLease
  BY <1>7, <1>0, <1>1 DEF Charged, Phases, Publishing, Unlink, LoseLease, Kill, RecoverState,
     RecoverLease, Recovery, Discarded
<1>8. CASE UNCHANGED vars
  BY <1>8 DEF Charged, vars
<1> QED BY <1>2, <1>3, <1>4, <1>5, <1>6, <1>7, <1>8, <1>9 DEF Next

(* A failed execution has published nothing but what had reached its place *)
(* before, and it takes two failures for it to leave a temporary file.     *)
THEOREM FailuresLeaveNothing == Spec => []FailureLeavesNothing
<1>1. Init => Inv /\ Charged
  BY InvInit DEF Init, Charged
<1>2. Inv /\ Charged /\ [Next]_vars => (Inv /\ Charged)'
  BY InvStep, ChargedKept
<1>3. Inv /\ Charged => FailureLeavesNothing
  BY DEF Inv, Publishing, Charged, FailureLeavesNothing
<1> QED BY <1>1, <1>2, <1>3, PTL DEF Spec

-----------------------------------------------------------------------------
(* The distinct count of a profile.                                        *)

(* A set that a function takes onto another has as many elements at least. *)
LEMMA ImageIsSmaller ==
    ASSUME NEW S, IsFiniteSet(S), NEW T, NEW f, \A x \in S : f[x] \in T,
           \A y \in T : \E x \in S : f[x] = y
    PROVE  IsFiniteSet(T) /\ Cardinality(T) <= Cardinality(S)
<1> DEFINE g == [x \in S |-> f[x]]
<1>1. g \in Surjection(S, T)
  BY DEF Surjection
<1> QED BY <1>1, FS_Surjection

(* There are no more hashes than values, and no more values than rows that *)
(* hold one.                                                               *)
LEMMA SeenIsSmall ==
    ASSUME csv \in Seq(Rows)
    PROVE  /\ IsFiniteSet(NonNull) /\ IsFiniteSet(Seen) /\ IsFiniteSet(HashesOf(Seen))
           /\ Cardinality(Seen) <= Cardinality(NonNull)
           /\ Cardinality(HashesOf(Seen)) <= Cardinality(Seen)
<1>1. IsFiniteSet(NonNull)
  <2>1. Len(csv) \in Nat /\ DOMAIN csv = 1..Len(csv)
    BY LenProperties
  <2>2. IsFiniteSet(1..Len(csv))
    BY <2>1, FS_Interval
  <2> QED BY <2>1, <2>2, FS_Subset DEF NonNull
<1>2. IsFiniteSet(Seen) /\ Cardinality(Seen) <= Cardinality(NonNull)
  <2>1. \A i \in NonNull : csv[i] \in Seen
    BY DEF NonNull, Seen
  <2>2. \A v \in Seen : \E i \in NonNull : csv[i] = v
    BY DEF NonNull, Seen
  <2> QED BY <1>1, <2>1, <2>2, ImageIsSmaller
<1>3. IsFiniteSet(HashesOf(Seen)) /\ Cardinality(HashesOf(Seen)) <= Cardinality(Seen)
  <2>1. \A v \in Seen : Hash[v] \in HashesOf(Seen)
    BY DEF HashesOf
  <2>2. \A h \in HashesOf(Seen) : \E v \in Seen : Hash[v] = h
    BY DEF HashesOf
  <2> QED BY <1>2, <2>1, <2>2, ImageIsSmaller
<1> QED BY <1>1, <1>2, <1>3

(* finish: the count of a tracker that knows its values, or the smallest   *)
(* of their hashes, is not below the hashes nor above the rows.            *)
LEMMA CountIs ==
    ASSUME NEW seen \in SUBSET Values, TrackerTypes, TrackerRight(seen), mode # "switching",
           IsFiniteSet(seen), IsFiniteSet(HashesOf(seen)),
           NEW n \in Nat, Cardinality(seen) <= n, Cardinality(HashesOf(seen)) <= n
    PROVE  /\ DistinctCount(n) \in Cardinality(kmv)..n
           /\ mode = "approximate" /\ Cardinality(HashesOf(seen)) < KmvHashes =>
                  DistinctCount(n) = Cardinality(HashesOf(seen))
<1>1. Cardinality(seen) \in Nat /\ Cardinality(HashesOf(seen)) \in Nat
  BY FS_CardinalityType
<1>2. CASE mode = "exact"
  <2>1. exact = seen /\ kmv = {}
    BY <1>2 DEF TrackerRight
  <2>2. Cardinality(kmv) = 0
    BY <2>1, FS_EmptySet
  <2>3. DistinctCount(n) = Cardinality(seen)
    BY <1>2, <2>1 DEF DistinctCount
  <2> QED BY <1>1, <1>2, <2>2, <2>3
<1>3. CASE mode = "approximate"
  <2> DEFINE kept == Cardinality(kmv)
             all == HashesOf(seen)
             known == ((KmvHashes - 1) * HashRange) \div (Largest(kmv) + 1)
             estimate == IF kept < KmvHashes THEN kept ELSE known
             capped == IF n < estimate THEN n ELSE estimate
  <2>1. /\ kmv \subseteq all /\ kept <= KmvHashes
        /\ kmv # all => kept = KmvHashes
    BY <1>3 DEF TrackerRight, KSmallest
  <2>2. kept \in Nat /\ kept <= Cardinality(all)
    BY <2>1, FS_Subset, FS_CardinalityType
  <2>3. KmvHashes \in Nat /\ KmvHashes >= 2 /\ HashRange \in Nat
    BY TrackerConstants
  <2>4. estimate \in Int
    <3>1. CASE kept < KmvHashes
      BY <2>2, <3>1
    <3>2. CASE ~(kept < KmvHashes)
      <4>1. kmv # {}
        BY <2>2, <2>3, <3>2, FS_EmptySet
      <4>2. Largest(kmv) \in Nat
        <5>1. kmv \in SUBSET (0..HashRange-1)
          BY DEF TrackerTypes
        <5>2. Largest(kmv) \in kmv
          BY <4>1, <5>1, LargestIs
        <5>3. Largest(kmv) \in 0..HashRange-1
          BY <5>1, <5>2, Zenon
        <5> QED BY <2>3, <5>3
      <4>3. KmvHashes - 1 \in Nat
        BY <2>3
      <4>4. \A a, b \in Int : a * b \in Int
        OBVIOUS
      <4>5. (KmvHashes - 1) * HashRange \in Int
        BY <2>3, <4>3, <4>4
      <4>6. Largest(kmv) + 1 \in Nat \ {0}
        BY <4>2
      <4>7. \A a \in Int, b \in Nat \ {0} : a \div b \in Int
        OBVIOUS
      <4>8. known \in Int
        BY <4>5, <4>6, <4>7, Zenon
      <4> QED BY <3>2, <4>8
    <3> QED BY <3>1, <3>2
  <2>5. DistinctCount(n) = IF capped < kept THEN kept ELSE capped
    BY <1>3 DEF DistinctCount
  <2>6. kept < KmvHashes => estimate = kept
    OBVIOUS
  <2> HIDE DEF estimate, kept, all
  <2>7. DistinctCount(n) \in kept..n
    BY <2>2, <2>4, <2>5, <1>1 DEF all
  <2>8. ASSUME Cardinality(all) < KmvHashes
        PROVE  DistinctCount(n) = Cardinality(all)
    <3>1. kmv = all /\ kept = Cardinality(all)
      BY <2>1, <2>2, <2>3, <2>8, <1>1 DEF all, kept
    <3> QED BY <3>1, <2>2, <2>5, <2>6, <2>8, <1>1 DEF all
  <2> QED BY <2>7, <2>8 DEF kept, all
<1> QED BY <1>2, <1>3 DEF TrackerTypes

(* No row is asked for while the tracker switches: it has settled when the *)
(* file is finished.                                                       *)
Settled == mode = "switching" => pc \in {"streaming", "dead"}

LEMMA SettledKept ==
    ASSUME Settled, [Next]_vars
    PROVE  Settled'
<1> USE DEF Settled
<1>1. CASE WriteRow \/ Profile
  BY <1>1 DEF WriteRow, Profile, Ready
<1>2. CASE Fetch \/ EndOfRows \/ Sentinel \/ FetchFails \/ WriteFails
  BY <1>2 DEF Fetch, EndOfRows, Sentinel, FetchFails, WriteFails, Ready, tracker
<1>3. CASE Open \/ OpenFails \/ StartFile \/ StartFails \/ FinishFile \/ Close \/ Place
           \/ PlaceFails \/ Announce \/ AnnounceFails \/ MoveOutput \/ MoveFails \/ Complete
           \/ CompleteFails \/ Abort \/ Unlink
  BY <1>3 DEF Open, OpenFails, StartFile, StartFails, FinishFile, Close, Place, PlaceFails,
     Announce, AnnounceFails, MoveOutput, MoveFails, Complete, CompleteFails, Abort, Unlink,
     tracker
<1>4. CASE Expire \/ LoseLease \/ Kill \/ RecoverState \/ RecoverLease
  BY <1>4 DEF Expire, LoseLease, Kill, RecoverState, RecoverLease, tracker
<1>5. CASE UNCHANGED vars
  BY <1>5 DEF vars, tracker
<1> QED BY <1>1, <1>2, <1>3, <1>4, <1>5 DEF Next

(* The distinct count of every profile that is published lies between the  *)
(* hashes known to differ and the rows that hold a value, and is exact     *)
(* while the hashes are few, for any hash function and any values          *)
(* (_DistinctTracker.finish).                                              *)
THEOREM CountsAreRight == Spec => []CountRight
<1>1. Init => Inv /\ Settled
  BY InvInit DEF Init, TrackerInit, Settled
<1>2. Inv /\ Settled /\ [Next]_vars => (Inv /\ Settled)'
  BY InvStep, SettledKept
<1>3. Inv /\ Settled => CountRight
  <2> SUFFICES ASSUME Inv, Settled, pc = "done"
               PROVE  /\ DistinctCount(Cardinality(NonNull))
                            \in Cardinality(kmv)..Cardinality(NonNull)
                      /\ mode = "approximate" /\ Cardinality(HashesOf(Seen)) < KmvHashes =>
                            DistinctCount(Cardinality(NonNull)) = Cardinality(HashesOf(Seen))
    BY DEF CountRight
  <2>1. csv \in Seq(Rows) /\ TrackerTypes /\ TrackerRight(Seen) /\ mode # "switching"
    BY DEF Inv, StreamTypes, Settled
  <2>2. Seen \in SUBSET Values
    BY <2>1, SeenTypes
  <2>3. /\ IsFiniteSet(NonNull) /\ IsFiniteSet(Seen) /\ IsFiniteSet(HashesOf(Seen))
        /\ Cardinality(Seen) <= Cardinality(NonNull)
        /\ Cardinality(HashesOf(Seen)) <= Cardinality(Seen)
    BY <2>1, SeenIsSmall
  <2>4. /\ Cardinality(NonNull) \in Nat /\ Cardinality(Seen) \in Nat
        /\ Cardinality(HashesOf(Seen)) \in Nat
    BY <2>3, FS_CardinalityType
  <2>5. Cardinality(HashesOf(Seen)) <= Cardinality(NonNull)
    BY <2>3, <2>4
  <2> QED BY <2>1, <2>2, <2>3, <2>4, <2>5, CountIs
<1> QED BY <1>1, <1>2, <1>3, PTL DEF Spec
=============================================================================
