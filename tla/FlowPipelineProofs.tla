------------------------- MODULE FlowPipelineProofs --------------------------
(***************************************************************************)
(* The store, the pipeline over it and its breakpoints, for any exchanges  *)
(* and any limits.                                                         *)
(***************************************************************************)
EXTENDS FlowPipeline, SequenceTheorems, TLAPS

-----------------------------------------------------------------------------
(***************************************************************************)
(* What each operation of the store keeps, for any set of ids, any limits  *)
(* and any contents: the ring stays within its bound and the array and the *)
(* map go on naming the same flows, each once.                             *)
(***************************************************************************)

\* An array without repetitions and a map with exactly its ids.
NoRepeats(s) == \A j, k \in DOMAIN s : s[j] = s[k] => j = k
Agree(s, b) == \A i \in Ids : (b[i] # "absent") <=> (\E k \in DOMAIN s : s[k] = i)

StoreInv == StoreTypeOK /\ RingBounded /\ ListMatchesMap

-----------------------------------------------------------------------------

\* What is left of an array after its first e elements.
LEMMA SuffixProperties ==
    ASSUME NEW s \in Seq(Ids), NEW e \in 0 .. Len(s)
    PROVE  /\ SubSeq(s, e + 1, Len(s)) \in Seq(Ids)
           /\ Len(SubSeq(s, e + 1, Len(s))) = Len(s) - e
           /\ \A k \in 1 .. Len(s) - e : SubSeq(s, e + 1, Len(s))[k] = s[k + e]
<1>1. Len(s) \in Nat
  BY LenProperties
<1>2. \A i \in e + 1 .. Len(s) : s[i] \in Ids
  BY <1>1, ElementOfSeq
<1>3. /\ Len(SubSeq(s, e + 1, Len(s))) =
           IF e + 1 <= Len(s) THEN Len(s) - (e + 1) + 1 ELSE 0
      /\ \A k \in 1 .. Len(s) - (e + 1) + 1 :
           SubSeq(s, e + 1, Len(s))[k] = s[(e + 1) + k - 1]
  BY <1>1, <1>2, SubSeqProperties, SMT
<1>. QED  BY <1>1, <1>2, <1>3, SubSeqProperties, SMT

\* What trim() leaves is a suffix of the array that fits the bound.
LEMMA KeptIsSuffix ==
    ASSUME NEW s \in Seq(Ids), NEW m \in Nat
    PROVE  /\ Excess(s, m) \in 0 .. Len(s)
           /\ Kept(s, m) \in Seq(Ids)
           /\ Len(Kept(s, m)) = Len(s) - Excess(s, m)
           /\ Len(Kept(s, m)) <= m
           /\ \A k \in 1 .. Len(Kept(s, m)) : Kept(s, m)[k] = s[k + Excess(s, m)]
<1>1. Len(s) \in Nat
  BY LenProperties
<1>2. Excess(s, m) \in 0 .. Len(s) /\ Len(s) - Excess(s, m) <= m
  BY <1>1 DEF Excess
<1> DEFINE e == Excess(s, m)
<1> HIDE DEF e
<1>3. e \in Nat /\ e <= Len(s) /\ Len(s) - e <= m
  BY <1>1, <1>2 DEF e
<1>4. Kept(s, m) = SubSeq(s, e + 1, Len(s))
  BY DEF Kept, e
<1>5. /\ SubSeq(s, e + 1, Len(s)) \in Seq(Ids)
      /\ Len(SubSeq(s, e + 1, Len(s))) = Len(s) - e
      /\ \A k \in 1 .. Len(s) - e : SubSeq(s, e + 1, Len(s))[k] = s[k + e]
  BY <1>1, <1>3, SuffixProperties
<1>. QED  BY <1>2, <1>3, <1>4, <1>5 DEF e

\* trim() keeps the array within the bound, free of repetitions, and in step
\* with the map.
LEMMA TrimKeepsAgreement ==
    ASSUME NEW s \in Seq(Ids), NEW b \in [Ids -> Object], NEW m \in Nat,
           NoRepeats(s), Agree(s, b), Trim(s, b, m)
    PROVE  /\ flows' \in Seq(Ids) /\ Len(flows') <= m
           /\ byId' \in [Ids -> Object]
           /\ NoRepeats(flows') /\ Agree(flows', byId')
<1> DEFINE e == Excess(s, m)
           t == Kept(s, m)
<1>1. /\ e \in Nat /\ e <= Len(s) /\ Len(s) \in Nat
      /\ t \in Seq(Ids) /\ Len(t) <= m /\ Len(t) = Len(s) - e
      /\ \A k \in 1 .. Len(t) : t[k] = s[k + e]
  BY KeptIsSuffix, LenProperties
<1>2. /\ flows' = t
      /\ byId' = [i \in Ids |-> IF i \in Evicted(s, m) THEN "absent" ELSE b[i]]
  BY DEF Trim
<1>3. Evicted(s, m) = {s[k] : k \in 1 .. e}
  BY DEF Evicted
<1> HIDE DEF e, t
<1>4. DOMAIN s = 1 .. Len(s) /\ DOMAIN t = 1 .. Len(t)
  BY <1>1, LenProperties
<1>5. byId' \in [Ids -> Object]
  BY <1>2 DEF Object
<1>r. \A j, k \in 1 .. Len(s) : s[j] = s[k] => j = k
  BY <1>4, Zenon DEF NoRepeats
<1>6. NoRepeats(t)
  <2> SUFFICES ASSUME NEW j \in 1 .. Len(t), NEW k \in 1 .. Len(t), t[j] = t[k]
               PROVE  j = k
    BY <1>4, Zenon DEF NoRepeats
  <2>1. j + e \in 1 .. Len(s) /\ k + e \in 1 .. Len(s) /\ s[j + e] = s[k + e]
    BY <1>1
  <2>2. j + e = k + e
    BY <2>1, <1>r, Zenon
  <2>. QED  BY <2>2, <1>1
<1>7. Agree(t, byId')
  <2> SUFFICES ASSUME NEW i \in Ids
               PROVE  (byId'[i] # "absent") <=> (\E k \in 1 .. Len(t) : t[k] = i)
    BY <1>4 DEF Agree
  <2>1. CASE i \in Evicted(s, m)
    <3>1. PICK j \in 1 .. e : s[j] = i
      BY <2>1, <1>3
    <3>2. ASSUME NEW k \in 1 .. Len(t), t[k] = i  PROVE FALSE
      <4>1. /\ k + e \in 1 .. Len(s) /\ j \in 1 .. Len(s) /\ j # k + e
            /\ s[k + e] = s[j]
        BY <3>1, <3>2, <1>1
      <4>. QED  BY <4>1, <1>r, Zenon
    <3>. QED  BY <2>1, <3>2, <1>2
  <2>2. CASE i \notin Evicted(s, m)
    <3>1. byId'[i] = b[i]
      BY <2>2, <1>2
    <3>2. (b[i] # "absent") <=> (\E k \in 1 .. Len(s) : s[k] = i)
      BY <1>4 DEF Agree
    <3>3. ASSUME NEW k \in 1 .. Len(s), s[k] = i  PROVE \E j \in 1 .. Len(t) : t[j] = i
      <4>1. k \notin 1 .. e
        <5>1. ASSUME k \in 1 .. e PROVE i \in Evicted(s, m)
          BY <3>3, <5>1, <1>3
        <5>. QED  BY <5>1, <2>2
      <4>2. k - e \in 1 .. Len(t) /\ (k - e) + e = k
        BY <4>1, <1>1
      <4>3. t[k - e] = s[k]
        BY <4>2, <1>1
      <4>. QED  BY <4>2, <4>3, <3>3
    <3>4. ASSUME NEW j \in 1 .. Len(t), t[j] = i  PROVE \E k \in 1 .. Len(s) : s[k] = i
      BY <3>4, <1>1
    <3>. QED  BY <3>1, <3>2, <3>3, <3>4
  <2>. QED  BY <2>1, <2>2
<1>. QED  BY <1>1, <1>2, <1>5, <1>6, <1>7

\* The store starts empty.
LEMMA StoreInitInv == StoreInit => StoreInv
<1> SUFFICES ASSUME StoreInit PROVE StoreInv
  OBVIOUS
<1>1. flows = <<>> /\ byId = [i \in Ids |-> "absent"] /\ max \in Limits
  BY DEF StoreInit
<1>2. flows \in Seq(Ids) /\ Len(flows) = 0 /\ DOMAIN flows = {}
  BY <1>1, EmptySeq, LenProperties
<1>. QED
  BY <1>1, <1>2, LimitsAssumption
     DEF StoreInv, StoreTypeOK, RingBounded, ListMatchesMap, Object

\* Adding a flow the store does not hold keeps the invariant, evictions
\* included.
LEMMA StoreAddInv ==
    ASSUME StoreInv, NEW i \in Ids, byId[i] = "absent", StoreAdd(i)
    PROVE  StoreInv'
<1> DEFINE s == Append(flows, i)
           b == [byId EXCEPT ![i] = "live"]
<1>1. /\ flows \in Seq(Ids) /\ byId \in [Ids -> Object] /\ max \in Limits
      /\ max \in Nat /\ Len(flows) \in Nat /\ DOMAIN flows = 1 .. Len(flows)
  BY LimitsAssumption, LenProperties DEF StoreInv, StoreTypeOK
<1>2. /\ s \in Seq(Ids) /\ Len(s) = Len(flows) + 1
      /\ \A k \in 1 .. Len(flows) : s[k] = flows[k]
      /\ s[Len(flows) + 1] = i
  BY <1>1, AppendProperties
<1>3. b \in [Ids -> Object] /\ b[i] = "live"
      /\ \A j \in Ids \ {i} : b[j] = byId[j]
  BY <1>1 DEF Object
<1>4. Trim(s, b, max) /\ max' = max
  BY DEF StoreAdd
<1> HIDE DEF s, b
<1>5. DOMAIN s = 1 .. Len(flows) + 1
  BY <1>2, LenProperties
<1>6. \A k \in 1 .. Len(flows) : flows[k] # i
  BY <1>1 DEF StoreInv, ListMatchesMap
<1>7. \A j, k \in 1 .. Len(flows) : flows[j] = flows[k] => j = k
  BY <1>1, Zenon DEF StoreInv, ListMatchesMap
<1>8. NoRepeats(s)
  <2> SUFFICES ASSUME NEW j \in 1 .. Len(flows) + 1, NEW k \in 1 .. Len(flows) + 1,
                      s[j] = s[k]
               PROVE  j = k
    BY <1>5, Zenon DEF NoRepeats
  <2>1. CASE j \in 1 .. Len(flows) /\ k \in 1 .. Len(flows)
    BY <2>1, <1>2, <1>7
  <2>2. CASE j = Len(flows) + 1 /\ k \in 1 .. Len(flows)
    BY <2>2, <1>2, <1>6
  <2>3. CASE k = Len(flows) + 1 /\ j \in 1 .. Len(flows)
    BY <2>3, <1>2, <1>6
  <2>. QED  BY <2>1, <2>2, <2>3, <1>1
<1>9. Agree(s, b)
  <2> SUFFICES ASSUME NEW j \in Ids
               PROVE  (b[j] # "absent") <=> (\E k \in DOMAIN s : s[k] = j)
    BY DEF Agree
  <2>1. (byId[j] # "absent") <=> (\E k \in 1 .. Len(flows) : flows[k] = j)
    BY <1>1 DEF StoreInv, ListMatchesMap
  <2>2. (\E k \in DOMAIN s : s[k] = j) <=>
          (j = i \/ \E k \in 1 .. Len(flows) : flows[k] = j)
    <3>1. ASSUME NEW k \in DOMAIN s, s[k] = j
          PROVE  j = i \/ \E l \in 1 .. Len(flows) : flows[l] = j
      <4>1. k \in 1 .. Len(flows) \/ k = Len(flows) + 1
        BY <1>1, <1>5
      <4>. QED  BY <3>1, <4>1, <1>2
    <3>2. ASSUME NEW k \in 1 .. Len(flows), flows[k] = j
          PROVE  \E l \in DOMAIN s : s[l] = j
      <4>1. k \in DOMAIN s /\ s[k] = j
        BY <3>2, <1>1, <1>2, <1>5
      <4>. QED  BY <4>1
    <3>3. ASSUME j = i PROVE \E l \in DOMAIN s : s[l] = j
      <4>1. Len(flows) + 1 \in DOMAIN s
        BY <1>1, <1>5
      <4>. QED  BY <3>3, <4>1, <1>2
    <3>. QED  BY <3>1, <3>2, <3>3
  <2>. QED  BY <2>1, <2>2, <1>3
<1>10. /\ flows' \in Seq(Ids) /\ Len(flows') <= max
      /\ byId' \in [Ids -> Object]
      /\ NoRepeats(flows') /\ Agree(flows', byId')
  BY <1>1, <1>2, <1>3, <1>4, <1>8, <1>9, TrimKeepsAgreement
<1>. QED
  BY <1>1, <1>4, <1>10, Zenon
     DEF StoreInv, StoreTypeOK, RingBounded, ListMatchesMap, NoRepeats, Agree

\* A new bound evicts down to it.
LEMMA StoreSetMaxInv ==
    ASSUME StoreInv, NEW m \in Limits, StoreSetMax(m)
    PROVE  StoreInv'
<1>1. m \in Nat /\ max' = m /\ Trim(flows, byId, m)
  BY LimitsAssumption DEF StoreSetMax
<1>2. /\ flows \in Seq(Ids) /\ byId \in [Ids -> Object]
      /\ NoRepeats(flows) /\ Agree(flows, byId)
  BY Zenon DEF StoreInv, StoreTypeOK, ListMatchesMap, NoRepeats, Agree
<1>3. /\ flows' \in Seq(Ids) /\ Len(flows') <= m
      /\ byId' \in [Ids -> Object]
      /\ NoRepeats(flows') /\ Agree(flows', byId')
  BY <1>1, <1>2, TrimKeepsAgreement
<1>. QED
  BY <1>1, <1>3, Zenon
     DEF StoreInv, StoreTypeOK, RingBounded, ListMatchesMap, NoRepeats, Agree

\* clear() empties both.
LEMMA StoreClearInv == StoreInv /\ StoreClear => StoreInv'
<1> SUFFICES ASSUME StoreInv, StoreClear PROVE StoreInv'
  OBVIOUS
<1>1. flows' = <<>> /\ byId' = [i \in Ids |-> "absent"] /\ max' = max /\ max \in Limits
  BY DEF StoreClear, StoreInv, StoreTypeOK
<1>2. flows' \in Seq(Ids) /\ Len(flows') = 0 /\ DOMAIN flows' = {}
  BY <1>1, EmptySeq, LenProperties
<1>. QED
  BY <1>1, <1>2, LimitsAssumption
     DEF StoreInv, StoreTypeOK, RingBounded, ListMatchesMap, Object

\* Loading a session whose ids are distinct leaves its newest flows.
LEMMA StoreLoadInv ==
    ASSUME StoreInv, NEW s \in Seq(Ids), NoRepeats(s), StoreLoad(s)
    PROVE  StoreInv'
<1> DEFINE b == [i \in Ids |-> IF i \in ToSet(Kept(s, max)) THEN "copy" ELSE "absent"]
           t == Kept(s, max)
           e == Excess(s, max)
<1>1. /\ max \in Limits /\ max \in Nat /\ max' = max
      /\ flows' = t /\ byId' = b
  BY LimitsAssumption DEF StoreInv, StoreTypeOK, StoreLoad
<1>2. b \in [Ids -> Object]
  BY DEF Object
<1>3. /\ e \in Nat /\ e <= Len(s) /\ Len(s) \in Nat
      /\ t \in Seq(Ids) /\ Len(t) <= max /\ Len(t) = Len(s) - e
      /\ \A k \in 1 .. Len(t) : t[k] = s[k + e]
  BY <1>1, KeptIsSuffix, LenProperties
<1>4. \A i \in Ids : (b[i] # "absent") <=> i \in ToSet(t)
  OBVIOUS
<1> HIDE DEF b, t, e
<1>5. DOMAIN t = 1 .. Len(t) /\ DOMAIN s = 1 .. Len(s)
  BY <1>3, LenProperties
<1>6. \A j, k \in 1 .. Len(s) : s[j] = s[k] => j = k
  BY <1>5, Zenon DEF NoRepeats
<1>7. \A j, k \in DOMAIN t : t[j] = t[k] => j = k
  <2> SUFFICES ASSUME NEW j \in 1 .. Len(t), NEW k \in 1 .. Len(t), t[j] = t[k]
               PROVE  j = k
    BY <1>5, Zenon
  <2>1. j + e \in 1 .. Len(s) /\ k + e \in 1 .. Len(s) /\ s[j + e] = s[k + e]
    BY <1>3
  <2>2. j + e = k + e
    BY <2>1, <1>6, Zenon
  <2>. QED  BY <2>2, <1>3
<1>8. \A i \in Ids : (b[i] # "absent") <=> (\E k \in DOMAIN t : t[k] = i)
  BY <1>4 DEF ToSet
<1>. QED
  BY <1>1, <1>2, <1>3, <1>7, <1>8, Zenon
     DEF StoreInv, StoreTypeOK, RingBounded, ListMatchesMap

\* remove() takes one id out of both, and no other.
LEMMA StoreRemoveInv ==
    ASSUME StoreInv, NEW i \in Ids, StoreRemove(i)
    PROVE  StoreInv'
<1>1. /\ flows \in Seq(Ids) /\ byId \in [Ids -> Object] /\ max \in Limits
      /\ max \in Nat /\ Len(flows) \in Nat /\ DOMAIN flows = 1 .. Len(flows)
      /\ Len(flows) <= max
  BY LimitsAssumption, LenProperties DEF StoreInv, StoreTypeOK, RingBounded
<1>2. PICK k \in 1 .. Len(flows) : flows[k] = i /\ flows' = RemoveAt(flows, k)
  BY <1>1 DEF StoreRemove
<1>3. byId' = [byId EXCEPT ![i] = "absent"] /\ max' = max
  BY DEF StoreRemove
<1> DEFINE p == SubSeq(flows, 1, k - 1)
           q == SubSeq(flows, k + 1, Len(flows))
           t == p \o q
           old(j) == IF j < k THEN j ELSE j + 1
<1>4. \A j \in 1 .. Len(flows) : flows[j] \in Ids
  BY <1>1, ElementOfSeq
<1>5. /\ p \in Seq(Ids) /\ Len(p) = k - 1
      /\ \A j \in 1 .. k - 1 : p[j] = flows[j]
  <2>1. \A j \in 1 .. k - 1 : flows[j] \in Ids
    BY <1>1, <1>4
  <2>2. /\ SubSeq(flows, 1, k - 1) \in Seq(Ids)
        /\ Len(SubSeq(flows, 1, k - 1)) = IF 1 <= k - 1 THEN k - 1 - 1 + 1 ELSE 0
        /\ \A j \in 1 .. k - 1 - 1 + 1 : SubSeq(flows, 1, k - 1)[j] = flows[1 + j - 1]
    BY <1>1, <2>1, SubSeqProperties, SMT
  <2>. QED  BY <1>1, <2>2
<1>6. /\ q \in Seq(Ids) /\ Len(q) = Len(flows) - k
      /\ \A j \in 1 .. Len(flows) - k : q[j] = flows[j + k]
  <2>1. k \in 0 .. Len(flows)
    BY <1>1
  <2>. QED  BY <1>1, <2>1, SuffixProperties, Zenon DEF q
<1> HIDE DEF p, q
<1>7. /\ t \in Seq(Ids) /\ Len(t) = Len(p) + Len(q)
      /\ \A j \in 1 .. Len(p) + Len(q) :
            t[j] = IF j <= Len(p) THEN p[j] ELSE q[j - Len(p)]
  BY <1>5, <1>6, ConcatProperties
<1>8. flows' = t
  BY <1>2 DEF RemoveAt, p, q
<1> HIDE DEF t
<1>9. /\ Len(t) = Len(flows) - 1 /\ DOMAIN t = 1 .. Len(flows) - 1
      /\ \A j \in 1 .. Len(t) : t[j] = flows[old(j)]
  <2>1. Len(t) = Len(flows) - 1
    BY <1>1, <1>5, <1>6, <1>7
  <2>2. ASSUME NEW j \in 1 .. Len(t) PROVE t[j] = flows[old(j)]
    <3>1. CASE j < k
      BY <3>1, <2>1, <1>1, <1>5, <1>6, <1>7, SMTT(30)
    <3>2. CASE ~(j < k)
      <4>0. j \in 1 .. Len(p) + Len(q) /\ ~(j <= Len(p)) /\ Len(p) = k - 1
        BY <3>2, <2>1, <1>1, <1>5, <1>6, <1>7
      <4>1. t[j] = q[j - (k - 1)] /\ j - (k - 1) \in 1 .. Len(flows) - k
        <5>1. t[j] = q[j - Len(p)]
          BY <4>0, <1>7
        <5>2. j - (k - 1) \in 1 .. Len(flows) - k
          BY <3>2, <2>1, <1>1
        <5>. QED  BY <4>0, <5>1, <5>2
      <4>2. (j - (k - 1)) + k = j + 1
        BY <1>1
      <4>. QED  BY <3>2, <4>1, <4>2, <1>6
    <3>. QED  BY <3>1, <3>2
  <2>. QED  BY <2>1, <2>2, <1>7, LenProperties
<1>10. \A j, l \in 1 .. Len(flows) : flows[j] = flows[l] => j = l
  BY <1>1, Zenon DEF StoreInv, ListMatchesMap
<1>11. \A j \in 1 .. Len(t) : old(j) \in 1 .. Len(flows) /\ old(j) # k
  BY <1>1, <1>9
<1>12. \A j, l \in DOMAIN t : t[j] = t[l] => j = l
  <2> SUFFICES ASSUME NEW j \in 1 .. Len(t), NEW l \in 1 .. Len(t), t[j] = t[l]
               PROVE  j = l
    BY <1>9, Zenon
  <2>1. old(j) = old(l)
    <3>1. flows[old(j)] = flows[old(l)]
      BY <1>9
    <3> HIDE DEF old
    <3>. QED  BY <3>1, <1>10, <1>11
  <2>. QED  BY <2>1, <1>1, <1>9
<1>13. ASSUME NEW j \in Ids
       PROVE  (byId'[j] # "absent") <=> (\E l \in DOMAIN t : t[l] = j)
  <2>1. (byId[j] # "absent") <=> (\E l \in 1 .. Len(flows) : flows[l] = j)
    BY <1>1 DEF StoreInv, ListMatchesMap
  <2>2. CASE j = i
    <3>1. byId'[j] = "absent"
      BY <2>2, <1>1, <1>3
    <3>2. ASSUME NEW l \in 1 .. Len(t), t[l] = j PROVE FALSE
      <4>1. flows[old(l)] = flows[k] /\ old(l) \in 1 .. Len(flows) /\ old(l) # k
        BY <3>2, <2>2, <1>2, <1>9, <1>11
      <4> HIDE DEF old
      <4>. QED  BY <4>1, <1>10
    <3>. QED  BY <3>1, <3>2, <1>9
  <2>3. CASE j # i
    <3>1. byId'[j] = byId[j]
      BY <2>3, <1>1, <1>3
    <3>2. ASSUME NEW l \in 1 .. Len(flows), flows[l] = j
          PROVE  \E h \in 1 .. Len(t) : t[h] = j
      <4>1. l # k
        BY <3>2, <2>3, <1>2
      <4>2. CASE l < k
        <5>1. l \in 1 .. Len(t) /\ old(l) = l
          BY <4>2, <1>1, <1>9
        <5>. QED  BY <5>1, <3>2, <1>9
      <4>3. CASE l > k
        <5>1. l - 1 \in 1 .. Len(t) /\ old(l - 1) = l
          BY <4>3, <1>1, <1>9
        <5>. QED  BY <5>1, <3>2, <1>9
      <4>. QED  BY <4>1, <4>2, <4>3, <1>1
    <3>3. ASSUME NEW h \in 1 .. Len(t), t[h] = j
          PROVE  \E l \in 1 .. Len(flows) : flows[l] = j
      BY <3>3, <1>9, <1>11
    <3>. QED  BY <3>1, <3>2, <3>3, <2>1, <1>9
  <2>. QED  BY <2>2, <2>3
<1>14. byId' \in [Ids -> Object]
  BY <1>1, <1>3 DEF Object
<1>15. Len(t) <= max
  BY <1>1, <1>9
<1>. QED
  BY <1>1, <1>3, <1>7, <1>8, <1>12, <1>13, <1>14, <1>15, Zenon
     DEF StoreInv, StoreTypeOK, RingBounded, ListMatchesMap

-----------------------------------------------------------------------------
(***************************************************************************)
(* Safety of the pipeline for every set of exchanges, every limit and any  *)
(* number of operator operations: the types, the store's invariant, and    *)
(* what the breakpoints promise.                                           *)
(***************************************************************************)

-----------------------------------------------------------------------------
(* Types.  The handlers' helpers change the same seven variables.          *)

HandlerTypeOK ==
    /\ pc \in [Flows -> Suspended]
    /\ decision \in [Flows -> {"none", "pending", "resume", "kill"}]
    /\ stage \in [Flows -> Stages]
    /\ seen \in [Flows -> Summaries]
    /\ contacted \in [Flows -> BOOLEAN]
    /\ held \in [Flows -> BOOLEAN]
    /\ reply \in [Flows -> {"none", "head", "whole", "cut", "error", "dropped"}]

OtherTypeOK ==
    /\ directive \in [Flows -> Directives]
    /\ client \in [Flows -> {"open", "gone"}]
    /\ breakReq \in BOOLEAN
    /\ caught \in [Flows -> BOOLEAN]
    /\ breakRes \in BOOLEAN
    /\ ops \in 0 .. OpBudget

\* TypeOK by parts.
LEMMA TypeParts ==
    TypeOK <=> StoreTypeOK /\ HandlerTypeOK /\ OtherTypeOK /\ session \in Seq(Flows)
BY Zenon DEF TypeOK, HandlerTypeOK, OtherTypeOK

Decisions == {"none", "pending", "resume", "kill"}
Replies == {"none", "head", "whole", "cut", "error", "dropped"}

\* A step of the handler of f: its own entries change, to values of their type.
Moves(f) ==
    /\ \/ pc' = pc
       \/ \E x \in Suspended \ {"idle"} : pc' = [pc EXCEPT ![f] = x]
    /\ decision' = decision \/ \E x \in Decisions : decision' = [decision EXCEPT ![f] = x]
    /\ stage' = stage \/ \E x \in Stages : stage' = [stage EXCEPT ![f] = x]
    /\ seen' = seen \/ \E x \in Summaries : seen' = [seen EXCEPT ![f] = x]
    /\ contacted' = contacted \/ contacted' = [contacted EXCEPT ![f] = TRUE]
    /\ held' = held \/ held' = [held EXCEPT ![f] = TRUE]
    /\ reply' = reply \/ \E x \in Replies : reply' = [reply EXCEPT ![f] = x]

\* Such a step keeps the types.
LEMMA MovesType ==
    ASSUME HandlerTypeOK, NEW f \in Flows, Moves(f)
    PROVE  HandlerTypeOK'
<1>1. pc' \in [Flows -> Suspended] /\ stage' \in [Flows -> Stages]
  BY DEF HandlerTypeOK, Moves
<1>2. reply' \in [Flows -> Replies] /\ seen' \in [Flows -> Summaries]
  BY DEF HandlerTypeOK, Moves, Replies
<1>3. held' \in [Flows -> BOOLEAN] /\ contacted' \in [Flows -> BOOLEAN]
  BY Zenon DEF HandlerTypeOK, Moves
<1>4. decision' \in [Flows -> Decisions]
  BY DEF HandlerTypeOK, Moves, Decisions
<1>. QED  BY <1>1, <1>2, <1>3, <1>4 DEF HandlerTypeOK, Replies, Decisions

\* What Sent puts in `reply` is a reply.
LEMMA SentType ==
    ASSUME HandlerTypeOK, NEW f \in Flows, NEW r \in Replies
    PROVE  Sent(f, r) \in Replies
BY DEF Sent, HandlerTypeOK, Replies

\* What toSummary() yields is a summary of the type events carry.
LEMMA SummaryType ==
    ASSUME NEW st \in Stages, NEW b \in BOOLEAN
    PROVE  Summary(st, b) \in Summaries
BY DEF Summary, Summaries

\* Returning, failing and relaying are such steps.
LEMMA ReturnMoves ==
    ASSUME NEW f \in Flows, NEW st \in Stages, NEW r \in Replies, Return(f, st, r),
           seen' = seen \/ \E x \in Summaries : seen' = [seen EXCEPT ![f] = x],
           UNCHANGED <<contacted, held, decision>>
    PROVE  Moves(f)
BY DEF Return, Suspend, Moves, Suspended

\* The catch block moves a flow within the types.
LEMMA FailMoves ==
    ASSUME HandlerTypeOK, NEW f \in Flows, Fail(f)
    PROVE  Moves(f)
<1>1. Sent(f, "error") \in Replies
  BY SentType DEF Replies
<1>2. Summary("failed", FALSE) \in Summaries /\ "failed" \in Stages
  BY SummaryType DEF Stages
<1>. QED
  BY <1>1, <1>2, ReturnMoves DEF Fail, Announce

\* So does relaying a finished response, or failing to.
LEMMA RelayMoves ==
    ASSUME HandlerTypeOK, NEW f \in Flows, Relay(f)
    PROVE  Moves(f)
<1>1. Sent(f, "whole") \in Replies
  BY SentType DEF Replies
<1>2. Summary("responded", FALSE) \in Summaries /\ "responded" \in Stages
  BY SummaryType DEF Stages
<1>. QED
  BY <1>1, <1>2, FailMoves, ReturnMoves DEF Relay, Announce

\* So do pausing, dispatching and waiting for the delay.
LEMMA PauseMoves ==
    ASSUME NEW f \in Flows, NEW at \in Suspended \ {"idle"}, NEW st \in Stages,
           Pause(f, at, st), held' = held \/ held' = [held EXCEPT ![f] = TRUE]
    PROVE  Moves(f)
<1>1. Summary(st, FALSE) \in Summaries
  BY SummaryType
<1>. QED
  BY <1>1 DEF Pause, Suspend, Announce, Moves, Decisions

\* So does what follows the request breakpoint: delay, block, mock or send.
LEMMA ProceedMoves ==
    ASSUME HandlerTypeOK, NEW f \in Flows, NEW d \in Directives,
           NEW st \in Stages, NEW told \in Summaries,
           Dispatch(f, d, st, told) \/ Proceed(f, d, st, told)
    PROVE  Moves(f)
<1>1. Sent(f, "dropped") \in Replies /\ Summary(st, FALSE) \in Summaries
  BY SentType, SummaryType DEF Replies
<1>2. ASSUME Dispatch(f, d, st, told)  PROVE Moves(f)
  <2>1. CASE /\ Return(f, st, Sent(f, "dropped"))
             /\ Announce(f, IF f \in H1 THEN told ELSE Summary(st, FALSE))
             /\ UNCHANGED <<contacted, held, decision>>
    BY <2>1, <1>1, ReturnMoves DEF Announce
  <2>2. CASE Relay(f)
    BY <2>2, RelayMoves
  <2>3. CASE /\ Suspend(f, "upstream", st)
             /\ contacted' = [contacted EXCEPT ![f] = TRUE]
             /\ Announce(f, told)
             /\ UNCHANGED <<reply, held, decision>>
    BY <2>3 DEF Suspend, Announce, Moves, Suspended
  <2>. QED  BY <1>2, <2>1, <2>2, <2>3 DEF Dispatch
<1>3. CASE /\ Suspend(f, "delayed", st)
           /\ Announce(f, told)
           /\ UNCHANGED <<reply, contacted, held, decision>>
  BY <1>3 DEF Suspend, Announce, Moves, Suspended
<1>. QED  BY <1>2, <1>3, Zenon DEF Proceed

-----------------------------------------------------------------------------

\* The steps that belong to one exchange, the operator's words to it included.
HandlerStep(f) ==
    \/ Accept(f) \/ RefuseTarget(f)
    \/ RequestBody(f) \/ RequestBodyFails(f)
    \/ AfterRequestPause(f) \/ DelayElapsed(f)
    \/ UpstreamHead(f) \/ UpstreamFails(f)
    \/ ResponseBody(f) \/ AfterResponsePause(f)
    \/ StreamBlocks(f) \/ StreamDrains(f)
    \/ StreamEnds(f) \/ StreamFails(f)
    \/ ClientLeaves(f)
    \/ Resume(f) \/ Kill(f) \/ Touch(f)

OperatorStep ==
    \/ \E f \in Flows : RemoveFlow(f)
    \/ \E m \in Limits : ResizeStore(m)
    \/ SetFilters \/ ClearFlows \/ SaveSession \/ LoadSession

\* A step is one of the operator's or one of some flow's handler.
LEMMA NextSteps == Next => OperatorStep \/ \E f \in Flows : HandlerStep(f)
BY Zenon DEF Next, OperatorStep, HandlerStep

\* Every such step moves its own exchange and no other.
LEMMA HandlerStepMoves ==
    ASSUME HandlerTypeOK, OtherTypeOK, NEW f \in Flows, HandlerStep(f)
    PROVE  Moves(f)
<1>1. /\ stage[f] \in Stages /\ seen[f] \in Summaries /\ directive[f] \in Directives
      /\ reply[f] \in Replies
      /\ \A r \in Replies : Sent(f, r) \in Replies
      /\ \A st \in Stages, b \in BOOLEAN : Summary(st, b) \in Summaries
  BY SentType, SummaryType DEF HandlerTypeOK, OtherTypeOK, Replies
<1>2. {"new", "ruled", "responded"} \subseteq Stages
      /\ {"head", "cut", "whole", "dropped", "error"} \subseteq Replies
  BY DEF Stages, Replies
<1>3. CASE Accept(f)
  BY <1>1, <1>2, <1>3 DEF Accept, Announce, Moves, Suspended
<1>4. CASE RefuseTarget(f)
  BY <1>2, <1>4 DEF RefuseTarget, Moves, Suspended
<1>5. CASE RequestBody(f)
  <2>1. PICK d \in Directives, st \in Stages :
          IF breakReq /\ f \notin Replays
          THEN Pause(f, "reqPaused", st) /\ UNCHANGED held
          ELSE Proceed(f, d, st, seen[f])
    BY <1>1, <1>2, <1>5 DEF RequestBody
  <2>2. CASE Pause(f, "reqPaused", st) /\ UNCHANGED held
    BY <2>2, PauseMoves DEF Suspended
  <2>3. CASE Proceed(f, d, st, seen[f])
    BY <2>3, <1>1, ProceedMoves
  <2>. QED  BY <2>1, <2>2, <2>3
<1>6. CASE RequestBodyFails(f)
  BY <1>6, FailMoves DEF RequestBodyFails
<1>7. CASE AfterRequestPause(f)
  <2>1. CASE /\ Return(f, stage[f], Sent(f, "dropped"))
             /\ Announce(f, Summary(stage[f], FALSE))
             /\ UNCHANGED <<contacted, held, decision>>
    BY <2>1, <1>1, <1>2, ReturnMoves DEF Announce
  <2>2. CASE Proceed(f, directive[f], stage[f], Summary(stage[f], FALSE))
    BY <2>2, <1>1, ProceedMoves
  <2>. QED  BY <1>7, <2>1, <2>2 DEF AfterRequestPause
<1>8. CASE DelayElapsed(f)
  BY <1>1, <1>8, ProceedMoves DEF DelayElapsed
<1>9. CASE UpstreamHead(f)
  <2>1. CASE StartStream(f)
    <3>1. CASE Return(f, "responded", reply[f]) /\ UNCHANGED <<seen, contacted, held, decision>>
      BY <3>1, <1>1, <1>2, ReturnMoves
    <3>2. CASE /\ Suspend(f, "streaming", "responded")
               /\ reply' = [reply EXCEPT ![f] = Sent(f, "head")]
               /\ UNCHANGED <<seen, contacted, held, decision>>
      BY <3>2, <1>1, <1>2 DEF Suspend, Moves, Suspended
    <3>. QED  BY <2>1, <3>1, <3>2, FailMoves DEF StartStream
  <2>2. CASE /\ Suspend(f, "resBody", "responded")
             /\ UNCHANGED <<seen, contacted, held, decision, reply>>
    BY <2>2, <1>2 DEF Suspend, Moves, Suspended
  <2>. QED  BY <1>9, <2>1, <2>2, Zenon DEF UpstreamHead
<1>10. CASE UpstreamFails(f)
  BY <1>10, FailMoves DEF UpstreamFails
<1>11. CASE ResponseBody(f)
  <2>1. CASE Pause(f, "resPaused", "responded") /\ held' = [held EXCEPT ![f] = TRUE]
    BY <2>1, <1>2, PauseMoves DEF Suspended
  <2>. QED  BY <1>11, <2>1, RelayMoves, Zenon DEF ResponseBody
<1>12. CASE AfterResponsePause(f)
  <2>1. CASE /\ Return(f, stage[f], Sent(f, "dropped"))
             /\ Announce(f, Summary(stage[f], FALSE))
             /\ UNCHANGED <<contacted, held, decision>>
    BY <2>1, <1>1, <1>2, ReturnMoves DEF Announce
  <2>. QED  BY <1>12, <2>1, RelayMoves DEF AfterResponsePause
<1>13. CASE StreamBlocks(f)
  BY <1>13 DEF StreamBlocks, Moves, Suspended
<1>14. CASE StreamDrains(f)
  BY <1>14 DEF StreamDrains, Moves, Suspended
<1>15. CASE StreamEnds(f)
  BY <1>1, <1>2, <1>15, ReturnMoves DEF StreamEnds, Announce
<1>16. CASE StreamFails(f)
  BY <1>1, <1>2, <1>16, ReturnMoves DEF StreamFails, Announce
<1>17. CASE ClientLeaves(f)
  BY <1>17 DEF ClientLeaves, Moves
<1>18. CASE Resume(f) \/ Kill(f)
  <2>1. PICK how \in {"resume", "kill"} : Settle(f, how)
    BY <1>18 DEF Resume, Kill
  <2>2. (IF Intercepted(f) THEN how ELSE decision[f]) \in Decisions
    BY DEF Decisions, HandlerTypeOK
  <2>. QED  BY <1>1, <2>1, <2>2 DEF Settle, Announce, Moves
<1>19. CASE Touch(f)
  <2>1. Summary(stage[f], Intercepted(f)) \in Summaries
    BY <1>1 DEF Intercepted
  <2>. QED  BY <1>19, <2>1 DEF Touch, Announce, Moves
<1>. QED
  BY <1>3, <1>4, <1>5, <1>6, <1>7, <1>8, <1>9, <1>10, <1>11, <1>12, <1>13, <1>14,
     <1>15, <1>16, <1>17, <1>18, <1>19, Zenon DEF HandlerStep

\* What such a step does to the rest of the state: only accepting touches the
\* store, and nothing the operator set is changed.
LEMMA HandlerStepRest ==
    ASSUME OtherTypeOK, NEW f \in Flows, HandlerStep(f)
    PROVE  /\ OtherTypeOK'
           /\ session' = session
           /\ Accept(f) \/ UNCHANGED storeVars
<1>1. CASE RequestBody(f)
  <2>1. directive' \in [Flows -> Directives]
    BY <1>1 DEF RequestBody, OtherTypeOK
  <2>. QED  BY <1>1, <2>1 DEF RequestBody, OtherTypeOK
<1>2. CASE ClientLeaves(f)
  <2>1. client' \in [Flows -> {"open", "gone"}]
    BY <1>2 DEF ClientLeaves, OtherTypeOK
  <2>. QED  BY <1>2, <2>1 DEF ClientLeaves, OtherTypeOK
<1>3. CASE Accept(f)
  BY <1>3 DEF Accept, OtherTypeOK
<1>4. CASE Resume(f) \/ Kill(f)
  BY <1>4 DEF Resume, Kill, Settle, OtherTypeOK
<1>5. CASE RefuseTarget(f) \/ RequestBodyFails(f) \/ AfterRequestPause(f)
           \/ DelayElapsed(f) \/ UpstreamFails(f)
  BY <1>5, Zenon
     DEF RefuseTarget, RequestBodyFails, AfterRequestPause, DelayElapsed,
         UpstreamFails, OtherTypeOK
<1>6. CASE AfterResponsePause(f) \/ StreamBlocks(f)
           \/ StreamDrains(f) \/ StreamEnds(f) \/ StreamFails(f) \/ Touch(f)
  BY <1>6, Zenon
     DEF AfterResponsePause, StreamBlocks, StreamDrains,
         StreamEnds, StreamFails, Touch, OtherTypeOK
<1>7. CASE UpstreamHead(f) \/ ResponseBody(f)
  <2>1. /\ \E match \in BOOLEAN : caught' = [caught EXCEPT ![f] = match]
        /\ UNCHANGED <<storeVars, directive, client, session, breakReq, breakRes, ops>>
    BY <1>7, Zenon DEF UpstreamHead, ResponseBody, Verdicts
  <2>2. caught' \in [Flows -> BOOLEAN]
    BY <2>1, Zenon DEF OtherTypeOK
  <2>. QED  BY <2>1, <2>2 DEF OtherTypeOK
<1>. QED
  BY <1>1, <1>2, <1>3, <1>4, <1>5, <1>6, <1>7, Zenon DEF HandlerStep

-----------------------------------------------------------------------------
(* The store in the system.  An exchange is added once: the store holds no *)
(* flow that has not been accepted yet, and no saved session names one.    *)

IdleUnseen ==
    \A f \in Flows :
        pc[f] = "idle" => /\ byId[f] = "absent"
                          /\ \A k \in DOMAIN session : session[k] # f

StoreIInv ==
    /\ StoreInv /\ HandlerTypeOK /\ OtherTypeOK
    /\ session \in Seq(Flows) /\ NoRepeats(session) /\ IdleUnseen

\* The invariant holds of an empty store and idle handlers.
LEMMA StoreIInvInit == Init => StoreIInv
<1> SUFFICES ASSUME Init PROVE StoreIInv
  OBVIOUS
<1>1. StoreInv
  BY StoreInitInv DEF Init
<1>2. HandlerTypeOK
  <2>1. {"new"} \subseteq Stages /\ [stage |-> "new", paused |-> FALSE] \in Summaries
    BY DEF Stages, Summaries
  <2>. QED  BY <2>1 DEF Init, HandlerTypeOK, Suspended
<1>3. OtherTypeOK
  <2>1. NoDirective \in Directives
    BY DEF NoDirective, Directives
  <2>. QED  BY <2>1, FlowsAssumption DEF Init, OtherTypeOK
<1>4. session \in Seq(Flows) /\ DOMAIN session = {}
  BY EmptySeq, LenProperties DEF Init
<1>5. IdleUnseen
  BY <1>4 DEF Init, StoreInit, IdleUnseen, Flows
<1>. QED
  BY <1>1, <1>2, <1>3, <1>4, <1>5 DEF NoRepeats, StoreIInv

\* A step of an exchange keeps the store's invariant.
LEMMA StoreIInvHandler ==
    ASSUME StoreIInv, NEW f \in Flows, HandlerStep(f)
    PROVE  StoreIInv'
<1>1. /\ StoreInv /\ HandlerTypeOK /\ OtherTypeOK /\ session \in Seq(Flows)
      /\ NoRepeats(session) /\ IdleUnseen
  BY DEF StoreIInv
<1>2. /\ OtherTypeOK' /\ session' = session
      /\ Accept(f) \/ UNCHANGED storeVars
  BY <1>1, HandlerStepRest
<1>3. Moves(f) /\ HandlerTypeOK'
  BY <1>1, HandlerStepMoves, MovesType
<1>4. \A g \in Flows : pc'[g] = "idle" => pc[g] = "idle"
  BY <1>1, <1>3 DEF Moves, HandlerTypeOK
<1>5. CASE Accept(f)
  <2>1. /\ byId[f] = "absent" /\ StoreAdd(f) /\ pc' = [pc EXCEPT ![f] = "reqBody"]
    BY <1>1, <1>5 DEF Accept, IdleUnseen
  <2>2. StoreInv'
    BY <1>1, <2>1, StoreAddInv DEF Flows
  <2>3. \A g \in Flows : pc'[g] = "idle" => g # f /\ byId'[g] = "absent"
    <3> SUFFICES ASSUME NEW g \in Flows, pc'[g] = "idle"
                 PROVE  g # f /\ byId'[g] = "absent"
      OBVIOUS
    <3>1. g # f /\ byId[g] = "absent"
      BY <1>1, <1>4, <2>1 DEF HandlerTypeOK, IdleUnseen
    <3>2. [byId EXCEPT ![f] = "live"][g] = byId[g]
      BY <3>1, <1>1 DEF StoreInv, StoreTypeOK, Flows
    <3>. QED
      BY <3>1, <3>2, <2>1 DEF StoreAdd, Trim, Flows
  <2>4. IdleUnseen'
    BY <1>1, <1>2, <1>4, <2>3 DEF IdleUnseen
  <2>5. NoRepeats(session)'
    BY <1>1, <1>2 DEF NoRepeats
  <2>. QED
    BY <1>1, <1>2, <1>3, <2>2, <2>4, <2>5 DEF StoreIInv
<1>6. CASE UNCHANGED storeVars
  <2>1. StoreInv'
    BY <1>1, <1>6
       DEF StoreInv, StoreTypeOK, RingBounded, ListMatchesMap, storeVars
  <2>2. IdleUnseen'
    BY <1>1, <1>2, <1>4, <1>6 DEF IdleUnseen, storeVars
  <2>5. NoRepeats(session)'
    BY <1>1, <1>2 DEF NoRepeats
  <2>. QED
    BY <1>1, <1>2, <1>3, <2>1, <2>2, <2>5 DEF StoreIInv
<1>. QED  BY <1>2, <1>5, <1>6

\* The operator's steps keep it too.
LEMMA StoreIInvOperator ==
    ASSUME StoreIInv, OperatorStep
    PROVE  StoreIInv'
<1>1. /\ StoreInv /\ HandlerTypeOK /\ OtherTypeOK /\ session \in Seq(Flows)
      /\ NoRepeats(session) /\ IdleUnseen
  BY DEF StoreIInv
<1>2. UNCHANGED flowVars /\ ops' = ops + 1 /\ ops < OpBudget
  BY DEF OperatorStep, RemoveFlow, ResizeStore, SetFilters, ClearFlows, SaveSession,
         LoadSession, Operate
<1>3. HandlerTypeOK'
  BY <1>1, <1>2 DEF flowVars, HandlerTypeOK
<1>4. OtherTypeOK'
  <2>1. breakReq' \in BOOLEAN /\ breakRes' \in BOOLEAN
    BY <1>1 DEF OperatorStep, RemoveFlow, ResizeStore, SetFilters, ClearFlows,
                SaveSession, LoadSession, OtherTypeOK
  <2>2. ops' \in 0 .. OpBudget
    BY <1>1, <1>2, FlowsAssumption DEF OtherTypeOK
  <2>. QED  BY <1>1, <1>2, <2>1, <2>2 DEF flowVars, OtherTypeOK
<1>5. ASSUME StoreInv', session' = session,
             \A g \in Flows : byId[g] = "absent"
                /\ (\A k \in DOMAIN session : session[k] # g) => byId'[g] = "absent"
      PROVE  StoreIInv'
  <2>1. IdleUnseen'
    BY <1>1, <1>2, <1>5 DEF IdleUnseen, flowVars
  <2>2. NoRepeats(session)'
    BY <1>1, <1>5 DEF NoRepeats
  <2>. QED
    BY <1>1, <1>3, <1>4, <1>5, <2>1, <2>2 DEF StoreIInv
<1>6. byId \in [Flows -> Object]
  BY <1>1 DEF StoreInv, StoreTypeOK, Flows
<1>7. CASE SetFilters
  <2>1. UNCHANGED <<flows, byId, max, session>>
    BY <1>7 DEF SetFilters, storeVars
  <2>2. StoreInv'
    BY <1>1, <2>1 DEF StoreInv, StoreTypeOK, RingBounded, ListMatchesMap
  <2>. QED  BY <1>5, <2>1, <2>2
<1>8. CASE \E f \in Flows : RemoveFlow(f)
  <2>1. PICK f \in Flows : StoreRemove(f) /\ session' = session
    BY <1>8 DEF RemoveFlow
  <2>2. StoreInv'
    BY <1>1, <2>1, StoreRemoveInv DEF Flows
  <2>3. byId' = [byId EXCEPT ![f] = "absent"]
    BY <2>1 DEF StoreRemove
  <2>. QED  BY <1>5, <1>6, <2>1, <2>2, <2>3
<1>9. CASE ClearFlows
  <2>1. StoreInv' /\ session' = session
    BY <1>1, <1>9, StoreClearInv DEF ClearFlows
  <2>2. byId' = [i \in Flows |-> "absent"]
    BY <1>9 DEF ClearFlows, StoreClear, Flows
  <2>. QED  BY <1>5, <2>1, <2>2
<1>10. CASE \E m \in Limits : ResizeStore(m)
  <2>1. PICK m \in Limits : StoreSetMax(m) /\ session' = session
    BY <1>10 DEF ResizeStore
  <2>2. StoreInv'
    BY <1>1, <2>1, StoreSetMaxInv
  <2>3. \A g \in Flows : byId[g] = "absent" => byId'[g] = "absent"
    BY <2>1 DEF StoreSetMax, Trim, Flows
  <2>. QED  BY <1>5, <2>1, <2>2, <2>3
<1>11. CASE SaveSession
  <2>1. /\ UNCHANGED <<flows, byId, max>> /\ session' = flows
    BY <1>11 DEF SaveSession, storeVars
  <2>2. StoreInv'
    BY <1>1, <2>1 DEF StoreInv, StoreTypeOK, RingBounded, ListMatchesMap
  <2>3. session' \in Seq(Flows) /\ NoRepeats(session)'
    BY <1>1, <2>1, Zenon
       DEF StoreInv, StoreTypeOK, ListMatchesMap, NoRepeats, Flows
  <2>4. \A g \in Flows : byId[g] = "absent" => \A k \in DOMAIN flows : flows[k] # g
    BY <1>1 DEF StoreInv, ListMatchesMap, Flows
  <2>5. IdleUnseen'
    BY <1>1, <1>2, <2>1, <2>4 DEF IdleUnseen, flowVars
  <2>. QED
    BY <1>3, <1>4, <2>2, <2>3, <2>5 DEF StoreIInv
<1>12. CASE LoadSession
  <2>1. StoreLoad(session) /\ session' = session
    BY <1>12 DEF LoadSession
  <2>2. StoreInv'
    BY <1>1, <2>1, StoreLoadInv DEF Flows
  <2>3. ASSUME NEW g \in Flows, \A k \in DOMAIN session : session[k] # g
        PROVE  byId'[g] = "absent"
    <3>1. max \in Nat
      BY <1>1, LimitsAssumption DEF StoreInv, StoreTypeOK
    <3>2. /\ Excess(session, max) \in 0 .. Len(session)
          /\ Kept(session, max) \in Seq(Flows)
          /\ Len(Kept(session, max)) = Len(session) - Excess(session, max)
          /\ \A k \in 1 .. Len(Kept(session, max)) :
                Kept(session, max)[k] = session[k + Excess(session, max)]
      BY <1>1, <3>1, KeptIsSuffix DEF Flows
    <3>3. /\ DOMAIN Kept(session, max) = 1 .. Len(Kept(session, max))
          /\ DOMAIN session = 1 .. Len(session) /\ Len(session) \in Nat
      BY <1>1, <3>2, LenProperties
    <3>4. ASSUME NEW k \in DOMAIN Kept(session, max), Kept(session, max)[k] = g
          PROVE  FALSE
      <4>1. k + Excess(session, max) \in DOMAIN session
        BY <3>2, <3>3
      <4>. QED  BY <4>1, <3>2, <3>3, <3>4, <2>3
    <3>5. g \notin ToSet(Kept(session, max))
      BY <3>4 DEF ToSet
    <3>. QED  BY <3>5, <2>1 DEF StoreLoad, Flows
  <2>. QED  BY <1>5, <2>1, <2>2, <2>3
<1>. QED
  BY <1>7, <1>8, <1>9, <1>10, <1>11, <1>12 DEF OperatorStep

\* The invariant of the store in the system, for any number of exchanges,
\* operator calls and limits.
THEOREM StoreInvariant == Spec => []StoreIInv
<1>1. StoreIInv /\ [Next]_vars => StoreIInv'
  <2> SUFFICES ASSUME StoreIInv, [Next]_vars PROVE StoreIInv'
    OBVIOUS
  <2>1. CASE Next
    BY <2>1, NextSteps, StoreIInvHandler, StoreIInvOperator
  <2>2. CASE UNCHANGED vars
    BY <2>2
       DEF vars, StoreIInv, StoreInv, StoreTypeOK, RingBounded, ListMatchesMap,
           HandlerTypeOK, OtherTypeOK, NoRepeats, IdleUnseen
  <2>. QED  BY <2>1, <2>2
<1>. QED  BY <1>1, StoreIInvInit, PTL DEF Spec

\* Every variable stays in its type.
THEOREM TypeCorrect == Spec => []TypeOK
<1>1. StoreIInv => TypeOK
  BY TypeParts DEF StoreIInv, StoreInv
<1>. QED  BY <1>1, StoreInvariant, PTL

\* The capture never outgrows maxFlows.
THEOREM RingStaysBounded == Spec => []RingBounded
<1>1. StoreIInv => RingBounded
  BY DEF StoreIInv, StoreInv
<1>. QED  BY <1>1, StoreInvariant, PTL

\* The list the inspector shows and the map the API looks flows up in never
\* come apart.
THEOREM ListAlwaysMatchesMap == Spec => []ListMatchesMap
<1>1. StoreIInv => ListMatchesMap
  BY DEF StoreIInv, StoreInv
<1>. QED  BY <1>1, StoreInvariant, PTL

-----------------------------------------------------------------------------
(***************************************************************************)
(* What the breakpoints and the rules promise, for any number of exchanges *)
(* running side by side: nothing leaves a paused flow, a killed one gets   *)
(* no bytes, and the origin is spared what was killed, blocked or mocked.  *)
(* None of the three is inductive: each depends on where the handler is    *)
(* suspended and on what it has sent by then, which ExchangeOK tabulates.  *)
(***************************************************************************)

\* What a handler suspended at p may have decided, sent and held.
Possible(p, dec, con, hld, rep, act) ==
    /\ p \in {"idle", "reqBody"} => dec = "none" /\ ~con /\ ~hld /\ rep = "none"
    /\ p = "reqPaused" => dec # "none" /\ ~con /\ ~hld /\ rep = "none"
    /\ p = "delayed" => dec \in {"none", "resume"} /\ ~con /\ ~hld /\ rep = "none"
    /\ p \in {"upstream", "resBody"} =>
           dec \in {"none", "resume"} /\ con /\ act = "forward" /\ ~hld /\ rep = "none"
    /\ p = "resPaused" => dec # "none" /\ act = "forward" /\ hld /\ rep = "none"
    /\ p \in {"streaming", "stalled"} =>
           /\ dec \in {"none", "resume"} /\ act = "forward" /\ ~hld
           /\ rep \in {"none", "head"}
    /\ p = "done" => /\ dec # "pending"
                     /\ dec = "kill" => rep \in {"none", "dropped"}
                     /\ con => act = "forward" /\ (~hld => dec # "kill")

ExchangeOK(f) ==
    Possible(pc[f], decision[f], contacted[f], held[f], reply[f], directive[f].act)

BreakpointIInv == \A f \in Flows : ExchangeOK(f)

-----------------------------------------------------------------------------

\* No exchange has begun, so none has been decided, sent or answered.
LEMMA BreakpointInit == Init => BreakpointIInv
BY DEF Init, BreakpointIInv, ExchangeOK, Possible

\* The invariant gives the three properties.
LEMMA BreakpointImplies ==
    TypeOK /\ BreakpointIInv =>
        NothingLeavesWhilePaused /\ KilledGetsNoBytes /\ OriginSparedByRules
<1> SUFFICES ASSUME TypeOK, BreakpointIInv, NEW f \in Flows
             PROVE  /\ Intercepted(f) =>
                         /\ pc[f] \in {"reqPaused", "resPaused"}
                         /\ pc[f] = "reqPaused" => ~contacted[f]
                         /\ reply[f] = "none"
                    /\ decision[f] = "kill" => reply[f] \in {"none", "dropped"}
                    /\ contacted[f] => /\ directive[f].act = "forward"
                                       /\ ~held[f] => decision[f] # "kill"
  BY DEF NothingLeavesWhilePaused, KilledGetsNoBytes, OriginSparedByRules
<1>1. pc[f] \in Suspended
  BY DEF TypeOK
<1>2. ExchangeOK(f)
  BY DEF BreakpointIInv
<1>. QED
  BY <1>1, <1>2 DEF ExchangeOK, Possible, Intercepted, Suspended

\* An exchange that was not killed may return with any answer.
LEMMA RelayOK ==
    ASSUME HandlerTypeOK, NEW f \in Flows, Relay(f) \/ Fail(f),
           decision[f] \in {"none", "resume"},
           contacted[f] => directive'[f].act = "forward"
    PROVE  Possible(pc'[f], decision'[f], contacted'[f], held'[f], reply'[f],
                    directive'[f].act)
<1>1. PICK r : /\ pc' = [pc EXCEPT ![f] = "done"] /\ reply' = [reply EXCEPT ![f] = r]
               /\ UNCHANGED <<contacted, held, decision>>
  BY Zenon DEF Relay, Fail, Return, Suspend
<1>2. pc'[f] = "done" /\ decision'[f] = decision[f] /\ contacted'[f] = contacted[f]
      /\ held'[f] = held[f]
  BY <1>1 DEF HandlerTypeOK
<1>. QED  BY <1>2 DEF Possible

\* Past the breakpoint, with nothing sent yet.
LEMMA ProceedOK ==
    ASSUME HandlerTypeOK, NEW f \in Flows, NEW d \in Directives, NEW st, NEW told,
           Dispatch(f, d, st, told) \/ Proceed(f, d, st, told),
           decision[f] \in {"none", "resume"}, ~contacted[f], ~held[f],
           reply[f] = "none", directive'[f] = d
    PROVE  Possible(pc'[f], decision'[f], contacted'[f], held'[f], reply'[f],
                    directive'[f].act)
<1>1. ASSUME Dispatch(f, d, st, told)  
      PROVE  Possible(pc'[f], decision'[f], contacted'[f], held'[f], reply'[f],
                      directive'[f].act)
  <2>1. CASE Return(f, st, Sent(f, "dropped")) /\ UNCHANGED <<contacted, held, decision>>
    <3>1. pc'[f] = "done" /\ decision'[f] = decision[f] /\ contacted'[f] = contacted[f]
      BY <2>1 DEF Return, Suspend, HandlerTypeOK
    <3>. QED  BY <3>1 DEF Possible
  <2>2. CASE Relay(f)
    BY <2>2, RelayOK
  <2>3. CASE /\ d.act = "forward"
             /\ Suspend(f, "upstream", st)
             /\ contacted' = [contacted EXCEPT ![f] = TRUE]
             /\ UNCHANGED <<reply, held, decision>>
    BY <2>3 DEF Suspend, HandlerTypeOK, Possible
  <2>. QED  BY <1>1, <2>1, <2>2, <2>3 DEF Dispatch
<1>2. CASE /\ Suspend(f, "delayed", st)
           /\ UNCHANGED <<reply, contacted, held, decision>>
  BY <1>2 DEF Suspend, HandlerTypeOK, Possible
<1>. QED  BY <1>1, <1>2, Zenon DEF Proceed

-----------------------------------------------------------------------------

\* A step of an exchange leaves it in a possible state.
LEMMA OwnStepOK ==
    ASSUME HandlerTypeOK, OtherTypeOK, NEW f \in Flows, ExchangeOK(f), HandlerStep(f)
    PROVE  Possible(pc'[f], decision'[f], contacted'[f], held'[f], reply'[f],
                    directive'[f].act)
<1>1. /\ pc[f] \in Suspended /\ decision[f] \in {"none", "pending", "resume", "kill"}
      /\ directive[f] \in Directives
      /\ Possible(pc[f], decision[f], contacted[f], held[f], reply[f], directive[f].act)
  BY DEF HandlerTypeOK, OtherTypeOK, ExchangeOK
<1>2. CASE Accept(f)
  BY <1>1, <1>2 DEF Accept, HandlerTypeOK, Possible
<1>3. CASE RefuseTarget(f)
  BY <1>1, <1>3 DEF RefuseTarget, HandlerTypeOK, Possible
<1>4. CASE RequestBody(f)
  <2>1. PICK d \in Directives, st \in Stages :
          /\ directive' = [directive EXCEPT ![f] = d]
          /\ IF breakReq /\ f \notin Replays
             THEN Pause(f, "reqPaused", st) /\ UNCHANGED held
             ELSE Proceed(f, d, st, seen[f])
    <3>1. stage[f] \in Stages /\ "ruled" \in Stages
      BY DEF HandlerTypeOK, Stages
    <3>. QED  BY <1>4, <3>1 DEF RequestBody
  <2>2. /\ directive'[f] = d /\ decision[f] = "none" /\ ~contacted[f] /\ ~held[f]
        /\ reply[f] = "none"
    BY <1>1, <1>4, <2>1 DEF RequestBody, OtherTypeOK, Possible
  <2>3. CASE Pause(f, "reqPaused", st) /\ UNCHANGED held
    BY <2>2, <2>3 DEF Pause, Suspend, HandlerTypeOK, Possible
  <2>4. CASE Proceed(f, d, st, seen[f])
    BY <2>2, <2>4, ProceedOK
  <2>. QED  BY <2>1, <2>3, <2>4
<1>5. CASE RequestBodyFails(f)
  <2>1. decision[f] = "none" /\ ~contacted[f] /\ Fail(f)
    BY <1>1, <1>5 DEF RequestBodyFails, Possible
  <2>. QED  BY <2>1, RelayOK
<1>6. CASE AfterRequestPause(f)
  <2>1. directive' = directive /\ ~contacted[f] /\ ~held[f] /\ reply[f] = "none"
    BY <1>1, <1>6 DEF AfterRequestPause, Possible
  <2>2. CASE /\ decision[f] = "kill"
             /\ Return(f, stage[f], Sent(f, "dropped"))
             /\ UNCHANGED <<contacted, held, decision>>
    <3>1. pc'[f] = "done" /\ reply'[f] \in {"none", "dropped"}
      BY <2>1, <2>2 DEF Return, Suspend, Sent, HandlerTypeOK
    <3>. QED  BY <2>1, <2>2, <3>1 DEF Possible
  <2>3. CASE /\ decision[f] = "resume"
             /\ Proceed(f, directive[f], stage[f], Summary(stage[f], FALSE))
    BY <1>1, <2>1, <2>3, ProceedOK
  <2>. QED  BY <1>6, <2>2, <2>3 DEF AfterRequestPause
<1>7. CASE DelayElapsed(f)
  <2>1. /\ directive' = directive /\ ~contacted[f] /\ ~held[f] /\ reply[f] = "none"
        /\ decision[f] \in {"none", "resume"}
        /\ Dispatch(f, directive[f], stage[f], seen[f])
    BY <1>1, <1>7 DEF DelayElapsed, Possible
  <2>. QED  BY <1>1, <2>1, ProceedOK
<1>8. CASE UpstreamHead(f)
  <2>1. /\ directive' = directive /\ ~held[f] /\ decision[f] \in {"none", "resume"}
        /\ directive[f].act = "forward" /\ reply[f] = "none" /\ contacted[f]
    BY <1>1, <1>8 DEF UpstreamHead, Possible
  <2>2. CASE Fail(f)
    BY <2>1, <2>2, RelayOK
  <2>3. CASE Return(f, "responded", reply[f]) /\ UNCHANGED <<contacted, held, decision>>
    <3>1. pc'[f] = "done"
      BY <2>3 DEF Return, Suspend, HandlerTypeOK
    <3>. QED  BY <2>1, <2>3, <3>1 DEF Possible
  <2>4. CASE /\ Suspend(f, "streaming", "responded")
             /\ reply' = [reply EXCEPT ![f] = Sent(f, "head")]
             /\ UNCHANGED <<contacted, held, decision>>
    <3>1. pc'[f] = "streaming" /\ reply'[f] \in {"none", "head"}
      BY <2>1, <2>4 DEF Suspend, Sent, HandlerTypeOK
    <3>. QED  BY <2>1, <2>4, <3>1 DEF Possible
  <2>5. CASE Suspend(f, "resBody", "responded")
             /\ UNCHANGED <<contacted, held, decision, reply>>
    <3>1. pc'[f] = "resBody"
      BY <2>5 DEF Suspend, HandlerTypeOK
    <3>. QED  BY <2>1, <2>5, <3>1 DEF Possible
  <2>. QED  BY <1>8, <2>2, <2>3, <2>4, <2>5, Zenon DEF UpstreamHead, StartStream
<1>9. CASE UpstreamFails(f)
  <2>1. /\ directive' = directive /\ decision[f] \in {"none", "resume"}
        /\ directive[f].act = "forward" /\ Fail(f)
    BY <1>1, <1>9 DEF UpstreamFails, Possible
  <2>. QED  BY <2>1, RelayOK
<1>10. CASE ResponseBody(f)
  <2>1. /\ directive' = directive /\ decision[f] \in {"none", "resume"}
        /\ directive[f].act = "forward" /\ reply[f] = "none"
    BY <1>1, <1>10 DEF ResponseBody, Possible
  <2>2. CASE Pause(f, "resPaused", "responded") /\ held' = [held EXCEPT ![f] = TRUE]
    <3>1. pc'[f] = "resPaused" /\ decision'[f] = "pending" /\ held'[f] /\ reply'[f] = "none"
      BY <2>1, <2>2 DEF Pause, Suspend, HandlerTypeOK
    <3>. QED  BY <2>1, <3>1 DEF Possible
  <2>3. CASE Relay(f)
    BY <2>1, <2>3, RelayOK
  <2>. QED  BY <1>10, <2>2, <2>3 DEF ResponseBody
<1>11. CASE AfterResponsePause(f)
  <2>1. /\ directive' = directive /\ held[f] /\ reply[f] = "none"
        /\ directive[f].act = "forward"
    BY <1>1, <1>11 DEF AfterResponsePause, Possible
  <2>2. CASE /\ decision[f] = "kill"
             /\ Return(f, stage[f], Sent(f, "dropped"))
             /\ UNCHANGED <<contacted, held, decision>>
    <3>1. pc'[f] = "done" /\ reply'[f] \in {"none", "dropped"}
      BY <2>1, <2>2 DEF Return, Suspend, Sent, HandlerTypeOK
    <3>. QED  BY <2>1, <2>2, <3>1 DEF Possible
  <2>3. CASE decision[f] = "resume" /\ Relay(f)
    BY <2>1, <2>3, RelayOK
  <2>. QED  BY <1>11, <2>2, <2>3 DEF AfterResponsePause
<1>12. CASE StreamBlocks(f) \/ StreamDrains(f)
  <2>1. /\ pc'[f] \in {"streaming", "stalled"} /\ pc[f] \in {"streaming", "stalled"}
        /\ UNCHANGED <<decision, contacted, held, directive, reply>>
    BY <1>12 DEF StreamBlocks, StreamDrains, HandlerTypeOK
  <2>. QED  BY <1>1, <2>1 DEF Possible
<1>13. CASE StreamEnds(f) \/ StreamFails(f)
  <2>1. /\ pc'[f] = "done" /\ pc[f] \in {"streaming", "stalled"}
        /\ UNCHANGED <<decision, contacted, held, directive>>
    BY <1>13 DEF StreamEnds, StreamFails, Return, Suspend, HandlerTypeOK
  <2>. QED  BY <1>1, <2>1 DEF Possible
<1>14. CASE ClientLeaves(f)
  BY <1>1, <1>14 DEF ClientLeaves
<1>15. CASE Resume(f) \/ Kill(f)
  <2>1. PICK how \in {"resume", "kill"} :
          decision' = [decision EXCEPT ![f] = IF Intercepted(f) THEN how ELSE @]
    BY <1>15 DEF Resume, Kill, Settle
  <2>2. UNCHANGED <<pc, contacted, held, reply, directive>>
    BY <1>15 DEF Resume, Kill, Settle
  <2>3. \/ decision'[f] = decision[f]
        \/ decision[f] = "pending" /\ decision'[f] \in {"resume", "kill"}
    BY <2>1 DEF Intercepted, HandlerTypeOK
  <2>. QED  BY <1>1, <2>2, <2>3 DEF Possible, Suspended
<1>16. CASE Touch(f)
  BY <1>1, <1>16 DEF Touch
<1>. QED
  BY <1>2, <1>3, <1>4, <1>5, <1>6, <1>7, <1>8, <1>9, <1>10, <1>11, <1>12, <1>13,
     <1>14, <1>15, <1>16, Zenon DEF HandlerStep

\* What the filter said changes only when it is asked.
LEMMA CaughtWhenAsked ==
    ASSUME NEW f \in Flows, HandlerStep(f)
    PROVE  \/ caught' = caught
           \/ /\ UpstreamHead(f) \/ ResponseBody(f)
              /\ \E match \in BOOLEAN : caught' = [caught EXCEPT ![f] = match]
<1>1. CASE UpstreamHead(f) \/ ResponseBody(f)
  BY <1>1, Zenon DEF UpstreamHead, ResponseBody, Verdicts
<1>2. CASE ~(UpstreamHead(f) \/ ResponseBody(f))
  BY <1>2, Zenon
     DEF HandlerStep, Accept, RefuseTarget, RequestBody, RequestBodyFails,
         AfterRequestPause, DelayElapsed, UpstreamFails, AfterResponsePause,
         StreamBlocks, StreamDrains, StreamEnds, StreamFails, ClientLeaves, Resume,
         Kill, Settle, Touch
<1>. QED  BY <1>1, <1>2

\* It disturbs no other exchange.
LEMMA OtherExchanges ==
    ASSUME HandlerTypeOK, OtherTypeOK, NEW f \in Flows, HandlerStep(f),
           NEW g \in Flows, g # f
    PROVE  /\ pc'[g] = pc[g] /\ decision'[g] = decision[g] /\ reply'[g] = reply[g]
           /\ contacted'[g] = contacted[g] /\ held'[g] = held[g]
           /\ directive'[g] = directive[g] /\ caught'[g] = caught[g]
<1>1. Moves(f)
  BY HandlerStepMoves
<1>2. /\ pc'[g] = pc[g] /\ decision'[g] = decision[g] /\ reply'[g] = reply[g]
      /\ contacted'[g] = contacted[g] /\ held'[g] = held[g]
  BY <1>1 DEF Moves, HandlerTypeOK
<1>3. directive' = directive \/ \E d \in Directives : directive' = [directive EXCEPT ![f] = d]
  <2>1. CASE RequestBody(f)
    BY <2>1 DEF RequestBody
  <2>2. CASE ~RequestBody(f)
    BY <2>2, Zenon
       DEF HandlerStep, Accept, RefuseTarget, RequestBodyFails, AfterRequestPause,
           DelayElapsed, UpstreamHead, UpstreamFails, ResponseBody, AfterResponsePause,
           StreamBlocks, StreamDrains, StreamEnds, StreamFails, ClientLeaves, Resume,
           Kill, Settle, Touch
  <2>. QED  BY <2>1, <2>2
<1>4. caught' = caught \/ \E match \in BOOLEAN : caught' = [caught EXCEPT ![f] = match]
  BY CaughtWhenAsked
<1>5. caught'[g] = caught[g]
  BY <1>4, Zenon DEF OtherTypeOK
<1>. QED  BY <1>2, <1>3, <1>5 DEF OtherTypeOK

\* Every step of a handler, a client or the operator keeps every exchange OK.
LEMMA BreakpointStep ==
    ASSUME HandlerTypeOK, OtherTypeOK, BreakpointIInv, [Next]_vars
    PROVE  BreakpointIInv'
<1> SUFFICES ASSUME NEW g \in Flows PROVE ExchangeOK(g)'
  BY DEF BreakpointIInv
<1>1. ExchangeOK(g)
  BY DEF BreakpointIInv
<1>2. CASE OperatorStep \/ UNCHANGED vars
  <2>1. UNCHANGED <<pc, decision, contacted, held, reply, directive>>
    BY <1>2 DEF OperatorStep, RemoveFlow, ResizeStore, SetFilters, ClearFlows,
                SaveSession, LoadSession, Operate, flowVars, vars
  <2>. QED  BY <1>1, <2>1 DEF ExchangeOK
<1>3. ASSUME NEW f \in Flows, HandlerStep(f)  PROVE ExchangeOK(g)'
  <2>1. CASE f = g
    BY <1>1, <1>3, <2>1, OwnStepOK DEF ExchangeOK
  <2>2. CASE f # g
    BY <1>1, <1>3, <2>2, OtherExchanges DEF ExchangeOK
  <2>. QED  BY <2>1, <2>2
<1>. QED  BY <1>2, <1>3, NextSteps

\* Every exchange is in a possible state, in every reachable state.
THEOREM BreakpointInvariant == Spec => []BreakpointIInv
<1>1. StoreIInv => HandlerTypeOK /\ OtherTypeOK
  BY DEF StoreIInv
<1>2. BreakpointIInv /\ StoreIInv /\ [Next]_vars => BreakpointIInv'
  BY <1>1, BreakpointStep
<1>. QED  BY <1>2, BreakpointInit, StoreInvariant, PTL DEF Spec

\* While a flow is paused nothing leaves it (request-handler.ts:108, 199).
THEOREM PausedSendsNothing == Spec => []NothingLeavesWhilePaused
BY BreakpointInvariant, BreakpointImplies, TypeCorrect, PTL

\* A killed exchange gets no bytes (request-handler.ts:112, 204).
THEOREM KilledGetsNothing == Spec => []KilledGetsNoBytes
BY BreakpointInvariant, BreakpointImplies, TypeCorrect, PTL

\* The origin never sees what was killed, blocked or mocked.
THEOREM OriginIsSpared == Spec => []OriginSparedByRules
BY BreakpointInvariant, BreakpointImplies, TypeCorrect, PTL

\* No decision is revised: a promise is made only where none is settled, or
\* anew at the response breakpoint (flow.ts, intercept and resume).
THEOREM DecisionsStand == Spec => DecisionStands
<1>1. StoreIInv /\ BreakpointIInv /\ [Next]_vars =>
        [\A f \in Flows :
            decision[f] \in {"resume", "kill"} /\ decision'[f] # decision[f] =>
                decision'[f] = "pending" /\ pc'[f] = "resPaused"]_vars
  <2> SUFFICES ASSUME HandlerTypeOK, OtherTypeOK, BreakpointIInv, [Next]_vars,
                      NEW f \in Flows, decision[f] \in {"resume", "kill"},
                      decision'[f] # decision[f]
               PROVE  decision'[f] = "pending" /\ pc'[f] = "resPaused"
    BY DEF StoreIInv
  <2>1. ~UNCHANGED decision
    OBVIOUS
  <2>2. ~OperatorStep
    BY <2>1 DEF OperatorStep, RemoveFlow, ResizeStore, SetFilters, ClearFlows,
                SaveSession, LoadSession, Operate, flowVars
  <2>3. HandlerStep(f)
    BY <2>1, <2>2, NextSteps, OtherExchanges DEF vars
  <2>4. pc[f] # "reqBody"
    BY DEF BreakpointIInv, ExchangeOK, Possible
  <2>5. ~Fail(f) /\ ~Relay(f)
    BY <2>1 DEF Fail, Relay
  <2>6. ~Settle(f, "resume") /\ ~Settle(f, "kill")
    BY DEF Settle, Intercepted, HandlerTypeOK
  <2>7. ResponseBody(f)
    BY <2>1, <2>3, <2>4, <2>5, <2>6, Zenon
       DEF HandlerStep, Accept, RefuseTarget, RequestBody, RequestBodyFails,
           AfterRequestPause, DelayElapsed, UpstreamHead, StartStream, UpstreamFails,
           AfterResponsePause, StreamBlocks, StreamDrains, StreamEnds, StreamFails,
           ClientLeaves, Resume, Kill, Touch, Proceed, Dispatch
  <2>. QED  BY <2>5, <2>7 DEF ResponseBody, Pause, Suspend, HandlerTypeOK
<1>. QED  BY <1>1, StoreInvariant, BreakpointInvariant, PTL DEF Spec, DecisionStands

-----------------------------------------------------------------------------
(***************************************************************************)
(* How an exchange ends, for any number of them side by side: what its     *)
(* client has been sent only grows, a response the filter matches has been *)
(* paused, and the inspector has been told.                                *)
(* The three rest on one table of what a step does to its own exchange.    *)
(***************************************************************************)

Relayed == {"head", "whole", "cut"}

\* A returned exchange has been announced, but for the two silent returns.
Told(f) ==
    \/ seen[f] = Summary(stage[f], FALSE)
    \/ f \in H1 /\ directive[f].act = "block" /\ ~contacted[f]
    \/ f \in H2 /\ client[f] = "gone" /\ contacted[f]

\* A step with which the handler of f returns.
Returns(f) ==
    /\ pc[f] # "done" /\ pc'[f] = "done"
    /\ pc[f] = "idle" \/ Told(f)'
    /\ reply'[f] # reply[f] =>
         reply[f] = "none" \/ reply'[f] \in {"whole", "cut", "dropped"}
    /\ contacted'[f] /\ reply'[f] \in Relayed /\ caught'[f] =>
         \/ held'[f]
         \/ pc[f] \in {"streaming", "stalled"} /\ caught'[f] = caught[f]

\* A step after which it waits, other than for a stream.
Waits(f) ==
    /\ pc'[f] \notin {"done", "streaming", "stalled"}
    /\ reply'[f] = reply[f]

\* A step that begins or goes on streaming.
Streams(f) ==
    /\ pc'[f] \in {"streaming", "stalled"}
    /\ \/ /\ pc[f] \in {"streaming", "stalled"}
          /\ reply'[f] = reply[f] /\ caught'[f] = caught[f]
       \/ pc[f] = "upstream" /\ ~caught'[f] /\ reply'[f] \in {reply[f], "head"}

\* The operator's word about an exchange that is over.
Afterwards(f) ==
    /\ pc[f] = "done" /\ pc'[f] = "done"
    /\ reply'[f] = reply[f] /\ contacted'[f] = contacted[f] /\ held'[f] = held[f]
    /\ caught'[f] = caught[f]
    /\ Told(f) => Told(f)'

-----------------------------------------------------------------------------

\* What relaying or failing does, wherever it is reached.
LEMMA RelayOrFail ==
    ASSUME HandlerTypeOK, NEW f \in Flows, Relay(f) \/ Fail(f)
    PROVE  /\ pc'[f] = "done" /\ seen'[f] = Summary(stage'[f], FALSE)
           /\ UNCHANGED <<contacted, held, decision>>
           /\ Fail(f) => reply'[f] \in {reply[f], "error"}
<1>1. ASSUME NEW st, NEW r, Return(f, st, r), Announce(f, Summary(st, FALSE))
      PROVE  pc'[f] = "done" /\ seen'[f] = Summary(stage'[f], FALSE) /\ reply'[f] = r
  BY <1>1 DEF Return, Suspend, Announce, HandlerTypeOK
<1>2. CASE Fail(f)
  <2>1. Sent(f, "error") \in {reply[f], "error"}
    BY DEF Sent
  <2>. QED  BY <1>1, <1>2, <2>1 DEF Fail
<1>3. CASE Relay(f) /\ ~Fail(f)
  BY <1>1, <1>3 DEF Relay
<1>. QED  BY <1>2, <1>3

\* Both are returns, if no pause that was due has been left out.
LEMMA RelayReturns ==
    ASSUME HandlerTypeOK, NEW f \in Flows, Relay(f) \/ Fail(f),
           pc[f] # "done", reply[f] = "none",
           Fail(f) \/ ~caught'[f] \/ ~contacted[f] \/ held[f]
    PROVE  Returns(f)
<1>1. /\ pc'[f] = "done" /\ seen'[f] = Summary(stage'[f], FALSE)
      /\ contacted'[f] = contacted[f] /\ held'[f] = held[f]
      /\ Fail(f) => reply'[f] \notin Relayed
  BY RelayOrFail DEF Relayed
<1>2. Told(f)'
  BY <1>1 DEF Told, Summary
<1>. QED  BY <1>1, <1>2 DEF Returns

\* Past the request breakpoint an exchange returns or waits.
LEMMA ProceedTable ==
    ASSUME HandlerTypeOK, NEW f \in Flows, NEW d \in Directives, NEW st, NEW told,
           Dispatch(f, d, st, told) \/ Proceed(f, d, st, told),
           directive'[f] = d, ~contacted[f], reply[f] = "none", pc[f] # "done"
    PROVE  Returns(f) \/ Waits(f)
<1>1. ASSUME Dispatch(f, d, st, told)  PROVE Returns(f) \/ Waits(f)
  <2>1. CASE /\ d.act = "block"
             /\ Return(f, st, Sent(f, "dropped"))
             /\ Announce(f, IF f \in H1 THEN told ELSE Summary(st, FALSE))
             /\ UNCHANGED <<contacted, held, decision>>
    <3>1. /\ pc'[f] = "done" /\ stage'[f] = st /\ ~contacted'[f]
          /\ seen'[f] = IF f \in H1 THEN told ELSE Summary(st, FALSE)
      BY <2>1 DEF Return, Suspend, Announce, HandlerTypeOK
    <3>2. Told(f)'
      BY <2>1, <3>1 DEF Told, Summary
    <3>. QED  BY <3>1, <3>2 DEF Returns
  <2>2. CASE Relay(f)
    BY <2>2, RelayReturns
  <2>3. CASE Suspend(f, "upstream", st) /\ UNCHANGED reply
    BY <2>3 DEF Suspend, Waits, HandlerTypeOK
  <2>. QED  BY <1>1, <2>1, <2>2, <2>3, Zenon DEF Dispatch
<1>2. CASE Suspend(f, "delayed", st) /\ UNCHANGED reply
  BY <1>2 DEF Suspend, Waits, HandlerTypeOK
<1>. QED  BY <1>1, <1>2, Zenon DEF Proceed

\* A killed exchange returns as well.
LEMMA KillReturns ==
    ASSUME HandlerTypeOK, NEW f \in Flows, reply[f] = "none", pc[f] # "done",
           Return(f, stage[f], Sent(f, "dropped")),
           Announce(f, Summary(stage[f], FALSE))
    PROVE  Returns(f)
<1>1. /\ pc'[f] = "done" /\ seen'[f] = Summary(stage'[f], FALSE)
      /\ reply'[f] \in {"none", "dropped"}
  BY DEF Return, Suspend, Announce, Sent, HandlerTypeOK
<1>2. Told(f)'
  BY <1>1 DEF Told, Summary
<1>. QED  BY <1>1, <1>2 DEF Returns, Relayed

-----------------------------------------------------------------------------

\* The table: what each step of an exchange does to it.
LEMMA StepTable ==
    ASSUME HandlerTypeOK, OtherTypeOK, NEW f \in Flows, ExchangeOK(f), HandlerStep(f)
    PROVE  Returns(f) \/ Waits(f) \/ Streams(f) \/ Afterwards(f)
<1>1. /\ pc[f] \in Suspended /\ directive[f] \in Directives
      /\ Possible(pc[f], decision[f], contacted[f], held[f], reply[f], directive[f].act)
  BY DEF HandlerTypeOK, OtherTypeOK, ExchangeOK
<1>2. CASE Accept(f)
  BY <1>2 DEF Accept, Waits, HandlerTypeOK
<1>3. CASE RefuseTarget(f)
  <2>1. /\ pc[f] = "idle" /\ pc'[f] = "done"
        /\ reply'[f] = "error" /\ reply[f] = "none"
    BY <1>1, <1>3 DEF RefuseTarget, HandlerTypeOK, Possible
  <2>. QED  BY <2>1 DEF Returns, Relayed
<1>4. CASE RequestBody(f)
  <2>1. PICK d \in Directives, st \in Stages :
          /\ directive' = [directive EXCEPT ![f] = d]
          /\ IF breakReq /\ f \notin Replays
             THEN Pause(f, "reqPaused", st) /\ UNCHANGED held
             ELSE Proceed(f, d, st, seen[f])
    <3>1. stage[f] \in Stages /\ "ruled" \in Stages
      BY DEF HandlerTypeOK, Stages
    <3>. QED  BY <1>4, <3>1 DEF RequestBody
  <2>2. directive'[f] = d /\ ~contacted[f] /\ reply[f] = "none" /\ pc[f] # "done"
    BY <1>1, <1>4, <2>1 DEF RequestBody, OtherTypeOK, Possible
  <2>3. CASE Pause(f, "reqPaused", st)
    BY <2>3 DEF Pause, Suspend, Waits, HandlerTypeOK
  <2>4. CASE Proceed(f, d, st, seen[f])
    BY <2>2, <2>4, ProceedTable
  <2>. QED  BY <2>1, <2>3, <2>4
<1>5. CASE RequestBodyFails(f)
  <2>1. Fail(f) /\ pc[f] # "done" /\ reply[f] = "none"
    BY <1>1, <1>5 DEF RequestBodyFails, Possible
  <2>. QED  BY <2>1, RelayReturns
<1>6. CASE AfterRequestPause(f)
  <2>1. directive'[f] = directive[f] /\ ~contacted[f] /\ reply[f] = "none" /\ pc[f] # "done"
    BY <1>1, <1>6 DEF AfterRequestPause, Possible
  <2>2. CASE /\ Return(f, stage[f], Sent(f, "dropped"))
             /\ Announce(f, Summary(stage[f], FALSE))
    BY <2>1, <2>2, KillReturns
  <2>3. CASE Proceed(f, directive[f], stage[f], Summary(stage[f], FALSE))
    BY <1>1, <2>1, <2>3, ProceedTable
  <2>. QED  BY <1>6, <2>2, <2>3 DEF AfterRequestPause
<1>7. CASE DelayElapsed(f)
  <2>1. /\ directive'[f] = directive[f] /\ ~contacted[f] /\ reply[f] = "none"
        /\ pc[f] # "done" /\ Dispatch(f, directive[f], stage[f], seen[f])
    BY <1>1, <1>7 DEF DelayElapsed, Possible
  <2>. QED  BY <1>1, <2>1, ProceedTable
<1>8. CASE UpstreamHead(f) \/ UpstreamFails(f)
  <2>1. pc[f] \in {"upstream", "resBody"} /\ reply[f] = "none" /\ client' = client
    BY <1>1, <1>8 DEF UpstreamHead, UpstreamFails, Possible
  <2>2. CASE Fail(f)
    BY <2>1, <2>2, RelayReturns
  <2>3. CASE /\ f \in H2 /\ client[f] = "gone" /\ UpstreamHead(f)
             /\ Return(f, "responded", reply[f])
             /\ UNCHANGED <<seen, contacted, held, decision>>
    \* The silent return: the request was sent and the stream is closed.
    <3>1. pc'[f] = "done" /\ reply'[f] = reply[f] /\ contacted'[f]
      BY <1>1, <2>1, <2>3 DEF Return, Suspend, HandlerTypeOK, Possible
    <3>2. Told(f)'
      BY <2>1, <2>3, <3>1 DEF Told
    <3>. QED  BY <2>1, <3>1, <3>2 DEF Returns, Relayed
  <2>4. CASE /\ Suspend(f, "streaming", "responded") /\ pc[f] = "upstream"
             /\ reply' = [reply EXCEPT ![f] = Sent(f, "head")]
             /\ caught' = [caught EXCEPT ![f] = FALSE]
    BY <2>4 DEF Suspend, Sent, Streams, HandlerTypeOK, OtherTypeOK
  <2>5. CASE Suspend(f, "resBody", "responded") /\ UNCHANGED reply
    BY <2>5 DEF Suspend, Waits, HandlerTypeOK
  <2>6. ASSUME UpstreamHead(f)
        PROVE  \/ Suspend(f, "resBody", "responded") /\ UNCHANGED reply
               \/ /\ StartStream(f) /\ pc[f] = "upstream"
                  /\ caught' = [caught EXCEPT ![f] = FALSE]
    <3>1. PICK match \in BOOLEAN :
            /\ caught' = [caught EXCEPT ![f] = match]
            /\ \/ CanStream(f, match) /\ StartStream(f)
               \/ Suspend(f, "resBody", "responded") /\ UNCHANGED reply
      BY <2>6, Zenon DEF UpstreamHead, Verdicts
    <3>2. CanStream(f, match) => match = FALSE
      BY DEF CanStream
    <3>. QED  BY <2>6, <3>1, <3>2 DEF UpstreamHead
  <2>7. CASE UpstreamHead(f) /\ StartStream(f) /\ caught' = [caught EXCEPT ![f] = FALSE]
    BY <2>2, <2>3, <2>4, <2>7, Zenon DEF StartStream, UpstreamHead
  <2>. QED
    BY <1>8, <2>2, <2>5, <2>6, <2>7, Zenon DEF UpstreamFails
<1>9. CASE ResponseBody(f)
  <2>1. pc[f] # "done" /\ reply[f] = "none"
    BY <1>1, <1>9 DEF ResponseBody, Possible
  <2>2. CASE Pause(f, "resPaused", "responded")
    BY <2>2 DEF Pause, Suspend, Waits, HandlerTypeOK
  <2>3. CASE Relay(f) /\ caught' = [caught EXCEPT ![f] = FALSE]
    <3>1. ~caught'[f]
      BY <2>3 DEF OtherTypeOK
    <3>. QED  BY <2>1, <2>3, <3>1, RelayReturns
  <2>4. PICK match \in BOOLEAN :
          /\ caught' = [caught EXCEPT ![f] = match]
          /\ IF match THEN Pause(f, "resPaused", "responded") ELSE Relay(f)
    BY <1>9, Zenon DEF ResponseBody, Verdicts
  <2>5. CASE match = FALSE
    BY <2>3, <2>4, <2>5
  <2>6. CASE match = TRUE
    BY <2>2, <2>4, <2>6
  <2>. QED  BY <2>5, <2>6
<1>10. CASE AfterResponsePause(f)
  <2>1. pc[f] # "done" /\ reply[f] = "none" /\ held[f]
    BY <1>1, <1>10 DEF AfterResponsePause, Possible
  <2>2. CASE /\ Return(f, stage[f], Sent(f, "dropped"))
             /\ Announce(f, Summary(stage[f], FALSE))
    BY <2>1, <2>2, KillReturns
  <2>3. CASE Relay(f)
    BY <2>1, <2>3, RelayReturns
  <2>. QED  BY <1>10, <2>2, <2>3 DEF AfterResponsePause
<1>11. CASE StreamBlocks(f) \/ StreamDrains(f)
  BY <1>11 DEF StreamBlocks, StreamDrains, Streams, HandlerTypeOK
<1>12. CASE StreamEnds(f) \/ StreamFails(f)
  <2>1. PICK r \in {"whole", "dropped", "cut"} :
          /\ Return(f, "responded", Sent(f, r)) /\ pc[f] \in {"streaming", "stalled"}
          /\ Announce(f, Summary("responded", FALSE)) /\ caught' = caught
    BY <1>12 DEF StreamEnds, StreamFails
  <2>2. /\ pc'[f] = "done" /\ seen'[f] = Summary(stage'[f], FALSE)
        /\ reply'[f] \in {reply[f], "whole", "dropped", "cut"}
    BY <2>1 DEF Return, Suspend, Announce, Sent, HandlerTypeOK
  <2>3. Told(f)'
    BY <2>2 DEF Told, Summary
  <2>. QED  BY <2>1, <2>2, <2>3 DEF Returns
<1>13. CASE ClientLeaves(f)
  BY <1>13 DEF ClientLeaves, Waits, Streams
<1>14. CASE Resume(f) \/ Kill(f) \/ Touch(f)
  <2>1. UNCHANGED <<pc, reply, contacted, held, caught, stage, directive, client>>
    BY <1>14 DEF Resume, Kill, Settle, Touch
  <2>2. pc[f] = "done" => seen'[f] = Summary(stage[f], FALSE)
    <3>1. pc[f] = "done" => Intercepted(f) = FALSE
      BY <1>1 DEF Possible, Intercepted
    <3>. QED  BY <1>14, <3>1 DEF Resume, Kill, Settle, Touch, Announce, HandlerTypeOK
  <2>3. pc[f] = "done" => Told(f)'
    BY <2>1, <2>2 DEF Told, Summary
  <2>. QED  BY <2>1, <2>3 DEF Waits, Streams, Afterwards
<1>. QED
  BY <1>2, <1>3, <1>4, <1>5, <1>6, <1>7, <1>8, <1>9, <1>10, <1>11, <1>12, <1>13,
     <1>14, Zenon DEF HandlerStep

-----------------------------------------------------------------------------

\* Nothing the filter caught is streaming, or has been relayed without having
\* been held; and what has returned has been told.
EndOK(f) ==
    /\ pc[f] \in {"streaming", "stalled"} => ~caught[f]
    /\ pc[f] = "done" /\ contacted[f] /\ reply[f] \in Relayed /\ caught[f] => held[f]
    /\ pc[f] = "done" /\ byId[f] = "live" => Told(f)

EndIInv == \A f \in Flows : EndOK(f)

\* Only accepting makes a flow live, and it makes only its own.
LEMMA LiveIsOld ==
    ASSUME StoreIInv, [Next]_vars, NEW g \in Flows, byId'[g] = "live"
    PROVE  byId[g] = "live" \/ Accept(g)
<1>1. byId \in [Flows -> Object]
  BY DEF StoreIInv, StoreInv, StoreTypeOK, Flows
<1>2. ASSUME NEW s, NEW m, NEW b, b[g] # "live", Trim(s, b, m)  PROVE FALSE
  BY <1>2 DEF Trim, Flows
<1>3. CASE OperatorStep
  <2>1. CASE ClearFlows \/ LoadSession
    BY <2>1 DEF ClearFlows, LoadSession, StoreClear, StoreLoad, Flows
  <2>2. ASSUME NEW f \in Flows, RemoveFlow(f)  PROVE byId[g] = "live"
    BY <1>1, <2>2 DEF RemoveFlow, StoreRemove, Flows
  <2>3. ASSUME NEW m \in Limits, ResizeStore(m)  PROVE byId[g] = "live"
    BY <1>2, <2>3 DEF ResizeStore, StoreSetMax
  <2>4. CASE SetFilters \/ SaveSession
    BY <2>4 DEF SetFilters, SaveSession, storeVars
  <2>. QED  BY <1>3, <2>1, <2>2, <2>3, <2>4 DEF OperatorStep
<1>4. ASSUME NEW f \in Flows, HandlerStep(f)  PROVE byId[g] = "live" \/ Accept(g)
  <2>1. CASE UNCHANGED storeVars
    BY <2>1 DEF storeVars
  <2>2. CASE Accept(f)
    <3>1. CASE f = g
      BY <2>2, <3>1
    <3>2. CASE f # g
      <4>1. [byId EXCEPT ![f] = "live"][g] = byId[g]
        BY <1>1, <3>2
      <4>. QED  BY <4>1, <1>2, <2>2 DEF Accept, StoreAdd
    <3>. QED  BY <3>1, <3>2
  <2>. QED  BY <1>4, <2>1, <2>2, HandlerStepRest DEF StoreIInv
<1>5. CASE UNCHANGED vars
  BY <1>5 DEF vars
<1>. QED  BY <1>3, <1>4, <1>5, NextSteps

\* A step of one exchange leaves alone all that the ends of the others depend
\* on.
LEMMA StepKeepsOthers ==
    ASSUME HandlerTypeOK, OtherTypeOK, NEW f \in Flows, HandlerStep(f)
    PROVE  \A g \in Flows \ {f} : /\ pc'[g] = pc[g] /\ reply'[g] = reply[g]
                                  /\ contacted'[g] = contacted[g] /\ held'[g] = held[g]
                                  /\ caught'[g] = caught[g]
                                  /\ Told(g) => Told(g)'
<1>2. \A g \in Flows \ {f} : client'[g] = client[g]
  <2>1. CASE ClientLeaves(f)
    BY <2>1 DEF ClientLeaves, OtherTypeOK
  <2>2. CASE ~ClientLeaves(f)
    <3>1. client' = client
      BY <2>2, Zenon
         DEF HandlerStep, Accept, RefuseTarget, RequestBody, RequestBodyFails,
             AfterRequestPause, DelayElapsed, UpstreamHead, UpstreamFails, ResponseBody,
             AfterResponsePause, StreamBlocks, StreamDrains, StreamEnds, StreamFails,
             Resume, Kill, Settle, Touch
    <3>. QED  BY <3>1
  <2>. QED  BY <2>1, <2>2
<1>3. Moves(f)
  BY HandlerStepMoves
<1>4. \A g \in Flows \ {f} : seen'[g] = seen[g] /\ stage'[g] = stage[g]
  BY <1>3 DEF Moves, HandlerTypeOK
<1> SUFFICES ASSUME NEW g \in Flows \ {f}
             PROVE  /\ pc'[g] = pc[g] /\ reply'[g] = reply[g]
                    /\ contacted'[g] = contacted[g] /\ held'[g] = held[g]
                    /\ caught'[g] = caught[g]
                    /\ Told(g) => Told(g)'
  OBVIOUS
<1>5. /\ pc'[g] = pc[g] /\ reply'[g] = reply[g] /\ directive'[g] = directive[g]
      /\ contacted'[g] = contacted[g] /\ held'[g] = held[g] /\ caught'[g] = caught[g]
  BY OtherExchanges
<1>6. seen'[g] = seen[g] /\ stage'[g] = stage[g] /\ client'[g] = client[g]
  BY <1>2, <1>4
<1>. QED  BY <1>5, <1>6 DEF Told, Summary

\* Every step keeps every end in order.
LEMMA EndStep ==
    ASSUME StoreIInv, BreakpointIInv, EndIInv, [Next]_vars
    PROVE  EndIInv'
<1> SUFFICES ASSUME NEW g \in Flows  PROVE EndOK(g)'
  BY DEF EndIInv
<1>1. HandlerTypeOK /\ OtherTypeOK /\ EndOK(g) /\ ExchangeOK(g) /\ IdleUnseen
  BY DEF StoreIInv, EndIInv, BreakpointIInv
<1>2. byId'[g] = "live" => byId[g] = "live" \/ Accept(g)
  BY LiveIsOld
<1>3. CASE OperatorStep
  <2>2. UNCHANGED flowVars
    BY <1>3 DEF OperatorStep, RemoveFlow, ResizeStore, SetFilters, ClearFlows,
                SaveSession, LoadSession, Operate
  <2>3. /\ UNCHANGED <<pc, reply, contacted, held, caught>>
        /\ Told(g) => Told(g)'
    BY <2>2 DEF flowVars, Told, Summary
  <2>4. ~(pc[g] = "done" /\ Accept(g))
    BY DEF Accept
  <2>. QED  BY <1>1, <1>2, <2>3, <2>4 DEF EndOK
<1>4. CASE UNCHANGED vars
  <2>1. Told(g) => Told(g)'
    BY <1>4 DEF vars, Told, Summary
  <2>. QED  BY <1>1, <1>4, <2>1 DEF vars, EndOK
<1>5. ASSUME NEW f \in Flows, HandlerStep(f), f # g  PROVE EndOK(g)'
  <2>1. ~(pc[g] = "done" /\ Accept(g))
    BY DEF Accept
  <2>. QED  BY <1>1, <1>2, <1>5, <2>1, StepKeepsOthers DEF EndOK
<1>6. CASE HandlerStep(g)
  <2>2. ~(pc'[g] = "done" /\ Accept(g))
    BY <1>1 DEF Accept, HandlerTypeOK
  <2>3. CASE Returns(g)
    <3>1. byId'[g] = "live" /\ pc[g] = "idle" => FALSE
      BY <1>1, <1>2, <2>2, <2>3 DEF Returns, IdleUnseen
    <3>. QED  BY <1>1, <2>3, <3>1 DEF Returns, EndOK
  <2>4. CASE Waits(g)
    BY <2>4 DEF Waits, EndOK
  <2>5. CASE Streams(g)
    BY <1>1, <2>5 DEF Streams, EndOK
  <2>6. CASE Afterwards(g)
    BY <1>1, <1>2, <2>2, <2>6 DEF Afterwards, EndOK
  <2>. QED  BY <1>1, <1>6, <2>3, <2>4, <2>5, <2>6, StepTable
<1>. QED  BY <1>3, <1>4, <1>5, <1>6, NextSteps

\* The invariant of the ends holds in every reachable state.
THEOREM EndInvariant == Spec => []EndIInv
<1>1. Init => EndIInv
  BY DEF Init, EndIInv, EndOK
<1>2. StoreIInv /\ BreakpointIInv /\ EndIInv /\ [Next]_vars => EndIInv'
  BY EndStep
<1>. QED  BY <1>1, <1>2, StoreInvariant, BreakpointInvariant, PTL DEF Spec

\* A response the filter last matched is not relayed unpaused, streamed or
\* not, whatever the options become (request-handler.ts:180 and 199).
THEOREM FilterVerdictAlwaysHolds == Spec => []FilterVerdictHolds
<1>1. StoreIInv /\ BreakpointIInv /\ EndIInv => FilterVerdictHolds
  <2> SUFFICES ASSUME HandlerTypeOK, NEW f \in Flows, ExchangeOK(f), EndOK(f),
                      contacted[f], reply[f] \in {"head", "whole", "cut"}, caught[f]
               PROVE  held[f]
    BY FlowsAssumption DEF StoreIInv, BreakpointIInv, EndIInv, FilterVerdictHolds
  <2>1. pc[f] \in {"streaming", "stalled", "done"}
    BY DEF HandlerTypeOK, ExchangeOK, Possible, Suspended
  <2>. QED  BY <2>1 DEF EndOK, Relayed
<1>. QED  BY <1>1, StoreInvariant, BreakpointInvariant, EndInvariant, PTL

\* Once a handler has returned the inspector knows what the flow shows
\* (request-handler.ts, h2-handler.ts, replay: the last "update").
THEOREM OutcomesAreAnnounced == Spec => []OutcomeAnnounced
<1>1. EndIInv => OutcomeAnnounced
  BY DEF EndIInv, EndOK, Told, OutcomeAnnounced
<1>. QED  BY <1>1, EndInvariant, PTL

\* Bytes sent are never taken back, and nothing follows a finished response.
THEOREM RepliesOnlyAdvance == Spec => ReplyOnlyAdvances
<1>1. StoreIInv /\ BreakpointIInv /\ [Next]_vars =>
        [\A f \in Flows :
            reply'[f] # reply[f] =>
                \/ reply[f] = "none"
                \/ reply[f] = "head" /\ reply'[f] \in {"whole", "cut", "dropped"}]_vars
  <2> SUFFICES ASSUME HandlerTypeOK, OtherTypeOK, BreakpointIInv, [Next]_vars,
                      NEW f \in Flows, reply'[f] # reply[f]
               PROVE  \/ reply[f] = "none"
                      \/ reply[f] = "head" /\ reply'[f] \in {"whole", "cut", "dropped"}
    BY DEF StoreIInv
  <2>1. ~OperatorStep /\ ~UNCHANGED vars
    BY DEF OperatorStep, RemoveFlow, ResizeStore, SetFilters, ClearFlows,
           SaveSession, LoadSession, Operate, flowVars, vars
  <2>2. HandlerStep(f)
    BY <2>1, NextSteps, StepKeepsOthers
  <2>3. ExchangeOK(f) /\ pc[f] \in Suspended
    BY DEF BreakpointIInv, HandlerTypeOK
  <2>4. pc[f] # "done" => reply[f] \in {"none", "head"}
    BY <2>3 DEF ExchangeOK, Possible, Suspended
  <2>5. CASE Returns(f)
    BY <2>4, <2>5 DEF Returns
  <2>6. CASE Streams(f)
    BY <2>3, <2>6 DEF Streams, ExchangeOK, Possible
  <2>. QED  BY <2>2, <2>3, <2>5, <2>6, StepTable DEF Waits, Afterwards
<1>. QED  BY <1>1, StoreInvariant, BreakpointInvariant, PTL DEF Spec, ReplyOnlyAdvances

==============================================================================
