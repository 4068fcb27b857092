------------------------------ MODULE FlowStore ------------------------------
(***************************************************************************)
(* The in-memory capture of cnproxy (src/flow/store.ts): an array bounded  *)
(* by `max`, oldest flow first, and a map from flow id to the Flow object  *)
(* the REST API finds under it.  The two are kept by separate statements,  *)
(* so they are separate variables here.                                    *)
(*                                                                         *)
(* A flow still running in the pipeline and a copy of it read back from a  *)
(* session file share an id but are different objects: the map says which  *)
(* of them a lookup finds.                                                 *)
(***************************************************************************)
EXTENDS Naturals, SequencesExt

CONSTANTS
    Ids,     \* the ids of flows
    Limits   \* the values the maxFlows option takes

ASSUME LimitsAssumption == Limits \subseteq Nat

VARIABLES
    flows,   \* the array: ids in the order they were added
    byId,    \* what a lookup finds: nothing, the running flow, or a stored copy
    max      \* the bound

storeVars == <<flows, byId, max>>

Object == {"absent", "live", "copy"}

StoreTypeOK ==
    /\ flows \in Seq(Ids)
    /\ byId \in [Ids -> Object]
    /\ max \in Limits

StoreInit ==
    /\ flows = <<>>
    /\ byId = [i \in Ids |-> "absent"]
    /\ max \in Limits

-----------------------------------------------------------------------------
(* What trim() drops from the front of an array, and what it leaves.       *)

\* Broken: stops one short, as `length > max + 1` would.
ExcessLate(s, m) == IF Len(s) > m + 1 THEN Len(s) - (m + 1) ELSE 0

Excess(s, m) == IF Len(s) > m THEN Len(s) - m ELSE 0

Kept(s, m) == SubSeq(s, Excess(s, m) + 1, Len(s))

Evicted(s, m) == {s[k] : k \in 1 .. Excess(s, m)}

\* Broken: shifts the array and forgets the map.
TrimArrayOnly(s, b, m) ==
    /\ flows' = Kept(s, m)
    /\ byId' = b

Trim(s, b, m) ==
    /\ flows' = Kept(s, m)
    /\ byId' = [i \in Ids |-> IF i \in Evicted(s, m) THEN "absent" ELSE b[i]]

-----------------------------------------------------------------------------

StoreAdd(i) ==
    /\ Trim(Append(flows, i), [byId EXCEPT ![i] = "live"], max)
    /\ UNCHANGED max

StoreSetMax(m) ==
    /\ max' = m
    /\ Trim(flows, byId, m)

StoreRemove(i) ==
    /\ \E k \in DOMAIN flows :
        /\ flows[k] = i
        /\ flows' = RemoveAt(flows, k)
    /\ byId' = [byId EXCEPT ![i] = "absent"]
    /\ UNCHANGED max

StoreClear ==
    /\ flows' = <<>>
    /\ byId' = [i \in Ids |-> "absent"]
    /\ UNCHANGED max

\* loadSession(): clear, then add the stored copies one by one.
StoreLoad(s) ==
    /\ flows' = Kept(s, max)
    /\ byId' = [i \in Ids |-> IF i \in ToSet(Kept(s, max)) THEN "copy" ELSE "absent"]
    /\ UNCHANGED max

-----------------------------------------------------------------------------

\* The array never holds more than maxFlows flows, whatever order requests,
\* option changes and deletions come in (store.ts, trim).
RingBounded == Len(flows) <= max

\* No flow is listed twice, and the list the inspector shows and the map the
\* REST API looks flows up in hold the same ids (store.ts, flows and byId).
ListMatchesMap ==
    /\ \A j, k \in DOMAIN flows : flows[j] = flows[k] => j = k
    /\ \A i \in Ids : (byId[i] # "absent") <=> (\E k \in DOMAIN flows : flows[k] = i)

=============================================================================
