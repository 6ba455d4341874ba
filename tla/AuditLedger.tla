---------------------------- MODULE AuditLedger ----------------------------
(***************************************************************************)
(* What the audit pipeline promises, without its network, retries, buffer  *)
(* file and locks: an event whose write returned is held back or recorded, *)
(* it is recorded at most once and never taken from the record, and the    *)
(* only other way it leaves is a counted eviction.                         *)
(***************************************************************************)
EXTENDS Naturals, Sequences

CONSTANT Events

VARIABLES recorded,   \* the collector's record, in order
          kept,       \* events held back for a later delivery
          dropped,    \* events evicted
          promised    \* events whose write returned

vars == <<recorded, kept, dropped, promised>>

Listed == {recorded[i] : i \in DOMAIN recorded}

Init == /\ recorded = <<>>
        /\ kept = {} /\ dropped = {} /\ promised = {}

\* The record grows at its end, by events it does not hold, each once.
Record ==
    /\ Len(recorded') > Len(recorded)
    /\ \A i \in DOMAIN recorded : recorded'[i] = recorded[i]
    /\ \A i \in DOMAIN recorded' \ DOMAIN recorded :
          /\ recorded'[i] \in Events \ Listed
          /\ \A j \in DOMAIN recorded' : recorded'[j] = recorded'[i] => j = i
    /\ UNCHANGED <<kept, dropped, promised>>

\* An event is held back, and the oldest ones may have to go.
Keep(e) ==
    /\ \E out \in SUBSET kept :
          /\ kept' = (kept \ out) \union {e}
          /\ dropped' = dropped \union out
    /\ UNCHANGED <<recorded, promised>>

\* Recorded events need not be held back any longer.
Release ==
    /\ \E out \in SUBSET (kept \intersect Listed) : kept' = kept \ out
    /\ UNCHANGED <<recorded, dropped, promised>>

\* The write of a recorded or kept event returns.
Promise(e) ==
    /\ e \in Listed \union kept \union dropped
    /\ promised' = promised \union {e}
    /\ UNCHANGED <<recorded, kept, dropped>>

Next == \/ Record
        \/ Release
        \/ \E e \in Events : Keep(e) \/ Promise(e)

Spec == Init /\ [][Next]_vars
=============================================================================
