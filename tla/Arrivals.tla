------------------------------ MODULE Arrivals ------------------------------
(***************************************************************************)
(* The slots of one position in salvador_optimize_forward (kc_shrink.c):   *)
(* the cheapest ways to arrive there, one for each last offset, as the     *)
(* sequence of those that are in use.  The code has the insertion three    *)
(* times, for literals, for matches at a new offset and for repetitions.   *)
(***************************************************************************)
EXTENDS Naturals, SequencesExt

Before(a, b) == a.cost < b.cost \/ (a.cost = b.cost /\ a.score <= b.score)

(* The slots are in order, and no two end with the same offset. *)
Ranked(slots) ==
  \A j, k \in 1 .. Len(slots) :
    j < k => /\ Before(slots[j], slots[k])
             /\ slots[j].rep_offset # slots[k].rep_offset

(* Literals and repetitions are compared with the last slot. *)
Admitted(slots, a, limit) ==
  \/ Len(slots) < limit
  \/ a.cost < slots[limit].cost
  \/ /\ a.cost = slots[limit].cost /\ a.score < slots[limit].score
     /\ a.rep_offset # slots[limit].rep_offset

(* A new offset does not get the last slot, which is kept for those. *)
AdmittedMatch(slots, a, limit) ==
  \/ Len(slots) < limit - 1
  \/ a.cost < slots[limit - 1].cost
  \/ /\ a.cost = slots[limit - 1].cost /\ a.score < slots[limit - 1].score
     /\ \/ Len(slots) < limit
        \/ a.cost # slots[limit].cost
        \/ a.rep_offset # slots[limit].rep_offset

SlotsBefore(slots, a) ==
  LET before == {j \in 0 .. Len(slots) : \A k \in 1 .. j : Before(slots[k], a)}
  IN  CHOOSE j \in before : \A k \in before : k <= j

SameOffset(slots, a) == {k \in 1 .. Len(slots) : slots[k].rep_offset = a.rep_offset}

(* exists: the same offset at no more bits. *)
Exists(slots, a, limit) ==
  \E k \in SameOffset(slots, a) :
    \/ k <= SlotsBefore(slots, a)
    \/ k < limit /\ slots[k].cost = a.cost

(* The slot that is given up: the same offset at more bits, or the last one. *)
Freed(slots, a, limit) ==
  LET same == SameOffset(slots, a)
  IN  IF same # {} THEN CHOOSE k \in same : \A j \in same : k <= j
      ELSE limit

Inserted_Unsorted(slots, a, limit) ==    \* mutant: the offset is kept twice
  IF Len(slots) < limit THEN InsertAt(slots, SlotsBefore(slots, a) + 1, a)
  ELSE InsertAt(Front(slots), SlotsBefore(slots, a) + 1, a)

Inserted(slots, a, limit) ==
  IF Exists(slots, a, limit) THEN slots
  ELSE LET z    == Freed(slots, a, limit)
           kept == IF z <= Len(slots) THEN RemoveAt(slots, z) ELSE slots
       IN  InsertAt(kept, SlotsBefore(slots, a) + 1, a)
=============================================================================
