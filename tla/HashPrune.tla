----------------------------- MODULE HashPrune -----------------------------
(***************************************************************************)
(* HashPruneReservoir (forgeann/hash_prune.rs): the candidate neighbours   *)
(* of one point.  Leaves offer candidates in any order, from any thread,   *)
(* each insert under the reservoir's mutex; the reservoir keeps at most    *)
(* LMax of them, sorted by hash, and caches its farthest slot.             *)
(***************************************************************************)
EXTENDS Integers, Sequences, FiniteSets, SequencesExt

CONSTANTS
  Candidates,  \* records [target, dist] that leaves may offer
  Hash,        \* Hash[t]: compute_hash of target t, fixed by the sketches
  LMax,        \* l_max
  Grain        \* the rounding step of BFloat16 at these distances

ASSUME HashPruneAssumption ==
  /\ \A c \in Candidates : c.dist \in Nat /\ Hash[c.target] \in Nat
  /\ LMax \in Nat \ {0}
  /\ Grain \in Nat \ {0}

VARIABLES
  reservoir,  \* [slots, idx, dist]: slots, farthest_idx and farthest_dist
  offered     \* the candidates offered since the reservoir was last emptied

vars == <<reservoir, offered>>

Targets == {c.target : c \in Candidates}

\* BFloat16::from_f32 drops the low bits of a distance.
BFloat16(d) == Grain * (d \div Grain)

Slot(c) == [target |-> c.target, hash |-> Hash[c.target], dist |-> BFloat16(c.dist)]

-----------------------------------------------------------------------------
(* The operations on the slots.  Positions are the code's, from 0.         *)

Empty == [slots |-> <<>>, idx |-> 0, dist |-> 0]

LowerBoundHash(slots, h) == Cardinality({i \in DOMAIN slots : slots[i].hash < h})
UpperBoundHash(slots, h) == Cardinality({i \in DOMAIN slots : slots[i].hash <= h})

\* The first of the farthest slots among the positions of P.
FarthestAmong(slots, P) ==
  CHOOSE i \in P :
    \A j \in P : slots[j + 1].dist < slots[i + 1].dist
                 \/ (slots[j + 1].dist = slots[i + 1].dist /\ i <= j)

Positions(slots) == 0..(Len(slots) - 1)

\* recompute_farthest_if_nonempty.
RecomputeFarthest(slots) ==
  IF slots = <<>>
  THEN Empty
  ELSE LET i == FarthestAmong(slots, Positions(slots))
       IN [slots |-> slots, idx |-> i, dist |-> slots[i + 1].dist]

\* Mutant: a slot inserted before the farthest one does not move its index.
InsertSlotSortedNoShift(r, s) ==
  LET pos == UpperBoundHash(r.slots, s.hash)
      grown == InsertAt(r.slots, pos + 1, s)
  IN IF Len(grown) = 1 \/ s.dist >= r.dist
     THEN RecomputeFarthest(grown)
     ELSE [r EXCEPT !.slots = grown]

InsertSlotSorted(r, s) ==
  LET pos == UpperBoundHash(r.slots, s.hash)
      grown == InsertAt(r.slots, pos + 1, s)
  IN IF Len(grown) = 1
     THEN [slots |-> grown, idx |-> 0, dist |-> s.dist]
     ELSE IF s.dist >= r.dist
          THEN RecomputeFarthest(grown)
          ELSE [slots |-> grown,
                idx |-> IF pos <= r.idx THEN r.idx + 1 ELSE r.idx,
                dist |-> r.dist]

ReplaceSlotSorted(r, pos, s) ==
  LET rest == RemoveAt(r.slots, pos + 1)
  IN RecomputeFarthest(InsertAt(rest, UpperBoundHash(rest, s.hash) + 1, s))

-----------------------------------------------------------------------------
(* insert, by its four cases.                                              *)

\* The target is kept already: only a nearer distance replaces it.
UpdateTarget(r, pos, c) ==
  IF c.dist < r.slots[pos + 1].dist THEN ReplaceSlotSorted(r, pos, Slot(c)) ELSE r

\* Mutant: a collision is measured against the farthest slot of all.
ReplaceSameHashGlobal(r, c) ==
  LET h == Hash[c.target]
      bucket == LowerBoundHash(r.slots, h)..(UpperBoundHash(r.slots, h) - 1)
      far == FarthestAmong(r.slots, bucket)
  IN IF c.dist < r.dist THEN ReplaceSlotSorted(r, far, Slot(c)) ELSE r

\* Full, and the hash is present: replace the farthest of that hash, if farther.
ReplaceSameHash(r, c) ==
  LET h == Hash[c.target]
      bucket == LowerBoundHash(r.slots, h)..(UpperBoundHash(r.slots, h) - 1)
      far == FarthestAmong(r.slots, bucket)
  IN IF c.dist < r.slots[far + 1].dist THEN ReplaceSlotSorted(r, far, Slot(c)) ELSE r

\* Full, and the hash is new: replace the farthest slot, if farther.
ReplaceFarthest(r, c) ==
  IF c.dist < r.dist THEN ReplaceSlotSorted(r, r.idx, Slot(c)) ELSE r

Room(r) == Len(r.slots) < LMax

Inserted(r, c) ==
  LET known == {i \in Positions(r.slots) : r.slots[i + 1].target = c.target}
      collides == \E i \in DOMAIN r.slots : r.slots[i].hash = Hash[c.target]
  IN CASE known # {} -> UpdateTarget(r, Min(known), c)
       [] known = {} /\ Room(r) -> InsertSlotSorted(r, Slot(c))
       [] known = {} /\ ~Room(r) /\ collides -> ReplaceSameHash(r, c)
       [] OTHER -> ReplaceFarthest(r, c)

-----------------------------------------------------------------------------
Init ==
  /\ reservoir = Empty
  /\ offered = {}

Insert(c) ==
  /\ reservoir' = Inserted(reservoir, c)
  /\ offered' = offered \cup {c}

\* clear, drain_slots and drain_neighbors: the reservoir starts over.
Drain ==
  /\ reservoir' = Empty
  /\ offered' = {}

Next == Drain \/ \E c \in Candidates : Insert(c)

Spec == Init /\ [][Next]_vars

-----------------------------------------------------------------------------
(* Properties.                                                             *)

Slots == reservoir.slots
KeptTargets(r) == {r.slots[i].target : i \in DOMAIN r.slots}

\* What the binary searches, target_position and the capacity test rely on, after any
\* sequence of inserts and replacements: at most LMax slots, sorted by hash, no target
\* twice, and the cached farthest slot is a farthest slot, although insert_slot_sorted
\* repairs the cache without a scan.
WellFormed ==
  /\ Slots \in Seq([target : Targets, hash : Nat, dist : Nat])
  /\ Len(Slots) <= LMax /\ offered \subseteq Candidates
  /\ \A i, j \in DOMAIN Slots : i < j =>
       /\ Slots[i].hash <= Slots[j].hash
       /\ Slots[i].target # Slots[j].target
  /\ Slots # <<>> =>
       /\ reservoir.idx \in Positions(Slots)
       /\ Slots[reservoir.idx + 1].dist = reservoir.dist
       /\ \A i \in DOMAIN Slots : Slots[i].dist <= reservoir.dist

\* A kept target carries the nearest distance it was ever offered with, also when it was
\* evicted and came back; and a hash bucket that is represented holds the nearest
\* candidate ever offered for it: pruning by hash never drops the best of a direction it
\* keeps.
NearestKept ==
  \A i \in DOMAIN Slots :
    /\ Slots[i].dist = Min({BFloat16(c.dist) : c \in {c \in offered : c.target = Slots[i].target}})
    /\ \A c \in offered : Hash[c.target] = Slots[i].hash =>
         \E j \in DOMAIN Slots : Slots[j].hash = Slots[i].hash /\ Slots[j].dist <= BFloat16(c.dist)

\* The kept targets depend on the offered candidates and not on the order of
\* their arrival: they are what inserting the candidates in a fixed order keeps.
OrderIndependent ==
  LET inOrder == SetToSortSeq(offered, LAMBDA c, d :
                   c.target < d.target \/ (c.target = d.target /\ c.dist < d.dist))
  IN KeptTargets(reservoir) = KeptTargets(FoldLeft(Inserted, Empty, inOrder))

=============================================================================
