----------------------------- MODULE PruneRules -----------------------------
(***************************************************************************)
(* How a finished candidate row is cut to MaxDegree neighbours: the final  *)
(* RobustPrune (final_prune.rs), the spine overlay (spine_overlay_prune.rs)*)
(* and the view-lune rule (view_lune_prune.rs).  Squared distances are     *)
(* naturals given by Dist; alpha = 1.2 is the fraction 12/10.              *)
(***************************************************************************)
EXTENDS Integers, Sequences, FiniteSets, SequencesExt

CONSTANTS
  Dist,      \* Dist[p][q]: the distance of two points
  MaxDegree  \* max_degree

\* Nearest first, ties by id: the order of Neighbor and of ViewLuneCandidate.
NearestFirst(p, ids) ==
  SetToSortSeq(ids, LAMBDA a, b : Dist[p][a] < Dist[p][b] \/ (Dist[p][a] = Dist[p][b] /\ a < b))

-----------------------------------------------------------------------------
(* robust_prune_candidates.                                                *)

Infinite == [n |-> 1, d |-> 0]  \* f32::MAX
Over(r, s) == r.n * s.d > s.n * r.d  \* r > s, as fractions
Alphas == <<[n |-> 1, d |-> 1], [n |-> 12, d |-> 10]>>
Alpha == Alphas[2]

\* The occlusion of the candidates after i, once i has been taken.
Occlude(pool, occ, i, p) ==
  [j \in DOMAIN pool |->
    IF j = i THEN Infinite
    ELSE IF j < i \/ Over(occ[j], Alpha) THEN occ[j]
    ELSE LET r == [n |-> Dist[p][pool[j]], d |-> Dist[pool[j]][pool[i]]]
         IN IF r.d = 0 THEN Infinite ELSE IF Over(r, occ[j]) THEN r ELSE occ[j]]

\* One pass over the pool at one alpha.
PrunePass(pool, st, alpha, p) ==
  FoldLeft(LAMBDA s, i :
    IF Len(s.kept) >= MaxDegree \/ Over(s.occ[i], alpha) THEN s
    ELSE [occ |-> Occlude(pool, s.occ, i, p),
          kept |-> IF pool[i] = p THEN s.kept ELSE Append(s.kept, pool[i])],
    st, [i \in DOMAIN pool |-> i])

\* The passes, then saturation with the nearest candidates left over.
RobustPrune(p, ids, limit) ==
  LET pool == SubSeq(NearestFirst(p, ids), 1, Min({limit, Cardinality(ids)}))
      st0 == [occ |-> [j \in DOMAIN pool |-> [n |-> 0, d |-> 1]], kept |-> <<>>]
      kept == FoldLeft(LAMBDA s, a : PrunePass(pool, s, a, p), st0, Alphas).kept
      fill == SelectSeq(pool, LAMBDA q : q # p /\ q \notin ToSet(kept))
  IN kept \o SubSeq(fill, 1, Min({Len(fill), MaxDegree - Len(kept)}))

-----------------------------------------------------------------------------
(* Spine overlay.  A candidate record is [dst, dist, fams, recips, mass,   *)
(* best]: the families that voted for it, the families of its reciprocal   *)
(* edges, its rank mass and its best rank.                                 *)

RankWeight(r) == CASE r = 1 -> 6 [] r = 2 -> 3 [] r = 3 -> 2 [] OTHER -> 1

OverlayEmpty(dst) ==
  [dst |-> dst, dist |-> 1000000, fams |-> {}, recips |-> {}, mass |-> 0, best |-> 255]

\* RuntimeOverlayCandidate::apply.  A family is its family_bit, and each bit counts once.
OverlayApply(c, u) ==
  LET near == [c EXCEPT !.dist = Min({@, u.dist})]
  IN IF u.direct
     THEN IF u.family \in c.fams THEN near
          ELSE [near EXCEPT !.fams = @ \cup {u.family}, !.mass = @ + RankWeight(u.rank),
                            !.best = Min({@, u.rank})]
     ELSE [near EXCEPT !.recips = @ \cup {u.family}]

\* Lexicographic comparison of two tuples of numbers.
LexLess(a, b) ==
  \E i \in DOMAIN a : a[i] < b[i] /\ \A j \in 1..(i - 1) : a[j] = b[j]

\* runtime_retention_cmp and stability_cmp.
RetentionKey(c) == <<-Cardinality(c.fams), -c.mass, c.best, -Cardinality(c.recips), c.dist, c.dst>>
StabilityKey(c) == <<-Cardinality(c.fams), -Cardinality(c.recips), -c.mass, c.best, c.dist, c.dst>>

\* RuntimeSpineOverlayRow::insert into at most cap slots.
OverlayInsert(row, u, cap) ==
  LET known == {c \in row : c.dst = u.dst}
      new == OverlayApply(OverlayEmpty(u.dst), u)
      worst == CHOOSE c \in row : \A o \in row : o = c \/ LexLess(RetentionKey(o), RetentionKey(c))
  IN IF cap = 0 THEN row
     ELSE IF known # {} THEN {IF c.dst = u.dst THEN OverlayApply(c, u) ELSE c : c \in row}
     ELSE IF Cardinality(row) < cap THEN row \cup {new}
     ELSE IF LexLess(RetentionKey(new), RetentionKey(worst)) THEN (row \ {worst}) \cup {new} ELSE row

\* runtime_overlay_capacity: the budget does not enter (16 = RUNTIME_OVERLAY_MAX_SLOTS).
OverlayCapacity == Min({16, Max({MaxDegree, 1})})

\* A direct edge updates its own row and, as a reciprocal one, the row of its target;
\* a mirror edge updates nothing.
EdgeUpdates(p, edges, family) ==
  LET direct == SelectSeq(edges, LAMBDA e : e.direct /\ p \in {e.p, e.c})
      update(e) == [dst |-> IF e.p = p THEN e.c ELSE e.p, dist |-> Dist[e.p][e.c],
                    family |-> family, rank |-> 1, direct |-> e.p = p]
  IN [i \in DOMAIN direct |-> update(direct[i])]

\* write_edges for the row of p (the sort orders updates by row and target).
OverlayWrite(row, p, edges, family) ==
  FoldLeft(LAMBDA r, u : OverlayInsert(r, u, OverlayCapacity), row,
           SortSeq(EdgeUpdates(p, edges, family), LAMBDA a, b : a.dst < b.dst))

\* select_runtime_spine_overlay_candidates.
OverlayRanked(row) ==
  LET ranked == SetToSortSeq(row, LAMBDA a, b : LexLess(StabilityKey(a), StabilityKey(b)))
  IN [i \in 1..Min({Len(ranked), MaxDegree}) |-> ranked[i].dst]

\* push_unique_id for each of ids while the row has room and budget.
PushUnique(sel, ids, limit) ==
  FoldLeft(LAMBDA s, q : IF Len(s) >= limit \/ q \in ToSet(s) THEN s ELSE Append(s, q), sel, ids)

\* select_spine_overlay_row_with_stats: the base prefix, the overlay, the rest of the base.
SpineRow(base, overlay, budget) ==
  LET keep == MaxDegree - budget
      core == PushUnique(<<>>, SubSeq(base, 1, Min({keep, Len(base)})), MaxDegree)
      laid == PushUnique(core, overlay, Min({MaxDegree, Len(core) + budget}))
  IN PushUnique(laid, SubSeq(base, keep + 1, Len(base)), MaxDegree)

-----------------------------------------------------------------------------
(* View lune: the row holds candidates with their distances and, for a     *)
(* victim, the pivots that witnessed that it may be pruned.                *)

\* reduce_row: the nearest core, then every candidate without a selected witness, then
\* the nearest of the pruned until the row is full.
LuneRow(p, ids, witnesses, core) ==
  LET sorted == NearestFirst(p, ids)
      pass == FoldLeft(LAMBDA s, i :
                IF Len(s) >= MaxDegree \/ (Len(s) >= core /\ witnesses[sorted[i]] \cap ToSet(s) # {})
                THEN s ELSE Append(s, sorted[i]),
              <<>>, [i \in DOMAIN sorted |-> i])
  IN IF Len(sorted) <= MaxDegree THEN sorted ELSE PushUnique(pass, sorted, MaxDegree)
=============================================================================
