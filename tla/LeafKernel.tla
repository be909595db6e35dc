----------------------------- MODULE LeafKernel -----------------------------
(***************************************************************************)
(* The pure kernels of leaf_build.rs and adsampling.rs: the k nearest rows *)
(* of every row of a leaf, exactly (the distance matrix with RowTopK) and  *)
(* by adaptive sampling (partial distances over groups of dimensions with  *)
(* TinyTopK), and the edges and witnesses made of them.  Vectors are       *)
(* sequences of integers, distances squared L2.  A sampling configuration  *)
(* ads has the number of seeds and ads.ratio[v] = <<n, d>>, the fraction   *)
(* pdx_adsampling_ratio gives after v dimensions.                          *)
(***************************************************************************)
EXTENDS Integers, Sequences, FiniteSets, FiniteSetsExt, SequencesExt

CONSTANTS
  LeaderBlock, \* ADS_LEADER_BLOCK
  GroupDims    \* adsampling_group_dims

ASSUME LeafKernelAssumption == LeaderBlock \in Nat \ {0} /\ GroupDims \in Nat \ {0}

\* The squared distance over the first v dimensions.
PartialDist(x, y, v) == FoldFunctionOnSet(+, 0, [d \in 1..v |-> (x[d] - y[d]) * (x[d] - y[d])], 1..v)
FullDist(x, y) == PartialDist(x, y, Len(x))

-----------------------------------------------------------------------------
(* RowTopK and TinyTopK: entries [id, dist], nearest first.                *)

\* RowTopK::push: behind entries as near; a full row takes only a nearer one.
PushNear(top, k, e) ==
  IF k = 0 \/ (Len(top) >= k /\ e.dist >= top[k].dist) THEN top
  ELSE LET at == 1 + Cardinality({i \in DOMAIN top : top[i].dist <= e.dist})
           with == InsertAt(top, at, e)
       IN SubSeq(with, 1, Min({k, Len(with)}))

\* TinyTopK::push: an id is taken once.
PushOnce(top, k, e) == IF \E i \in DOMAIN top : top[i].id = e.id THEN top ELSE PushNear(top, k, e)

Entry(id, dist) == [id |-> id, dist |-> dist]

-----------------------------------------------------------------------------
(* Exact rows.                                                             *)

\* The row of i: every other row in order (process_leaf..., one block of blockwise).
DenseRow(xs, i, k) ==
  FoldLeft(LAMBDA top, j : IF j = i THEN top ELSE PushNear(top, k, Entry(j, FullDist(xs[i], xs[j]))),
           <<>>, [j \in DOMAIN xs |-> j])
DenseRows(xs, k) == [i \in DOMAIN xs |-> DenseRow(xs, i, k)]

-----------------------------------------------------------------------------
(* Adaptive sampling.  Blocks of LeaderBlock rows; thresholds are those of *)
(* the start of the block.                                                 *)

\* The group ends at which a candidate is tested.
GroupEnds(dim) == {Min({g * GroupDims, dim}) : g \in 1..((dim + GroupDims - 1) \div GroupDims)}
BlocksOf(n) == (n + LeaderBlock - 1) \div LeaderBlock
BlockRows(b, n) == {j \in 1..n : (j - 1) \div LeaderBlock = b - 1}

\* TinyTopK::threshold: no bound (<<>>) until the row is full.
Threshold(top, k) == IF Len(top) < k THEN <<>> ELSE <<top[k].dist>>
Looser(s, t) == IF s = <<>> \/ t = <<>> THEN <<>> ELSE <<Max({s[1], t[1]})>>

\* prune_ads_mask after every group: strictly below the threshold times the ratio.
Survives(x, y, bound, ads) ==
  bound = <<>> \/ \A v \in GroupEnds(Len(x)) :
    PartialDist(x, y, v) * ads.ratio[v][2] < bound[1] * ads.ratio[v][1]

\* Pushes the survivors of a set of candidates in order (push_active_distances, and
\* push_unique_active_distances, which does not look for the id).
PushSurvivors(top, k, xs, x, cands, ads, Push(_, _, _)) ==
  LET bound == Threshold(top, k)
      alive == SetToSortSeq({j \in cands : Survives(x, xs[j], bound, ads)}, <)
  IN FoldLeft(LAMBDA t, j : Push(t, k, Entry(j, FullDist(x, xs[j]))), top, alive)

\* The seeds of a row: the next seed rows, around the end of the leaf.
SeedsOf(i, n, seed) == [o \in 1..Min({seed, n - 1}) |-> ((i - 1 + o) % n) + 1]

\* leaf_adsampling_active_mask: neither the row itself nor its seeds.
ActiveRows(i, b, n, seed) == BlockRows(b, n) \ ({i} \cup ToSet(SeedsOf(i, n, seed)))

\* compute_leaf_adsampling_row_tile for one row.
AdsRow(xs, i, k, ads) ==
  LET n == Len(xs)
      seeded == FoldLeft(LAMBDA t, j : PushOnce(t, k, Entry(j, FullDist(xs[i], xs[j]))), <<>>, SeedsOf(i, n, ads.seed))
  IN FoldLeft(LAMBDA t, b : PushSurvivors(t, k, xs, xs[i], ActiveRows(i, b, n, ads.seed), ads, PushNear),
              seeded, [b \in 1..BlocksOf(n) |-> b])
AdsRows(xs, k, ads) == [i \in DOMAIN xs |-> AdsRow(xs, i, k, ads)]

-----------------------------------------------------------------------------
(* The wavefront executor visits each pair of blocks once, for both sides. *)

PairPush(tops, k, xs, i, j) ==
  LET d == FullDist(xs[i], xs[j])
  IN [tops EXCEPT ![i] = PushOnce(@, k, Entry(j, d)), ![j] = PushOnce(@, k, Entry(i, d))]

\* initialize_leaf_wavefront_mutual_seed: every seeded pair once, in row order.
SeedPairs(n, seed) ==
  FoldLeft(LAMBDA seen, i :
    seen \o SelectSeq([o \in 1..Min({seed, n - 1}) |-> {i, SeedsOf(i, n, seed)[o]}],
                      LAMBDA p : p \notin ToSet(seen)),
    <<>>, [i \in 1..n |-> i])

\* run_leaf_wavefront_offdiag_pair: a pair lives while either side may want it.
OffDiagonal(tops, k, xs, l, r, seeded, ads) ==
  LET n == Len(xs)
      Alive(i, j) == {i, j} \notin seeded
                     /\ Survives(xs[i], xs[j], Looser(Threshold(tops[i], k), Threshold(tops[j], k)), ads)
      pairs == SetToSortSeq({p \in BlockRows(l, n) \X BlockRows(r, n) : Alive(p[1], p[2])},
                            LAMBDA p, q : p[1] < q[1] \/ (p[1] = q[1] /\ p[2] < q[2]))
  IN FoldLeft(LAMBDA t, p : PairPush(t, k, xs, p[1], p[2]), tops, pairs)

\* run_leaf_wavefront_diagonal_block: each row of the block against the block.
Diagonal(tops, k, xs, b, seeded, ads) ==
  LET rows == BlockRows(b, Len(xs))
  IN [i \in DOMAIN tops |->
       IF i \notin rows THEN tops[i]
       ELSE PushSurvivors(tops[i], k, xs, xs[i], {j \in rows \ {i} : {i, j} \notin seeded}, ads, PushOnce)]

\* compute_leaf_adsampling_topk_l2_wavefront_pairmask_from_context.
WavefrontRows(xs, k, ads) ==
  LET n == Len(xs)
      pairs == SeedPairs(n, ads.seed)
      start == FoldLeft(LAMBDA t, p : PairPush(t, k, xs, Min(p), Max(p)), [i \in 1..n |-> <<>>], pairs)
      Wave(tops, w) ==
        Diagonal(FoldLeft(LAMBDA t, l : OffDiagonal(t, k, xs, l, w, ToSet(pairs), ads), tops, [l \in 1..(w - 1) |-> l]),
                 k, xs, w, ToSet(pairs), ads)
  IN FoldLeft(Wave, start, [w \in 1..BlocksOf(n) |-> w])

-----------------------------------------------------------------------------
(* Assignment of points to leaders.                                        *)

\* adsampling_seed_indices: the first leaders.
LeaderSeeds(n, seed, fanout) == 1..Min({n, Max({seed, fanout, 1})})

\* assign_point_tile_adsampling_layout for one point.
AssignLeaders(x, leaders, fanout, ads) ==
  LET n == Len(leaders)
      k == Min({fanout, n})
      seeds == LeaderSeeds(n, ads.seed, fanout)
      seeded == FoldLeft(LAMBDA t, j : PushOnce(t, k, Entry(j, FullDist(x, leaders[j]))), <<>>,
                         SetToSortSeq(seeds, <))
      top == FoldLeft(LAMBDA t, b : PushSurvivors(t, k, leaders, x, BlockRows(b, n) \ seeds, ads, PushOnce),
                      seeded, [b \in 1..BlocksOf(n) |-> b])
  IN [i \in DOMAIN top |-> top[i].id]

\* exact_topk_layout.
ExactLeaders(x, leaders, fanout) ==
  LET top == FoldLeft(LAMBDA t, j : PushOnce(t, Min({fanout, Len(leaders)}), Entry(j, FullDist(x, leaders[j]))),
                      <<>>, [j \in DOMAIN leaders |-> j])
  IN [i \in DOMAIN top |-> top[i].id]

\* No ratio is below one, and the last is one: nothing is pruned that belongs to the row.
Lossless(ads) == \A v \in DOMAIN ads.ratio : ads.ratio[v][1] >= ads.ratio[v][2]

-----------------------------------------------------------------------------
(* What a leaf hands to its sink.                                          *)

\* emit_row_topk_edges for rows lo..hi: each entry is a direct and a mirror edge.
EdgesOf(leaf, rows, lo, hi) ==
  UNION {UNION {{[p |-> leaf[i], c |-> leaf[rows[i][r].id], dist |-> rows[i][r].dist, rank |-> r, kind |-> "direct"],
                 [p |-> leaf[rows[i][r].id], c |-> leaf[i], dist |-> rows[i][r].dist, rank |-> r, kind |-> "mirror"]} :
                r \in DOMAIN rows[i]} : i \in lo..hi}

\* emit_lune_witnesses: a nearer entry of the row that is much nearer to the victim than
\* the source is (1.2 = VIEW_LUNE_ALPHA_IMPL).
WitnessesOf(leaf, xs, rows, lo, hi) ==
  UNION {UNION {{[src |-> leaf[i], victim |-> leaf[rows[i][v].id], pivot |-> leaf[rows[i][q].id]] :
                 q \in {b \in 1..(v - 1) :
                         12 * FullDist(xs[rows[i][b].id], xs[rows[i][v].id]) < 10 * rows[i][v].dist}} :
                v \in DOMAIN rows[i]} : i \in lo..hi}
=============================================================================
