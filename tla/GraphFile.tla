----------------------------- MODULE GraphFile -----------------------------
(***************************************************************************)
(* The files a build leaves behind (index/inmem_index/                     *)
(* forgeann_oom_writer.rs): the graph file _mem.index, a header and then   *)
(* one degree word and its neighbours per node, and the fixed-degree       *)
(* pre-prune file.  A graph file is a sequence whose first element is the  *)
(* header and whose others are 4-byte words; a fixed-degree file is a      *)
(* sequence of records.  A writer buffers, so a crash leaves any prefix of *)
(* what was written.                                                       *)
(***************************************************************************)
EXTENDS Integers, Sequences, FiniteSets, SequencesExt

\* size is index_size - 24 in words: the payload the header announces.
Header(size, start, degree) == <<[size |-> size, start |-> start, degree |-> degree]>>

\* The callers cut a row to config.max_degree.
Capped(row, max) == SubSeq(row, 1, Min({Len(row), max}))

\* DirectMemGraphWriter: create announces an empty payload, finish rewrites the header.
DirectCreate(start) == Header(0, start, 0)

NodeWords(row) == <<Len(row)>> \o row

DirectWriteNode(f, row) == f \o NodeWords(row)

MaxDegreeIn(rows) == Max({0} \cup {Len(rows[i]) : i \in DOMAIN rows})

\* max_degree of the writer: the greatest degree it has written.
WrittenDegree(f) ==
  LET degrees[pos \in 2..(Len(f) + 1)] ==
        IF pos > Len(f) THEN {0} ELSE {f[pos]} \cup degrees[pos + f[pos] + 1]
  IN Max(degrees[2])

DirectFinish(f) == Header(Len(f) - 1, f[1].start, WrittenDegree(f)) \o Tail(f)

\* write_raw_graph_shards_to_mem_index: the final header first, then the shards.
RawShardsFile(start, rows) ==
  LET payload == FoldLeft(LAMBDA f, r : f \o NodeWords(r), <<>>, rows)
  IN Header(Len(payload), start, MaxDegreeIn(rows)) \o payload

\* FixedDegreeMemGraphWriter: create zero-fills, so a row never written reads as empty.
FixedCreate(n) == [k \in 1..n |-> <<>>]

FixedWriteNode(f, vid, row, max) ==
  IF vid >= Len(f) THEN [ok |-> FALSE] ELSE [ok |-> TRUE, val |-> [f EXCEPT ![vid + 1] = Capped(row, max)]]

\* load_fixed_degree_mem_graph.
FixedLoad(f, n, max) ==
  IF Len(f) < n \/ \E k \in 1..n : Len(f[k]) > max
  THEN [ok |-> FALSE] ELSE [ok |-> TRUE, val |-> SubSeq(f, 1, n)]

\* Mutant: the loader does not count the nodes it read.
LoadMemGraphAnyCount(f, n) ==
  LET words == Tail(f)
      parse[pos \in 1..(Len(f) + 1)] ==
        IF pos > f[1].size THEN [ok |-> TRUE, val |-> <<>>]
        ELSE IF pos > Len(words) \/ pos + words[pos] > Min({f[1].size, Len(words)}) THEN [ok |-> FALSE]
        ELSE LET rest == parse[pos + words[pos] + 1]
             IN IF rest.ok THEN [ok |-> TRUE, val |-> <<SubSeq(words, pos + 1, pos + words[pos])>> \o rest.val]
                ELSE [ok |-> FALSE]
  IN IF f = <<>> THEN [ok |-> FALSE] ELSE parse[1]

\* load_mem_graph: the nodes of the announced payload, exactly n of them.
LoadMemGraph(f, n) ==
  LET words == Tail(f)
      parse[pos \in 1..(Len(f) + 1)] ==
        IF pos > f[1].size THEN [ok |-> TRUE, val |-> <<>>]
        ELSE IF pos > Len(words) \/ pos + words[pos] > Min({f[1].size, Len(words)}) THEN [ok |-> FALSE]
        ELSE LET rest == parse[pos + words[pos] + 1]
             IN IF rest.ok THEN [ok |-> TRUE, val |-> <<SubSeq(words, pos + 1, pos + words[pos])>> \o rest.val]
                ELSE [ok |-> FALSE]
  IN IF f = <<>> THEN [ok |-> FALSE]
     ELSE IF parse[1].ok /\ Len(parse[1].val) = n THEN parse[1] ELSE [ok |-> FALSE]
=============================================================================
