------------------------------ MODULE RowFiles ------------------------------
(***************************************************************************)
(* The bytes of row files and the plans for reading them                   *)
(* (forgeann/direct_io.rs, io_runtime.rs and the head of point_store.rs):  *)
(* a header and rows of equal width, read through the page cache or in     *)
(* aligned blocks (strict I/O), row by row or in windows that cover        *)
(* several requested rows.                                                 *)
(***************************************************************************)
EXTENDS Integers, Sequences, FiniteSets, SequencesExt

CONSTANTS
  HeaderBytes,     \* FBIN_HEADER_BYTES, HEADER_BYTES of a sketch file
  RowBytes,        \* row_bytes
  AlignBytes,      \* effective_alignment
  MaxWindowBytes,  \* max_window_bytes of a read
  MaxGapRows,      \* max_gap_rows of a windowed gather
  Amplification    \* <<n, d>>: max_read_amplification n/d

ASSUME RowFilesAssumption ==
  /\ {HeaderBytes, MaxWindowBytes, MaxGapRows} \subseteq Nat
  /\ {RowBytes, AlignBytes} \subseteq Nat \ {0}
  /\ Amplification[1] >= Amplification[2] /\ Amplification[2] > 0

Larger(a, b) == IF a > b THEN a ELSE b

-----------------------------------------------------------------------------
(* Bytes.  A byte is <<row, position in the row>>.                         *)

Zero == <<-1, 0>>
HeaderImage == [j \in 1..HeaderBytes |-> <<-2, j>>]
RowImage(r) == [j \in 1..RowBytes |-> <<r, j>>]
RowImages(rows) == FlattenSeq([i \in DOMAIN rows |-> RowImage(rows[i])])

RowOffset(r) == HeaderBytes + r * RowBytes
RowWhole(file, r) == RowOffset(r + 1) <= Len(file)

AlignDown(x) == (x \div AlignBytes) * AlignBytes
AlignUp(x) == AlignDown(x + AlignBytes - 1)

Refused == [ok |-> FALSE, rows |-> <<>>]
Answered(rows) == [ok |-> TRUE, rows |-> rows]

RowsIn(bytes) ==
  [i \in 1..(Len(bytes) \div RowBytes) |-> SubSeq(bytes, (i - 1) * RowBytes + 1, i * RowBytes)]

\* read_exact_at_buffered_partial_ok: what lies past the end reads as zeros.
ReadPartial(file, offset, len) ==
  [j \in 1..len |-> IF offset + j <= Len(file) THEN file[offset + j] ELSE Zero]

\* DirectIoFile::read_exact_at: buffered reads end in an error at the end of the
\* file; strict reads take whole blocks and cut the requested bytes out.
ReadExactAt(file, strict, offset, len) ==
  IF strict
  THEN LET scratch == ReadPartial(file, AlignDown(offset), AlignUp(offset + len) - AlignDown(offset))
           prefix == offset - AlignDown(offset)
       IN Answered(RowsIn(SubSeq(scratch, prefix + 1, prefix + len)))
  ELSE IF offset + len > Len(file) THEN Refused ELSE Answered(RowsIn(ReadPartial(file, offset, len)))

\* The file after bytes are written at an offset; a gap before them is zero.
Patched(file, offset, bytes) ==
  [j \in 1..Larger(Len(file), offset + Len(bytes)) |->
     IF j > offset /\ j <= offset + Len(bytes) THEN bytes[j - offset]
     ELSE IF j <= Len(file) THEN file[j] ELSE Zero]

\* write_all_at first reads the blocks that the bytes do not fill...
BlocksBefore(file, offset, len) ==
  LET aligned == AlignUp(offset + len) - AlignDown(offset)
  IN IF offset = AlignDown(offset) /\ aligned = len
     THEN [j \in 1..aligned |-> Zero]
     ELSE ReadPartial(file, AlignDown(offset), aligned)

\* ... puts the bytes into them and writes the blocks back.
BlocksAfter(file, blocks, offset, bytes) ==
  Patched(file, AlignDown(offset), Patched(blocks, offset - AlignDown(offset), bytes))

WriteAllAt(file, offset, bytes) ==
  BlocksAfter(file, BlocksBefore(file, offset, Len(bytes)), offset, bytes)

SetLen(file, len) == [j \in 1..len |-> IF j <= Len(file) THEN file[j] ELSE Zero]

-----------------------------------------------------------------------------
(* Plans.  Requested rows are sorted and cut greedily into runs; a run s..e *)
(* of the sorted rows becomes a window.                                    *)

\* The runs s..e of 1..n: a run grows while the next position joins it.
Runs(n, Joins(_, _)) ==
  LET End(s) == CHOOSE e \in s..n : /\ \A i \in (s + 1)..e : Joins(s, i)
                                    /\ e = n \/ ~Joins(s, e + 1)
      From[s \in 1..(n + 1)] == IF s > n THEN <<>> ELSE <<<<s, End(s)>>>> \o From[End(s) + 1]
  IN From[1]

SortedRows(ids) ==
  SortSeq([i \in DOMAIN ids |-> [row |-> ids[i], pos |-> i]],
          LAMBDA a, b : a.row < b.row \/ (a.row = b.row /\ a.pos < b.pos))

\* A window and where its rows go: scatter pairs an output with an offset.
Window(rows, s, e) ==
  [start |-> rows[s].row, count |-> rows[e].row - rows[s].row + 1,
   scatter |-> {[pos |-> rows[i].pos, offset |-> rows[i].row - rows[s].row] : i \in s..e}]

Windows(rows, Joins(_, _)) ==
  LET runs == Runs(Len(rows), Joins)
  IN [k \in DOMAIN runs |-> Window(rows, runs[k][1], runs[k][2])]

\* build_gather_plan: small gaps are read over, windows stay within their size.
\* The rows come sorted: the options of every caller have sort_ids, without which
\* the size of a window, an unsigned difference, could go below zero.
GatherPlan(rows) ==
  LET most == Larger(1, MaxWindowBytes \div RowBytes)
  IN Windows(rows, LAMBDA s, e : /\ rows[e].row - rows[e - 1].row - 1 <= MaxGapRows
                                 /\ rows[e].row - rows[s].row + 1 <= most)

\* BoundedReadPlanner::plan: at most n/d rows are read per requested row.
BoundedPlan(rows) ==
  LET most == Larger(MaxWindowBytes, RowBytes) \div RowBytes
  IN Windows(rows, LAMBDA s, e :
       LET physical == rows[e].row - rows[s].row + 1
       IN /\ physical <= most
          /\ physical * Amplification[2] <= (e - s + 1) * Amplification[1])

\* aligned_blocks_for_row, aligned_read_bytes_for_rows.
BlocksOfRow(r) == (RowOffset(r) \div AlignBytes)..((AlignUp(RowOffset(r + 1)) \div AlignBytes) - 1)
AlignedReadBytes(first, last) == AlignUp(RowOffset(last + 1)) - AlignDown(RowOffset(first))

\* plan_with_aligned_read_cost: measured in blocks, against the blocks that the
\* requested rows touch.
AlignedPlan(rows) ==
  LET most == Larger(Larger(MaxWindowBytes, RowBytes), AlignBytes)
  IN Windows(rows, LAMBDA s, e :
       LET physical == AlignedReadBytes(rows[s].row, rows[e].row)
           touched == Cardinality(UNION {BlocksOfRow(rows[i].row) : i \in s..e})
       IN /\ physical <= most
          /\ physical * Amplification[2] <= touched * AlignBytes * Amplification[1])

\* Mutant: a window's rows are laid out in the order of the window.
ScatterInOrder(out, window, rows) ==
  [i \in DOMAIN out |->
     IF \E s \in window.scatter : s.pos = i
     THEN rows[Cardinality({s \in window.scatter : s.pos < i}) + 1] ELSE out[i]]

\* scatter_window_rows: each requested row goes to its place in the output.
Scatter(out, window, rows) ==
  [i \in DOMAIN out |->
     IF \E s \in window.scatter : s.pos = i
     THEN rows[(CHOOSE s \in window.scatter : s.pos = i).offset + 1] ELSE out[i]]

Blank(n) == [i \in 1..n |-> [j \in 1..RowBytes |-> Zero]]

\* Windows read one after the other with Read(start, count) and scattered; the
\* first failure ends the gather.
GatherWindows(n, windows, Read(_, _)) ==
  FoldLeft(LAMBDA acc, w :
             IF ~acc.ok THEN acc
             ELSE LET got == Read(w.start, w.count)
                  IN IF got.ok THEN Answered(Scatter(acc.rows, w, got.rows)) ELSE Refused,
           Answered(Blank(n)), windows)

=============================================================================
