---------------------------- MODULE SketchBuild ----------------------------
(***************************************************************************)
(* DiskSketchStore::build_from_point_store (forgeann/external_store.rs):   *)
(* the sketches of all points are computed chunk by chunk and written to   *)
(* one file, by one thread or by several, through the page cache or in     *)
(* aligned blocks (strict I/O).  A strict write that does not fill its     *)
(* blocks reads them first; nothing keeps two such writes apart.           *)
(***************************************************************************)
EXTENDS RowFiles

CONSTANTS
  SketchPlans,   \* configurations: [asked, memory, cacheBytes, strict, points]
  MinChunkRows,  \* MIN_SKETCH_BUILD_CHUNK_ROWS
  ChunkBytes,    \* DEFAULT_SKETCH_BUILD_CHUNK_BYTES
  BuildRowBytes, \* sketch_build_bytes_per_row
  SamplePoints,  \* SKETCH_START_SAMPLE_POINTS
  PointAt        \* PointAt[r]: where point r lies on a line

ASSUME SketchBuildAssumption ==
  {MinChunkRows, ChunkBytes, BuildRowBytes, SamplePoints} \subseteq Nat \ {0}

VARIABLES
  build,   \* [config, phase, ok]
  image,   \* the bytes of the sketch file
  chunk,   \* chunk[c]: [state, blocks] of the chunk that starts at row c
  summary  \* the rows, sum and samples merged so far

sketchVars == <<build, image, chunk, summary>>

-----------------------------------------------------------------------------
\* SketchBuildPlan::for_params: threads share the sketch cache's bytes.
PlannedThreads(g) ==
  LET threads == Larger(1, Min({g.asked, g.memory}))
  IN IF g.cacheBytes = 0 THEN threads
     ELSE Min({threads, Larger(1, g.cacheBytes \div (MinChunkRows * BuildRowBytes))})

ChunkRows(g) ==
  LET budget == IF g.cacheBytes = 0 THEN ChunkBytes * PlannedThreads(g) ELSE g.cacheBytes
  IN Larger(MinChunkRows, Larger(budget \div PlannedThreads(g), BuildRowBytes) \div BuildRowBytes)

Chunks(g) == {c \in 0..(g.points - 1) : c % ChunkRows(g) = 0}
ChunkEnd(g, c) == Min({g.points, c + ChunkRows(g)})
ChunkImage(g, c) == RowImages([i \in 1..(ChunkEnd(g, c) - c) |-> c + i - 1])

\* sketch_start_sample_stride.
Stride(g) == IF g.points <= SamplePoints THEN 1 ELSE (g.points + SamplePoints - 1) \div SamplePoints

\* SketchBuildStartSummary::from_chunk and merge.
WithChunk(s, g, c) ==
  LET rows == c..(ChunkEnd(g, c) - 1)
  IN [rows |-> s.rows + Cardinality(rows),
      sum |-> s.sum + FoldLeft(LAMBDA a, r : a + PointAt[r], 0, SetToSeq(rows)),
      samples |-> s.samples \cup {r \in rows : r % Stride(g) = 0}]

Distance(a, b) == IF a > b THEN a - b ELSE b - a

\* sampled_medoid_start: the sample nearest to the mean, the smallest id of several.
SampledStart(s) ==
  LET away(r) == Distance(PointAt[r] * s.rows, s.sum)
  IN IF s.samples = {} THEN -1
     ELSE CHOOSE r \in s.samples : \A q \in s.samples :
            away(r) < away(q) \/ (away(r) = away(q) /\ r <= q)

NoSummary == [rows |-> 0, sum |-> 0, samples |-> {}]
Fresh == [state |-> "todo", blocks |-> <<>>]

SketchInit ==
  /\ build \in [config : SketchPlans, phase : {"create"}, ok : {FALSE}]
  /\ image = <<>>
  /\ chunk = [c \in Chunks(build.config) |-> Fresh]
  /\ summary = NoSummary

Config == build.config
Parallel == PlannedThreads(Config) > 1
In(state) == {c \in DOMAIN chunk : chunk[c].state = state}

\* A strict build writes the count of rows, then their width, each into a block
\* that it reads first.
WithHeader ==
  LET half == HeaderBytes \div 2
  IN WriteAllAt(WriteAllAt(<<>>, 0, SubSeq(HeaderImage, 1, half)), half, SubSeq(HeaderImage, half + 1, HeaderBytes))

\* The file is created and, unless a parallel buffered build writes it at its
\* end, gets its header.
CreateFile ==
  /\ build.phase = "create"
  /\ build' = [build EXCEPT !.phase = "chunks"]
  /\ image' = IF Parallel /\ ~Config.strict THEN <<>>
              ELSE IF Config.strict THEN WithHeader ELSE HeaderImage
  /\ UNCHANGED <<chunk, summary>>

\* A thread takes a chunk, reads its points and computes their sketches; in a
\* serial build the chunks follow each other.
TakeChunk(c) ==
  /\ build.phase = "chunks"
  /\ chunk[c].state = "todo"
  /\ Cardinality(In("sketched") \cup In("blocks")) < PlannedThreads(Config)
  /\ ~Parallel => \A d \in In("todo") : c <= d
  /\ chunk' = [chunk EXCEPT ![c].state = IF Parallel /\ ~Config.strict THEN "written" ELSE "sketched"]
  /\ UNCHANGED <<build, image, summary>>

\* Reading the points fails: the build returns the error.
PointsFail(c) ==
  /\ build.phase = "chunks"
  /\ chunk[c].state = "todo"
  /\ build' = [build EXCEPT !.phase = "failed"]
  /\ UNCHANGED <<image, chunk, summary>>

\* The serial buffered build appends the chunk.
AppendChunk(c) ==
  /\ build.phase = "chunks"
  /\ chunk[c].state = "sketched" /\ ~Config.strict
  /\ image' = image \o ChunkImage(Config, c)
  /\ chunk' = [chunk EXCEPT ![c].state = "written"]
  /\ UNCHANGED <<build, summary>>

\* write_all_at of a strict build: the blocks are read...
ReadBlocks(c) ==
  /\ build.phase = "chunks"
  /\ chunk[c].state = "sketched" /\ Config.strict
  /\ chunk' = [chunk EXCEPT ![c] = [state |-> "blocks", blocks |->
                 BlocksBefore(image, RowOffset(c), Len(ChunkImage(Config, c)))]]
  /\ UNCHANGED <<build, image, summary>>

\* Mutant: the blocks are written from their start, without the prefix.
WriteBlocksAtStart(c) ==
  /\ build.phase = "chunks"
  /\ chunk[c].state = "blocks"
  /\ image' = Patched(image, AlignDown(RowOffset(c)), ChunkImage(Config, c))
  /\ chunk' = [chunk EXCEPT ![c] = [state |-> "written", blocks |-> <<>>]]
  /\ UNCHANGED <<build, summary>>

\* ... and written back with the chunk in them.
WriteBlocks(c) ==
  /\ build.phase = "chunks"
  /\ chunk[c].state = "blocks"
  /\ image' = BlocksAfter(image, chunk[c].blocks, RowOffset(c), ChunkImage(Config, c))
  /\ chunk' = [chunk EXCEPT ![c] = [state |-> "written", blocks |-> <<>>]]
  /\ UNCHANGED <<build, summary>>

\* All chunks are in: a parallel buffered build writes them sorted by their
\* start, a strict one cuts the file to its length; the file is opened, which
\* checks its length, and the start point is chosen from the merged samples.
FinishSketches ==
  /\ build.phase = "chunks"
  /\ In("written") = DOMAIN chunk
  /\ summary' = FoldLeft(LAMBDA s, c : WithChunk(s, Config, c), NoSummary,
                         SetToSortSeq(DOMAIN chunk, LAMBDA a, b : a < b))
  /\ image' = IF Config.strict THEN SetLen(image, RowOffset(Config.points))
              ELSE IF Parallel
              THEN HeaderImage \o FlattenSeq([i \in 1..Cardinality(DOMAIN chunk) |->
                                    ChunkImage(Config, (i - 1) * ChunkRows(Config))])
              ELSE image
  /\ build' = [build EXCEPT !.phase = "built", !.ok = Len(image') = RowOffset(Config.points)]
  /\ UNCHANGED chunk

\* write_from_memory_with_config: sketches that are in memory go out at once.
WriteFromMemory ==
  /\ build.phase = "create"
  /\ \E bytes \in {HeaderImage \o RowImages([i \in 1..Config.points |-> i - 1])} :
       image' = IF Config.strict THEN SetLen(WriteAllAt(<<>>, 0, bytes), Len(bytes)) ELSE bytes
  /\ build' = [build EXCEPT !.phase = "copied", !.ok = TRUE]
  /\ UNCHANGED <<chunk, summary>>

SketchNext ==
  \/ CreateFile \/ FinishSketches \/ WriteFromMemory
  \/ \E c \in DOMAIN chunk : TakeChunk(c) \/ PointsFail(c) \/ AppendChunk(c) \/ ReadBlocks(c) \/ WriteBlocks(c)

SketchSpec == SketchInit /\ [][SketchNext]_sketchVars

-----------------------------------------------------------------------------
(* Properties.                                                             *)

\* A finished build's file holds the sketch of every point at its place.
SketchesMatch ==
  build.ok => image = HeaderImage \o RowImages([i \in 1..Config.points |-> i - 1])

\* Two chunks of the build have bytes in one block.
BlocksShared ==
  \E c, d \in DOMAIN chunk : c < d /\ AlignUp(RowOffset(ChunkEnd(Config, c))) > AlignDown(RowOffset(d))

\* The same for every build that does not write chunks of one block at once:
\* serial, buffered or of chunks that end with a block, in whatever order the
\* chunks finish.  The start point is the sample nearest to the mean of all points,
\* although its parts are summed up chunk by chunk.
SketchesKept ==
  /\ ~(Config.strict /\ Parallel /\ BlocksShared) => SketchesMatch
  /\ build.phase = "built" =>
       /\ build.ok
       /\ LET all == 0..(Config.points - 1)
              sampled == {r \in all : r % Stride(Config) = 0}
              whole == [rows |-> Config.points, samples |-> sampled,
                        sum |-> FoldLeft(LAMBDA a, r : a + PointAt[r], 0, SetToSeq(all))]
          IN SampledStart(summary) = SampledStart(whole)

=============================================================================
