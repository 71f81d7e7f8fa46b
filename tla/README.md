# Verification of viprs

viprs is a Rust image processing library in the manner of libvips: a pipeline of
operations is evaluated on demand, tile by tile, by a pool of worker threads, and
the finished tiles go into a sink, which may be an encoder that only accepts
pixels from top to bottom. This directory holds TLA+ models of the parts where
threads meet and of the path of a tile from the encoded file to the sink, TLC runs
that check them on small instances, and TLAPS proofs.
Paths below are relative to `src/`; `runtime` stands for
`crates/viprs-runtime/src`, `core` for `crates/viprs-core/src`, `codecs` for
`crates/viprs-codecs/src`, `spatial` and `composite` for
`crates/viprs-ops-spatial/src` and `crates/viprs-ops-composite/src/conversion`.

## 1. Inventory

| Component | State it keeps | Operations | Talks to |
|---|---|---|---|
| Pipeline builder (`runtime/pipeline/builder`) | an arena under construction | then, from_source, thumbnail, build | decoder source, arena |
| Pipeline arena (`runtime/pipeline/arena.rs`, `core/reorder.rs`) | node graph, then an immutable `CompiledPipeline` | add_node, connect, compile | read by all workers of a run |
| Tile execution (`execute.rs`) | per worker: buffers, operation states, read plans, held tiles | execute_tile | source, operations, operation tile cache |
| Rayon scheduler (`runtime/scheduler/rayon_scheduler`) | per run: rayon's deques, error flag, cancellation token | run, run_concurrent(_cancellable), run_with_reducer | tile execution, sinks, limiter |
| Tile planning (`planning.rs`, `runtime.rs`, `core/op/demand.rs`) | none | tile geometry, tiles, strips, chunks, number of workers | scheduler |
| Execution limiter (`core/limits.rs`) | runs in flight behind a mutex, condvar; nesting depth per thread | acquire, release | every run |
| Cancellation token (`core/cancel.rs`) | one atomic flag | cancel, is_cancelled | scheduler, between tiles |
| File sink (`runtime/sinks/file_sink.rs`) | next tile's position and writer error behind a mutex, condvar, channel of two, writer thread | write_region_concurrent, finish, drop | workers; an incremental encoder |
| Double buffer sink (`runtime/sinks/double_buffer.rs`) | current strip behind a mutex, condvar, two channels of one, writer thread | write_region_concurrent, finish, drop | workers; an incremental encoder |
| Memory sink (`runtime/sinks/memory.rs`) | a buffer behind an `UnsafeCell`, without a lock | write_region_concurrent | workers |
| Sequential line cache (`line_cache.rs`) | a window of source rows, per worker | read_region | a source |
| Operation tile cache, tile cache (`runtime/cache.rs`, `sources/tile_cache.rs`) | tiles with LRU stamps behind a RwLock, an atomic clock | get, insert, clear, read_region | tile execution; a source |
| Decoder source (`sources/decoder_source`) | a backing (eager, deferred with a `OnceLock`, streaming), two shrink factors | constructors, hints, read_region, borrow_region | codecs, from inside a worker; the builder |
| Operations that move pixels (`spatial`, `composite`) | none | demand a region, declare a tile, process a region | tile execution |
| PNG decoder (`codecs/png`) | a sequential decoding session, an interlaced raster, behind mutexes | decode_region | files |
| OpenSlide (`codecs/openslide.rs`) | a cache of open slides, a copy of each on disk | cached_slide | the file system |
| WebP (`codecs/webp`) | a cache of decoded frames | decode_region | none |
| Reducers (`core/reducer.rs`) | partial results per rayon fold | accumulate, combine, finalize | scheduler |
| Other sources, writer and discard sinks, image API, ports | none shared | | |
| Pixel and colour operations (`viprs-ops-*`), other codecs | none shared | pixel arithmetic, formats | |

What makes them hard, and what makes them correct:

* **Ordered sinks.** Workers finish tiles in any order and block until it is
  their turn, holding or releasing a mutex, while a second thread drains a
  bounded channel and may fail at any time. Correct: the encoder sees the tiles in
  raster order, none lost or doubled; success is reported only for a complete image;
  everybody who waits is woken, and the shutdown ends.
* **Scheduler.** Work is split and stolen; tiles fail, panic or are dropped by a
  cancelled run. Correct: no tile is executed twice, none is missing from a run
  that reports success, regions written at the same time never overlap (the memory sink
  has no lock), a cancelled run stops within a tile per worker, every run ends.
* **Both together.** A pool whose workers block in the sink must still have
  somebody to execute the tile that the sink waits for.
* **Planning.** Divisions, caps and floors. Correct: tiles cover the image
  once and in the order of the sinks, strips and tasks cover the tiles once.
* **Compiling and executing.** Tile buffers are handed from node to node by an
  order of the graph that is not the order it was built in; views share a buffer; a worker
  keeps buffers and read plans between tiles. Correct: no buffer is written between a producer and its
  last reader, each is large enough, the borrow that `execute_tile` splits is legal,
  and every row of a tile is the operations' value at that row, cached or not.
* **Operations.** The region an operation asks for, the input tile it declared and the
  positions it reads are three computations. Correct: they agree at every offset and edge,
  and tiles make the same image as the operation on the whole.
* **Caches.** A map and a byte count under a lock, stamps from outside it. Correct:
  the count is exact and bounded, the least recently used goes first as far as uses are ordered, workers that race share one tile.
* **Decoder source.** What has been shrunk, by whom, is guessed from dimensions. Correct:
  the frame reported is the frame served, the builder plans with it, a thumbnail never ends up smaller than asked.
* **Limiter.** `notify_one` and nested runs. Correct: permits neither leak nor
  multiply, no wake-up is lost, a nested run cannot wait for its own outer run, and permits are taken while runs wait.
* **Line cache, sessions.** Rows are let go of for good. Correct: what is read back is what the source holds, and
  a pipeline that only goes forwards finds its rows.

`PROJECT.json` lists every hazard at its line, with the properties that would
catch it or the reason why none does.

## 2. Modules

| Module | Models | Uses |
|---|---|---|
| `RasterOrder` | regions, the row-major order of the sinks | |
| `RasterWriter` | the abstract ordered sink: what its encoder sees and what finish may say | `RasterOrder` |
| `FileSink` | `file_sink.rs` | `RasterOrder`; implements `RasterWriter` |
| `DoubleBufferSink` | `double_buffer.rs` | `RasterOrder`; implements `RasterWriter` |
| `TileGrid` | the planner's functions | `RasterOrder` |
| `TilePlan` | one planning step, from a request to tasks | `TileGrid` |
| `OperationRegions` | regions, input tiles and reads of eighteen operations that move pixels | `TileGrid` |
| `TileDemand` | a planned tile asked of one of them | `TilePlan`, `OperationRegions` |
| `PipelineCompile` | `PipelineArena::compile` and `reorder_dag` | |
| `TileExecution` | `execute_tile` by one worker, with the shared operation tile cache | `PipelineCompile`, which it implements |
| `TileCache` | `cache.rs` and `tile_cache.rs` | |
| `DecoderSource` | the decoder source, and the builder that asks it for a thumbnail | |
| `RayonScheduler` | `run_concurrent_cancellable` once it is planned, with rayon | `RasterOrder` |
| `FileSinkRun` | a run that saves: scheduler and file sink with shared workers | instances of both |
| `ExecutionLimiter` | `ExecutionSemaphore`, `with_execution_permit` | |
| `LineCache` | the window of source rows of a worker | |
| `FileSinkProofs`, `DoubleBufferSinkProofs`, `ExecutionLimiterProofs`, `TileExecutionProofs`, `RayonSchedulerProofs` | theorems | their modules, TLAPS |
| `SourceProofs` | theorems on what lies below the workers | `LineCache`, `TileCache`, `DecoderSource`, TLAPS |
| `TilePlanProofs` | theorems on the planner, and on the operations asked for its tiles | `TileDemand`, TLAPS |
| `FileSinkRunProofs` | theorems on the composition | `FileSinkRun`, instances of `RayonSchedulerProofs` and `FileSinkProofs`, TLAPS |
| `MC*` | plans, graphs, files, requests for TLC | their modules |

### Correspondence with the code

A step of a model is a critical section, a blocking call that completes, or a run
of code that touches nothing shared. `PROJECT.json` maps each definition to its lines.

**FileSink.** `next` and `writerError` are `OrderingState`, `channel` the bounded
channel, `senderOpen` and `receiverOpen` say who still owns its ends.
A worker's call goes through `callPc`: `locking` (about to take
the mutex, for the first time or after a wake-up), `waiting` (on the condvar), `sending`
(blocked in `send` with the mutex held), `idle`. `TakeTurn`,
`WaitForTurn` and `ReturnWriterError` are the three ways out of the loop at lines
304-322; `SpuriousWake` is allowed as the standard library's documentation says.
The writer thread's `writerPc` follows `writer_loop`: `receiving`, `writing`,
`finishing`, `storingError`, `exited`; an error has to take the ordering mutex before the receiver
is dropped, which is what one of the defects below is about. The mutex itself is
not a variable: it is held for more than one step only across the send, so it is
free when no worker is in `sending` (`MutexFree`). `sent` and `written` are
history variables.

**DoubleBufferSink.** `current` is the strip being filled, `flush` and `spare` the
two channels, `callPc` adds `copying`, `flushing` and `swapping`. Pixels are the set of
image positions copied into the buffer, so that a stale or missing pixel is
visible; bytes are counted in pixels. The regions come from a plan of the
scheduler, each delivered once.

**RayonScheduler.** `plan.units` is the list of work items (adaptive strips, static
ranges or scoped chunks) as sequences of regions. `pc`, `leaf` and `tile` are what a
worker does, on which range of units, and at which tile; `deque` has the halves it
has split off, `full` is rayon's error flag. `Pop`, `Steal`, `Split` and `SkipWhenFull` are rayon's, which
the repository uses and does not contain: they are modelled from its documented
work-stealing behaviour, split at any point and any moment before a leaf starts. `Begin`,
`Execute*`, `PassToken`, `ObserveCancel`, `CallSink`, `SinkOk`, `SinkErr` and
`Advance` are the closures of `run_concurrent_cancellable`; `Fail` what becomes of
an error there. In the scoped shape units are dealt to threads and nothing is stolen.

**FileSinkRun.** The worker threads of the two components are the same: while a
worker is in phase `writing` of the scheduler it is inside the sink's call, and the
call's answer decides between `SinkOk` and `SinkErr`. The sink's owner finishes it after
Ok and drops it after an error, as `run_with_file_sink` in
`benches/pipeline/write_behind.rs` does and the sink's own tests.

**TileGrid, TilePlan.** Functions from a plan request (image size, demand hint, row
bytes, budget, threads) to geometry, tiles and tasks. Sizes stay far below 2^31 in
the runs; the code's saturating operations do not saturate there.

**OperationRegions, TileDemand.** One operator per function of the code: `XInput` is
`required_input_region`, `XTile` `node_spec`, `XRead(s)` the indices of `process_region`. Pixels are
positions; what a pixel is made from is a function from taps to positions, so that averages and
convolutions keep the place of each tap. The special loops for `u8` read the positions of the general one.
`Demand` is one node's turn in `execute_tile`: the tile of the plan, or a region around or beside it that a
consumer asks for; a view clips it to its canvas, an operation that computes does not. `Shown` is written
from each operation's description, on the whole image and without regions: the reference the reads are compared with.
A pixel outside the canvas is compared with nothing. The source repeats its edges (`SourcePixel`). `WellFormed` is what the
constructors insist on: factors and counts of at least one, a grid of whole frames, sources with pixels.

**PipelineCompile.** Regions are ranges of rows. `phase` follows compile: `order` (`Emit` is one round of
`reorder_dag`, with its score), `owners` (`FindOwner`, the scan for who owns which buffer and reads it how
often), `buffers` (`CompileView` and `CompileTransform`: output buffer from the free list or new, inputs released after their last read),
`sizes`. A format is one or two bytes a sample; bands are left out.

**TileExecution.** `pc` is where the worker is in `execute_tile`: `idle`, `bare` (no nodes), `single` (the
path for one node), `plan` (backwards: regions and read plans of each node, hits in the cache), `source` (read or borrow), `run` (forwards, every
node over its buffers, scratch copies and held tiles), `write`. A pixel row is a term, the node and the rows it was
made from; `RowOf` is the reference for it, from the graph alone, and `SoundGraph` and `SizedGraph`
what the theorems ask of a graph (section 4).
A write into a buffer replaces the rows written and leaves the rest as it was (`Over`). `SlicesFit` guards the steps that slice: where the code would panic, the
model has no step, and `SlicesInBounds` says that this never happens. `Evict` is another worker, or clear, taking a tile from the shared cache;
a tile that somebody else has put there is one this worker put there earlier. Four operations stand for the
kinds that differ here: pixel-local, with a halo, shrinking, point sampling; joins have two slots, crops are views.

**TileCache.** A call goes through `idle`, `hit` (found, its stamp not yet taken), `touch` (stamp taken,
not yet stored), `miss`, `made` (tile made, outside the lock), `insert` (stamp taken, waiting for the lock); `writer` is
in its eviction loop, whose round reads stamps one by one into `seen` while others touch. `born`, `since`
and `until` are history: when the last uses of an entry began and ended. `Threads` race on every step.

**DecoderSource.** An image is its dimensions. `backing` and the `OnceLock`'s content in `image` (`Empty`, `Failed` or
decoded), `shrink_factor` and `backing_shrink_factor` are the code's fields; a hint answers yes, no or an error; `stage` says
whether the source is open, owned by the builder, or failed to open. `ReadRegion` decodes a deferred image, once.
`wanted` remembers which targets were no larger than the image they were asked of.

**ExecutionLimiter.** `inFlight` is the semaphore's counter, `pc` where a thread is,
`depth` its thread-local nesting depth. `Leave` is the guard's drop and the permit's
drop: decrement, notify one. A thread starts any number of runs: the state has no counter to bound.

**LineCache.** `startY`, `rows` and `nextSourceY` are `start_y`, the contents of `bytes`
(each row as its number) and `next_source_y`; `window` holds the three parameters. `Read`, `ReadAndReset` and
`ReadBehind` are the beginning of `read_region`; `DropLine`, `AppendLines` and
`SourceFails` its loop, `Serve` its end. Where it answers no (`ReadUnsupported`), `execute_tile` reads the source past the cache: the rows, repeated at the edges as
the sources do (`SourceRows`), or an error, are the answer, and the cache's counter `nextSourceY` stays, which is then no
longer where the source is. `reached` is a history variable: the furthest row a supported request began at. A drop that drops nothing is no step, so a loop that
goes round without effect is a read that does not go on. The loop's early exit at the end of the image is never
taken (theorem `WindowHolds`), and is left out.

Operators whose comment begins with `Fault:` are plausible bugs, one or more per
property, that TLC must find: each property is known to fail when its fault
replaces the definition it is derived from.

## 3. Runs

| Run | Question | Bounds | Distinct states |
|---|---|---|---|
| `FileSink` | loss, refinement of the abstract writer (order included), wake-ups and shutdown for any caller | 3 workers, any of five regions, valid or not, repeated or not; channel of 2; encoder that writes, fails or panics | 57,755 |
| `DoubleBufferSink` | are strips complete, do buffers come back | 2 workers, 2x5 image, strips of 2 rows (the last of 1); regions of a pixel, across strips, in columns | 12,913 |
| `RayonScheduler` | is each tile done once, does the run end | 3 workers, the four shapes, with failing, panicking and refused tiles and a token | 52,504 |
| `FileSinkRun` | is a saved image complete, can a clean run hang | 3 workers, 5 rows of one tile, three shapes, channel of 2 | 181,865 |
| `FileSinkRunCancel` | does a cancelled save return? No | 2 workers | |
| `TilePlan` | is the planner's arithmetic right, do operations read the right pixels of the tiles it plans | 1,876 requests around all thresholds, every hint; 41 operations with canvases of up to 132 pixels, four hints, rows cut for 1 and 20 threads, six growths | 12,625 |
| `TileExecution` | do buffers, sizes, read plans and the cache give every tile its rows | 6 source rows, tiles of 2 at compile time, of 1 and 2 at run time; two tiles in any order; all sound chains of up to 3 operations and 13 other graphs, cached and not; a source that lends its rows or not | 663,514 |
| `TileCache` | bytes, eviction, first tile | 2 threads, three keys of 1, 2 and 4 bytes, budget 3, 5 stamps | 619,699 |
| `DecoderSource` | do frames and factors agree after any hints | JPEG and WebP 37x18, PNG 32x16 and a deep one 37x18, PPM 16x9; factors 1, 2, 3, 4, 16; targets of up to 8x4 | 3,836 |
| `RotatedFrame` | does a rotated JPEG serve its frame? No | one 6x4 file | |
| `LineCache` | are the right rows served, is a reader that goes forwards never refused, does a read end | 8 source rows, all requests of up to 4 rows, windows of 2, 3 and 4 rows with refills of 2, both accesses | 53,805 |
| `ExecutionLimiter` | permits, wake-ups, nesting, progress | 4 threads with any number of runs, 2 permits, 2 levels | 368 |

Why the bounds are enough: in the file sink the cases differ by a worker that
sends, one that waits for its turn and one that is about to, hence three workers; a channel of
two slots, as in the code, is full with four tiles under way and one in the
writer's hands. The double buffer runs go through a strip that is completed
exactly, one completed in the middle of a region, and a short last strip. The
scheduler's plans are small (at most five units), but every way to split
and steal them is explored; an `ASSUME` ties each plan to what `TileGrid` computes for the
same request, so they are plans the planner makes. Width 10001 is the first one that makes thin strips
one row high. The operations' canvases are cut into single rows, strips of 16 and as many
rows as threads, and into columns of 128; factors, frames and masks do not divide the tiles, and growths
put regions across every edge; a zoom by 7 has the strip that touches one row more than its height asks.
In tile execution two tiles show what a first leaves behind for a second, in
both orders; the graphs have a buffer handed on, one still read, fan-out over a view, joins of a node
with itself and of grids with rectangles, and an order other than the one they are built in. A cache with room for three bytes
has entries that fit together, that evict one or two others and that never fit; five stamps let each thread have a use
that overlaps the other's eviction. The decoder's files are multiples and no multiples of the factors. In the line cache four rows of window are the default
of two refills, three a window that a refill does not divide and two the narrowest in which a refill fits. Four threads on two permits let two be parked while two run.

Deadlock checking is off where the system really stops: a closed sink, a finished
run, a plan, a demand, tiles or hints that are all done; and in the file sink a caller
whose turn never comes because nobody delivers the tile before it waits for ever, as
in the code. The liveness properties say who must not wait.

### Fairness

Weak fairness per thread: a worker inside a call, the writer thread, the owner
inside `finish`, a worker of a run and a read of the line cache go on when they can, as the operating system
lets them. Nobody is obliged to call a sink, to call `finish`, to
cancel a token or to start a run. A spurious wake-up is allowed and never assumed.
The one strong fairness is of `Leave` in `ExecutionLimiter`: a run may start nested
runs as often as it likes, and during each of them it cannot leave; that it leaves
in the end says that a run is finite, which it is, having finitely many tiles.
The planner, compile, tile execution, the caches and the decoder source wait for nobody: their specifications
are safety alone.

### What the runs found

Two runs end in a counterexample, each to something the code's comments say:

1. **FileSinkRunCancel** (`runtime.rs:1922`). A cancelled worker drops its tile; a
   worker in the sink waits for it for ever, and the run does not return.
2. **RotatedFrame** (`source_impl.rs:135`). A deferred JPEG whose EXIF orientation swaps its
   sides reports the size of a probe that does not rotate and serves tiles of a decode that does. `viprs-ports/src/source.rs:58-62` says of `width`:
   "Returns the source width in pixels. This method gives schedulers the image bounds needed to plan tile reads."
   The bounds are the unrotated ones, and tiles are planned outside the image that is served.

Others were met while modelling; the passing runs are kept clear of them where a property would fail, as said below.

*Sinks and runs*

* `file_sink.rs:324`. A worker blocks in `send` with the ordering mutex held; a writer thread that fails blocks on that
  mutex to store its error, with the receiver not yet dropped. Both wait for ever. `double_buffer.rs:394`
  has the same shape: the spare buffer is awaited with the state mutex held. Hence no liveness property with a failing
  encoder speaks of a worker that sends or swaps.
* `double_buffer.rs:532`. `finish` drains the recycle
  channel once. If the writer is still busy with the last-but-one strip, two
  buffers come back afterwards through one place, and `finish` joins a thread that is
  blocked. No failure is needed, only an encoder slower than the workers.
* An encoder that panics stores no error and wakes nobody (`file_sink.rs:329`; `EncoderPanics`, `SendDisconnected`), so
  `WaitersReleased` only speaks of errors, and `FileSinkRun` has no panics.
* The double buffer sink refuses regions higher than a strip and
  narrower than the image (the plan `Columns`), with an error. `FileSink::finish` says Ok after
  a partial delivery: `FinishOkMeansAllWritten` speaks of what was accepted, and only
  `SavedImageComplete` of the whole image, under the protocol of `FileSinkRun`.
* `planning.rs:15`, `runtime.rs:45`. A worker's thread-local pool is made for the first pipeline its thread runs and only
  resized for the next: a scheduler that is kept uses the operation states and line cache of the earlier one.
* `line_cache.rs:177`. A window narrower than a tile, as
  `sequential(1)` asks for, cannot take a refill, which has a tile's height: the
  loop that makes room has nothing to drop and does not end. The run has no such window.
* `execute.rs:208-228`, 303-320, 534-565. A request that the line cache does not support, because a part of it is outside the image (the first
  halo tile of a convolution, at y = -1) or because it is higher than the window, is read from the source directly. The cache does not know,
  and asks the source again for rows it has passed: after the halo tile at -1 it starts at row 0. `tests.rs:1297` says
  "line cache refills must remain full-width and monotonic"; that is so of the refills and not of what the source is asked in all, so no
  property says that a sequential source is only read forwards. `ForwardNeverRefused` speaks of supported requests.
* `limits.rs:314-331`. The semaphore has no queue: a newcomer that locks the mutex before a woken thread takes its permit, and the
  woken thread parks again, behind everybody. That can happen again each time it is woken, so a run may starve while others come and go,
  under any fairness of the threads. `PermitsKeepMoving` therefore says only that permits are taken again and again while runs
  wait; each waiting run gets one if no more are started.

*Compiling and executing*

* A pipeline of views alone over a source that lends its rows writes a buffer that nobody filled
  (`execute.rs:166-168`, 587); so does a view at the end over a node whose tile came from the cache.
* `planning.rs:321`. A slot that reads a view takes its rows as if the buffer began with what it asks for itself; when
  another reader of the view, or of the node behind it, asks for more, the buffer begins earlier and the slot gets other
  rows, against the comment at `execute.rs:588`. `SharedViews` of `MCTileExecution` is such a graph: with it for `Graphs`
  TLC finds `TilesCorrect` violated.
* A point-sampling node behind a node that is merged with another or not pixel-local is given a rectangle
  where it expects its packed samples (`core/op/demand.rs:143-145`), and a point-mode `Subsample` of an operation's output crops it.
* On a graph with a cycle `descendant_counts` recurses for ever before `ReorderError::Cycle` can be returned.

The graphs of `MCTileExecution` have none of these; nor graphs with several sinks, or parallel branches that change size.

*Operations*

* `spatial/morphology/median.rs:191-212` (every format but `u8`, and large windows): the loop over
  chunks of one row hands the window a single row, so the rest of the scratch is what earlier pixels and tiles left there.
  The test `f32_select_path_matches_known_reference` expects what comes out of it. `rank.rs` does it right.
* `composite/embed.rs:462`: in mode Copy a tile that lies in the border alone is not written (`Writes`).
* `zoom.rs:347`, and `grid.rs` in the same way, cast the origin of a region to an unsigned number; a halo
  asked of them by a convolution begins at -1 (`MayBeAsked`).
* `rot45` asserts that its tile is the whole image, while its hint, Any, lets the planner cut it.

*Decoder source*

* An 8-bit PNG whose sides are no multiples of the factor is shrunk twice: the decoder rounds up
  (`png/decode_full.rs:342`), the guess whether it shrank rounds down (`shrink.rs:157`). A 37x18 file asked for
  1x2 becomes 10x5 and then 2x1, although `codec_options.rs:79-81` promises no less than was asked. The run's 8-bit PNG is 32x16.
* A deferred source opened with a shrink factor in its options probes with it and decodes with it again
  (`backing.rs:221`): `ProbedWith` is {1} in the run, and in the hypothesis of the theorem.
* `viprs-ports/src/source.rs:226-233` says that a thumbnail hint "must return `Ok(false)` for software fallbacks that merely emulate shrink
  after full decode" and that "PNG must leave the shrink to downstream resize stages". `shrink.rs` shrinks a decoded PNG in memory and
  answers yes, and `decoder_source/tests.rs:445` expects it; so does the model. No property depends on it.
* A repeated thumbnail hint shrinks an eager PNG once more; a streaming source whose codec cannot shrink answers yes;
  an error of the deferred decode stays for good (`source_impl.rs:91`).
* After an error in a row, a PNG session is put back with a decoder that may be one row
  further than its counter (`png/region_decode.rs:217-241`, 581).

## 4. Proofs

Eight modules hold 53 theorems that `PROJECT.json` lists. They hold for every value of the constants that the modules' named
assumptions admit.

**FileSinkProofs** proves all safety of the file sink for any set of workers, any
regions, image size and capacity of at least one (`FileSinkAssumption`):
type correctness, the order of what is accepted, that what was accepted is what was written, then
in the writer's hand, then queued (`AcceptedThenWritten`), that an Ok from `finish` means all of it
was written, and that the sink implements `RasterWriter`. None of these is inductive: the
order of `sent` follows from `next` being the position after it, and from each
worker in `sending` having found its region's origin equal to `next` under a mutex that nobody else has taken
since; that needs mutual exclusion of `sending`, which regions callers hold, and what the
writer thread's stage says of `message`, `receiverOpen` and `writerExit`.
The inductive invariant is `Inv == TypeOK /\ CallsWellFormed /\ ThreadsWellFormed /\ Log`;
`SinkInvariant` is its second half. There is one lemma per action (`CallInv`, `TurnInv`, `SendInv`, ...), lemmas on
concatenation and prefixes of sequences, and for the refinement one that each step maps
to a step of `RasterWriter` or to a stutter (`StepRefines`): `WriteOk` is `Deliver`, the
writer's exits are `Close`, `Join` is what reports the outcome.

**DoubleBufferSinkProofs** proves all safety of the other ordered sink, for any workers, strips, encoder and plan of
disjoint regions in the image. The code counts the pixels it copies and sends a strip off when the count is the strip's size; that this
means that every pixel is there (`StripsAreComplete`) needs the regions to be disjoint and no pixel that a worker still has to copy
to be in the strip yet, so that counted pixels are different ones (`StripInv`, `Rest`). `BufferInv` adds up the two buffers over sink, channels
and writer; with it the send that holds the mutex finds a writer about to receive (`SlotIsFreed`: the safety half of
`FlushCompletes`). The strips sent are then the writer's, in order (`FlushInv`, `ThreadsInv`), which gives `OkMeansImageWritten` and the refinement of `RasterWriter`.

**RayonSchedulerProofs** proves the scheduler's safety for any number of workers and any plans, however rayon splits and
steals. `Inv` is `TypeOK`, `PhasesAgree` (phases and program counters), `OnePlace`, `SomePlace` and `BusyBound`. A tile is a
unit and an index; its places are the store, the hand of worker w (`<<w, 0>>`) and the i-th half of its deque (`<<w, i>>`).
`OnePlace` says that it has at most one, `SomePlace` that it has one while nothing failed; each action is a move
of tiles from places to places, by a handful of lemmas (`MovesHold`, `HandShrinks`, ...). `TilesHeldOnce`,
`NothingDropped`, `OkIsComplete` and `StopsSoon` follow. `WritesDisjoint` needs one thing more, that a plan's tiles are
disjoint: what `PlanTilesApart` proves of the planner. `HalvesInOrder` is for the composition: thieves take the oldest half, so what
a worker has left lies after what it has in hand, the youngest half first.

**FileSinkRunProofs** puts the two together. `RunInvariant` is both components' invariants, instantiated on the shared workers, and `Coupled`:
a worker in the sink's call is there with its tile, what is stored has been accepted, what was accepted is stored or its answer is
on the way, and only a run that was Ok is finished. `RunImplementsBoth`: a saving run is a run of the scheduler and a behaviour of
the sink, so all theorems on either hold of it. `FileSinkRunAssumption` asks of a plan that its tiles follow each other through the image, which `PlanPartition`,
`PlanOrder` and `PlanDealt` prove of the planner's. From it, by induction along the plan (`SentSoFar`), the sink has accepted a prefix of the tiles, and all of them when the run is Ok:
`SavedImage`. `ExpectedTileReachable` is why workers that block in the sink do not stop a run: a tile queued behind
a worker comes after the one it has in hand, so the tile the sink waits for would be later than one that waits for it; but all earlier ones have been accepted.

**TilePlanProofs** proves the planner for every request (`RequestAssumption`). A side of the image is cut into cells that cover it once (`CellsCut`); tiles are
numbered by rows and columns, and the numbering is one to one (`Numbering`, `NumberingBack`): hence `PlanPartition`, and
`PlanOrder`, by a case split on whether the next tile is in the same row. Runs of strips and tasks are cells again
(`RunsAreCells`), and there are no more of them than workers (`FewRuns`): `PlanDealt`. `PlanInv` says that a plan is
the planner's value of its request.

It goes on to what the operations read, for any sizes, offsets, factors and masks that `OperationsAssumption` admits. There is one lemma per operation (`CutsAndTurns`, `EmbedCanvasRight`, `GridRight`, `ZoomRight`, ...) that each pixel of any region
is read inside what was asked for and shows what the whole image shows. They rest on remainders being unique (`Remainder`, `SameRemainder`), on division being
monotone (`DivisionOrder`, `DivisionShift`), on the two sides of a mirrored or wrapped axis agreeing (`MirrorShown`, `WrapShown`), and for compositions on the
clipped part of an image being where it is pasted (`PasteInside`). `RequestsFit` is about the buffers: a region of at most w by h asks for no more
than the input tile declared for w by h, where a zoom by more than one needs its extra pixel (`ZoomFits`). `CutsWithinHint` shows that the planner only thins the rows of the hint's tiles;
`DemandInv` carries it to each demand, and `DemandReadsItsTile` is the result. The code's numbers are 32 bits wide and the theorem's are not: it speaks of coordinates that stay below 2^31.

**TileExecutionProofs** proves of compile, for every graph, that no buffer is handed on before its last read and that inputs lie below outputs. The
inductive invariant `BufferInv` is `CompileTypeOK`, `OrderInv` (the order has each node once, after those it reads),
`OwnerInv` (owners are what following views leads to), `PendingInv` (a buffer's pending reads are those of its owner by nodes not compiled), `RecordInv` (compiled
nodes record owners and buffers) and `FreeInv` (a buffer is free only if nothing is pending on it, and only
once). `ExecutionImplementsCompile` is the refinement that carries both properties over to every tile executed.

It then proves that tiles and cache entries are the image's rows (`TilesAreCorrect`, `CacheIsSound`), for any source, tiles, evictions and any graphs that are
`SoundGraph`: no point sampling, and views that nothing else can disturb (read once at most, alone in reading what they read, inside the view they read, not the
output over the source or over a cached node). The graphs this leaves out are the ones of section 3, for which the code is wrong, and the point-sampled ones that
are right; `SoundAssumption` of `MCTileExecution` has TLC confirm that all graphs of the run but those that sample are sound and sized (below), and `SharedViews` is not.
`RowOf` recurses over the graph; that there is such a function at all is shown of a shortest part of compile's order for which there is none (`RowsExist`),
and from then on the proof needs only its equation at each node.
`TilesCorrect` alone is far from inductive. `ExecInv` adds to `BufferInv`
`ShapeInv` (compiled nodes are linked by their places in the order to the nodes and owners they read) and `RunInv`. There, `PlanInv` says of the nodes planned so far
that each asks of what it reads a region that covers what it takes from it, and exactly that of a view; that what is asked is asked by somebody; and that
a held tile has the rows of the region planned for its node. `SourceReady` says that the source's buffer has the rows planned, and `Ran` that each node that was run and that nothing has
written over since has left its rows. That nothing writes over it before its last reader is `BuffersHandedOnAfterLastRead`. `Evict` disturbs none of it, since a
held tile is the worker's own; `CacheSound` goes along, as what is inserted has just been shown to be right.

Last, it proves that no slice reaches beyond its buffer (`SlicesAreInBounds`), for any tiles no higher than those compile looked at
(`ExecutionAssumption`; the planner only thins the hint's tiles, `CutsWithinHint`) and for sound graphs that are also `SizedGraph`: there are heights and scales such
that each node is as high as its operation makes everything it reads, one row of the output stands for `scale[n]` rows of node n whichever way it is
reached, crops lie inside what they crop (`validate_extract_area_bounds`), and one node alone is read by nobody. Chains of the builder are like that. `compile` does not check any of
it when nodes are connected to slots (`arena.rs:270-305`), takes the image's height from the nodes in order as if they were a chain (`arena.rs:772-788`), and skips what is computed for
nobody; without the hypothesis TLC finds the property violated, for one by a crop larger than its input after two shrinks. The run's graphs are shown to be sized by
the witnesses `HeightOf` and `ScaleOf`.
The invariant is `SizedInv == ExecInv /\ FormatInv /\ RoomInv /\ FitInv`. `FormatInv`: a buffer is handed on within one format, and the last buffer is some node's. `RoomInv`: each buffer is as large as
the largest tile asks in `TileRegions`, which is what going back over the nodes by index finds (`Back`). `FitInv`: the worker's buffers are no shorter
than that, its tile is one of the image, and what is planned lies in the room that compile made. That is the heart of it, since compile only looked at whole tiles by nodes in order, merged per buffer, and
a run plans per node, for tiles anywhere and of less height. The proof takes the first tile's regions, which are among those compile measured, and shifts them down by
`scale * tile.y` (`Shifted`): what a tile asks of a node lies inside (`InRoom`, `PropagateWithin`). Operations clip what they ask to the image, and a region clipped to nothing
would be dropped by compile though not by the run; `InRoom` therefore also says that some row is inside the node's own image.

**SourceProofs** has three parts that do not depend on each other.

*Line cache* (`LineSpec`), for every image, window and refill size (the
narrow windows that hang included), both accesses and any requests. Here the properties are inductive
together with `InReach`, that a request being read begins no further down than `reached`: a row is dropped only above the request, so `startY` stays at
or above what was reached (`ForwardIsServed`). That a chunk fits the buffer (`ChunkFits`) needs the rows to end where the source goes
on, and either room was made or the window already starts at the request, which is no higher than the
window. `WindowHolds` is the result.

*Tile cache* (`CacheSpec`). `StampInv`: a stamp lies between the beginning and the end of the use that took
it, in a call, in an entry and in what the evicting thread has seen. With it the victim's last use began before
that of any entry that stays ended (`EvictionOrder`). `FirstTileShared` needs that inserts look again. `BytesAreAccounted` compares the counter with
a sum over the entries, a fold over a set: that it changes by an entry's bytes when the entry comes or goes is shown of the
function behind the fold (`AddsUp`), on a set of least cardinality where it does not.

*Decoder source* (`DecoderSpec`). The builder's dimensions are the source's frame after any hints
(`ArenaFollowsSource`): an answer of no leaves the frame alone (`RefusalKeepsFrame`). `UprightFramesServed` assumes that no file is rotated and
none probed with a factor: the two findings above are the reason. Factors are powers of two, of which the residual never rounds twice. `BorrowsAreReads` has no such hypothesis.
`ThumbnailsNotEnlarged` assumes files that are `Regular` (stored upright, PNGs deep or with sides that 16 divides) and is false without it:
then what the decoder shrank is not taken for the whole image and shrunk again (`OnceEnough`), and no frame outgrows the file's (`SizeInv`).

**ExecutionLimiterProofs** proves the limiter's safety for any finite set of threads and any number
of permits. Here the conjunction of the properties is inductive: `PermitsMatchRuns` counts
the threads with a run in progress, and the proof follows the cardinalities as one thread moves
from one group to another (`StepMoves`, `InvCounts`, `InvCountsPrime`). `FreePermitsSpokenFor` is the
argument that `notify_one` suffices: while somebody is parked, the free permits are at most as many
as the threads on their way to one. `WaitersHoldNothing` (`NoSelfDeadlock`) is a part of it: nobody waits for a permit with one in hand.

Only model-checked: liveness (out of the prover's reach), and tile execution for point-sampled graphs, whose
read plans depend on all nodes between.

## 5. Not modelled

* Pixel arithmetic: what the operations compute from pixels, colour, and resampling by fractions, whose
  positions are floating point (`reduceh.rs:112-117` even accumulates them). It is most of the code by lines, tested against
  reference images, and the reason why the map covers a small share of the repository. Of the spatial and composite
  operations the eighteen whose geometry is whole numbers are modelled; bands, blends, draws and statistics have none.
* In tile execution: source slots driven by coordinates (`execute.rs:748-790`), columns of a region (the geometry of both
  axes is in `TileDemand`), profiling.
* The sequential branch of the scheduler (one thread, a loop) and `run_with_reducer`. They share the planning and the sinks that are modelled.
* A decoder that enters rayon from inside a tile, so that its worker executes another tile in the meantime.
* Codecs: TIFF pyramids, OpenSlide, animated WebP, metadata, `max_dimension`, a file that changes on disk between probe
  and decode. The PNG session's behaviour after an error depends on the png crate; OpenSlide's copies on a
  file system that the code does not fix; the WebP frame cache is the tile cache in small.
* Poisoned mutexes: no code panics with one of the modelled mutexes held.
* Image API, ports, tooling: no state shared between threads.

## 6. Plan

Done, the most shared first: file sink with its abstract writer and proofs; double buffer sink; planner and
proofs; scheduler and proofs; the composition and its proof; limiter, line cache, tile cache and their proofs; compile and tile execution, with the
proof of the buffers, the tiles and the slices; decoder source and its proofs; the geometry of the operations and its proof; the double buffer sink's proofs.

Left, in this order:

1. `PngSession`: take, decode, store between several threads, after an error and on a replaced file;
   `SlideCopy`: the runtime copy with a crash between create and write, and restart.
2. Nested decodes: a worker that executes another tile while its decoder waits, and the thread-local buffers.
3. `DoubleBufferRun`: the scheduler with the double buffer sink.
4. Regions of resampling by fractions, as intervals.
5. Proofs of `TilesCorrect` and `SlicesInBounds` for graphs that sample points.
