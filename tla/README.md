# TLA+ verification of ESPCompressor

This directory holds a TLA+ model of the library under `src/`, the TLC
configurations that check it on small instances, and theorems about it that
TLAPS checks for every instance. The source is the reference: every definition
is translated from the lines that `PROJECT.json` ("map") names for it.

Check a module with `tlc -config X.cfg M.tla` (the pairs are in section 3), and
the proofs with `tlapm M.tla` for each module whose name ends in `Proofs` or
`Lemmas`.

## 1. The system

| Component | State | Operations | Interacts with |
|---|---|---|---|
| **Job manager** `async/compressor.*`: `ESPCompressor`, `CompressionJobHandle`, `CompressionJobControl` | `_config`, `_initialized`, `_busy`, `_activeJob`, `_lastResult`, `_nextJobId` under `_mutex`; per job `state`, `cancelRequested` (atomics) and `result` (under `job->mutex`) | `init`, `deinit`, the destructor, `compress`, `decompress`, `compressAsync`, `decompressAsync`, `cancel`; the worker; `finishAsyncJob` | application threads call it; each accepted job runs on a FreeRTOS task or a `std::thread`; `onProgress` and `onComplete` call the application, which may call back; jobs are shared by reference count |
| **Compression run** `runCompress` | block buffer, counters, whether the last block was final | one pass over a source | calls source, codec, format, sink; reads `cancelRequested` |
| **Decompression run** `runDecompress` | the header, the block header, counters | one pass over an archive | the same, the other way round |
| **Sources** `io/compression_io.*` | position, `_eof`, declared size | `open`, `read`, `eof`, `hasKnownSize`, `totalSize`, `close` | buffer, Arduino `Stream`, file |
| **Sinks** (dynamic buffer, fixed buffer, print) | staging buffer, `_open` | `open`, `write`, `commit`, `abort`, `close`, `bytesWritten` | the run's `ScopedIoSession` aborts and closes them |
| **FileSink** | `path.tmp`, `path.bak`, the destination, an open file | the same | the file system, `espCompressorEnsureDir` |
| **File system helpers** `util/fs_utils.*` | none | `espCompressorEnsureDir`, `espCompressorDirname` | a file system other tasks use too |
| **LzLite codec** `codec/` | a hash table, two offsets | compress, decompress a block | `MemoryBuffer` |
| **`.esc` format** `format/` | none | encode, decode headers, CRC32 | |
| **MemoryBuffer** `util/` | `_data`, `_size`, `_capacity` | move, reserve, resize, append, clear, release | the allocator |

What is hard about it: a job is driven by up to four agents at once (the
submitter, the worker, a `deinit()` caller, anyone who cancels), over two
mutexes and two atomics, with callbacks that re-enter the API, in the middle of
a run too; `deinit()` waits by polling, and the destructor relies on it; a file
is replaced by two renames, either of which may fail or be the last thing the
device does; a run has a dozen early returns and must leave its output alone on
all but one; an archive is whatever the source delivers; and a block of the
codec is a stream of lengths and offsets, each of which may be damaged.
`PROJECT.json` ("hazards") lists these at their lines, with the properties that
watch them.

## 2. Modules

    JobSlot            the promise of the job manager        <- implemented by -+
    Compressor         the job manager                       -------------------+
      MCCompressor       instance for TLC
      Application        callbacks inside runs, handles, the destructor  (EXTENDS Compressor)
        MCApplication      instance for TLC
        CompressorProofs   the job manager, its promise, the application  (TLAPS)
    FileSink           FileSink over a file system that fails and loses power
      Storage            on directories that others make too  (EXTENDS FileSink, INSTANCE EnsureDir)
        EnsureDir          espCompressorEnsureDir, call by call
        MCStorage          instance for TLC
        FileSinkProofs     the sink, alone and on those directories  (TLAPS)
    EscArchive         archives as records, and what they mean
    EscFormat          headers and CRC32 as bits
    Sinks              the sinks as a run sees them
      RunLemmas          about Sinks, EscArchive and EscFormat  (TLAPS)
      CompressRun        runCompress    (EXTENDS Sinks, EscArchive)
        CompressRunProofs    (TLAPS, with RunLemmas)
      DecompressRun      runDecompress  (EXTENDS Sinks, EscArchive)
        DamagedArchive     what runCompress wrote, damaged once  (EXTENDS DecompressRun, EscFormat)
          MCDecompressRun    the archives TLC tries
          DecompressRunProofs  (TLAPS, with RunLemmas)
    LzFormat           the block format of the codec
      LzCompress         compressLzLiteBlock
      LzDecompress       decompressLzLiteBlock
        LzLite             one after the other  (EXTENDS LzCompress, INSTANCE LzDecompress)
          MCLzLite           the blocks TLC tries
          LzProofs           (TLAPS)
    MemoryBuffer       the buffers of a program and their heap
      MemoryBufferProofs (TLAPS)
    NatLemmas          induction, recursive functions and FlattenSeq, for all the proofs  (TLAPS)

Operators that say in their comment that they are a bug the checks must notice
are no part of any next-state relation. They are the mutants of `PROJECT.json`:
each property is shown to fail when such a bug takes the place of the
definition it stands for.

### Compressor

An agent is an application thread or the worker of a job (named like the job).
`pc[a]` says where agent `a` is; each block under a lock and each atomic access
is one action, so that every interleaving the locks allow is explored. The
variables are the members of `ESPCompressor` and, as functions of the job, of
`CompressionJobControl`; `handles` and `completions` record what the client has
seen; `callJob` and `callError` are the local variables of an agent's call.

    init                     InitCall
    deinit                   DeinitCall, DeinitCancel, DeinitAwaitJob, DeinitAwaitSlot
    compress, decompress     SyncCall, SyncRun, SyncRelease, SyncPublish
    submitAsync              SubmitCall, RejectCallback, Spawn, ReturnHandle
    rejectAccepted...        SpawnFail, FailStore, FailResult, then finishAsyncJob
    the worker               WorkerRun, WorkerStoreResult, WorkerStoreState
    finishAsyncJob           FinishRead, FinishRelease, FinishCallback
    worker task              WorkerExit
    cancel                   Cancel

A run (`runSyncJob`) is one step with any result: the only part of this state
it reads is `cancelRequested`, so it is Cancelled only if that is set by the
time it ends (`CancelIsHonoured` of the two run modules is what justifies
this). A worker that is in `onComplete` may call the API exactly as a thread
does. `compress` and `decompress` are the same code here. Calls that return an
error and change nothing (a busy `init`, a refused `compress`) are stutters.

`JobSlot` is the promise, without locks, workers or polling: one slot, taken
only while the instance is open; every submitted job is settled, leaves the
slot, and is then reported exactly once. `Compressor` implements it under the
mapping `Promise` (holders: who is in the slot; phase: how far a job got).

### Application

Compressor with what an application does to it besides plain calls. A *frame* is
an invocation of a callback in the middle of something: of `onProgress` during a
run, or of `onComplete` of a refused submission inside `compressAsync`. It may
make any calls while the agent that invoked it (`runner[f]`) waits, so it is a
thread that exists only as long as it has a runner. The application may drop a
handle (`DropHandle`) and, when no thread is in a call, destroy the instance
(`Destroy`), while workers still run. `Owned(j)` says whose `shared_ptr` keeps
job `j`: `_activeJob`, the locals of a call, the handle, or what was given to
the worker, which a `std::thread` lets go of when it returns and a FreeRTOS
task, ended by `vTaskDelete`, never does (`HasFreeRTOS`).

### FileSink, EnsureDir, Storage

`file` is the directory: what `dest`, `path.tmp` and `path.bak` hold, a file
being the number of the session that wrote it and whether it is whole. Every
file system call is an action that may fail, and between any two of them power
may be lost, after which the next session starts with what is on the device.
The file system itself is external: rename is atomic; onto an existing name it
replaces or fails.

`EnsureDir` is the recursion of `espCompressorEnsureDir`, one action for each
`exists` and each `mkdir`, for several tasks at once: the frames of the
recursion are the prefixes of the path, so a depth says where a task is. A path
is the sequence of its names, doubled and trailing slashes being empty names.
The code returns what `mkdir` says and does not look again. Of a name that is
there by then, since another task was quicker or the same call has made it
under another spelling (`"/a"` before `"/a/"`), a `mkdir` may say true or false,
as its file system has it: the stub of the tests says true, POSIX false
(`MakePresent`). `overtaken` records whose call has looked in vain for what
another task made then.
`Storage` puts a FileSink on such a file system: `OpenDir`, which is any answer
in FileSink, is there the sink's own call, while another task makes directories
of its own; path.tmp can be made only in a directory that exists. Every
behaviour of it is one of FileSink (`StorageIsFileSink`).

### EscArchive, Sinks, CompressRun, DecompressRun

An archive is a sequence of records (header, block header, payload). A CRC is
the bytes it covers, a payload what it decodes to and its length. `Decode` is
the meaning of an archive, written over the whole sequence, and is what both
runs are compared with. A sink is a record; each of its calls is an operator on
the record and a set of errors it can return. The runs have one action per call
on the source or sink and per early return; every return goes through
`EndSession`, the destructor of `ScopedIoSession`. `Cancel` may come between
any two steps, and in `CompressRun` the file that is read may grow (`Grow`).

### EscFormat, DamagedArchive

`EscFormat` has the headers as bytes and the bytes as bits, at the widths of the
code, with CRC32 computed bit by bit as `espCompressorCrc32` does. A number of
64 bits is a sequence of bits and needs no arithmetic.

`DamagedArchive` writes the archives that `runCompress` can write of a short
input, however the source splits it into blocks, whichever of them are stored
raw, with a known size or without, with a final flag on the last block or an
empty block after it; damages each once (a byte, or a burst, of the header; a
field of a block header; a payload; a tail that is missing; a block that is
lost, repeated, or exchanged with the next); and gives it to `DecompressRun`,
the headers through `EscFormat`'s encoder and decoder. `NotCovered` is what no
checksum of the container covers: the order of blocks and, when the size was not
known, their number. `DamageIsNoticed` says that nothing else passes.
`WrittenIsRead` says that what was not damaged does.

The CRC of the header is computed, at full width, and compared. The CRC of a
block is `EscArchive`'s: the bytes it covers, with `Wrong` a byte that is in no
input. So what is shown of a block is that its bytes are compared with the CRC
of what was written before they count, and of the header that the comparison
itself notices the damage.

### LzLite

`LzCompress` and `LzDecompress` are the two functions, one action for each pass
of the compressor's loop and two for each pass of the decoder's. The hash is any
function onto the slots of the table, for collisions are all that matters about
it. The decoder's output buffer starts full of `Stale`, bytes that an earlier
block left there. `LzLite` compresses a block and decodes the result, or decodes
bytes that no compressor made. `TokenBase` is 16 in the code: half a token holds
numbers below it, a byte below its square, an offset below its fourth power.

### MemoryBuffer

The buffers of a program and the heap they share: construction, moves, `reserve`,
`resize`, `append`, `clear`, `release`, destruction. Sizes wrap as a `size_t`
does. Allocation may fail at any time, which changes nothing and is a stutter.
`demand` counts what the callers put in, without wrapping.

## 3. What the runs show

| Run | Module, cfg | Shows |
|---|---|---|
| `compressor_safety` | MCCompressor, `Compressor_safety.cfg` | the slot is exclusive; `_busy` and `_activeJob` are exact on every path; handles are truthful and final; `lastResult()` agrees with handles; `onComplete` at most once and last; configuration stable under a run; `deinit()` quiesces |
| `compressor_live` | MCCompressor, `Compressor_live.cfg` | every job is reported; `deinit()` returns; refinement of `JobSlot` with its fairness |
| `application` | MCApplication, `Application_host.cfg` | calls from inside callbacks return, except `deinit()` from `onProgress`, which never does; all the same every job is reported, the destructor returns and leaves nobody who uses the instance, and a job whose handle is dropped is freed |
| `file_sink` | MCStorage, `Storage.cfg` | the destination is whole at all times; a session ends as it reports; nothing stays behind; only a session after a power loss can lose the last output; `open()` refuses for a reason, and opens where the directory exists |
| `compress_run` | CompressRun, `CompressRun.cfg` | an Ok archive decodes to what was read, nothing follows its final block; failed and cancelled runs publish nothing; done is reported once; every run ends |
| `decompress_run` | MCDecompressRun, `DecompressRun.cfg` | the result is the meaning of the archive; no request for memory above the block size; nothing published by a failed or cancelled run; what was written is read back, at full width; damage is noticed wherever a checksum covers it |
| `lz_lite` | MCLzLite, `LzLite.cfg` | a block decodes to itself whatever the collisions and the window; on any bytes the decoder stays inside its buffers, lets no byte of an earlier block through, accepts only what could have been emitted, and ends |

Five runs refute something the repository says, each with a short trace:

* `compressor_done`: a test asserts, right after polling `done()`, that
  `onComplete` was invoked, and then that another job is accepted. The state is
  stored before either is true; a client that sees `done()` cannot count even
  on one of the two. The test passes because the window is short.
* `compressor_callback_thread`: the README has callbacks on the worker; a
  refused submission calls `onComplete` on the submitting thread.
* `file_sink_rename_failures`: with the publishing rename and the rollback both
  failing, `abort()` removes the only copy of the old destination.
* `compress_output_bytes`: `outputBytes` of a run into a buffer sink is 0.
* `application_freertos`: a FreeRTOS worker ends in `vTaskDelete`, inside the
  scope whose destructors would give back its reference to the job; so no job
  that had a worker is ever freed, with its source, sink and callbacks. On the
  host the same property holds (`application`).

Deadlock is checked for `MCCompressor`. Everything else stops by design (the run
is over, the sessions are used up, the block is decoded, the instance is gone),
so the other configurations say `CHECK_DEADLOCK FALSE`.

No run lists the type invariants of `CompressRun`, `DecompressRun`, `FileSink`
and `MemoryBuffer`: they are proved.

### Bounds

* `compressor_safety`: two threads and two jobs. A third agent appears with
  every worker, so up to four agents act at once: a submitter, a `deinit()`
  caller and two workers, the second one overlapping the first one's
  completion. Job 1 is `Reentrant`: its `onComplete` may do all a thread may.
  `Configs` has the default, a different one and an invalid one. Two errors of
  runs and one of the set-up stand for all, since none is treated differently:
  `ReadFailed`, which only a run has, and `NoMemory`, which both have. The
  threads are a symmetry set here. `compressor_live`: one job, without symmetry.
* `application`: one thread, one frame (so a thread is in a call, in its
  callback, or both), two jobs, the second submitted from a callback of the
  first or after the first's handle was dropped. A run ends with Ok or
  Cancelled, and workers can be created: errors are `compressor_safety`'s.
* `file_sink`: 3 sessions (one that breaks, one that recovers, one after), 1
  failing call in each, 2 power losses. Two failing calls in one session are
  the finding above. Two tasks make directories; the paths are `""`, `"/"`,
  `"/a/b"`, `"/a//b/"`, `"/f"` and `"/g/f/b"` with files at `/f` and `/g/f`, and
  `"/g/e"`, whose parent is there: no name, every spelling, and a file in the
  last place, in the middle and in none. One of the paths exists at first. Both
  tasks may want the same path, or share `/a`, so that each can be overtaken at
  either level; without `overtaken`, or without `Doubled`, among its reasons
  `RefusedForAReason` fails in this run.
* `compress_run`: block size 2 and up to 5 bytes: no block, a short one, a full
  one, several, and a short last one. Capacity 14 of the fixed sink lets one
  block pass (3 for the header, 2 for a block header, 2 for a payload, twice,
  and an empty final block) and not two and a half.
* `decompress_run`: blocks with every combination of flags, sizes 0 to 3 against
  block size 2 (so one beyond every bound), right, damaged and too short
  payloads, before or after a good block; archives cut at every record; and the
  archives of `DamagedArchive` for three bytes in blocks of two, where there are
  two or three blocks to lose, repeat or exchange. Header fields have their real
  widths; every value of every single byte is tried, and bursts of two and four.
  The fixed sink holds three bytes, as many as the input.
* `lz_lite`: `TokenBase` 2. Half a token is then one bit, a byte 0 to 3 and an
  offset 1 to 15, so that extended lengths of one byte and several, an offset at
  its limit, and a match one byte beyond it occur in blocks of up to 21 bytes.
  All blocks of up to 9 bytes over two values, runs of one byte (a match longer
  than its offset), and matches 11 to 17 bytes back; three windows; a hash
  without collisions, with some, and with nothing else. The decoder gets every
  string of up to 5 bytes, and ends of 3 bytes after extended lengths and an
  overlapping match, with every size up to 8.

### Fairness

`Compressor!FairSpec` is weak fairness of `Continue(a)` for each agent: an
agent inside a call keeps running. FreeRTOS and the host schedule every ready
thread, the polls of `deinit()` sleep in between, and a run ends (`RunEnds` of
`CompressRun`, under weak fairness of the run's own steps and sources that are
finite; in `DecompressRun` the archive is finite). No fairness is assumed of
calls: nobody has to submit, cancel or close. `DeinitReturns` excepts the one
behaviour in which it would not hold: others re-open the instance and keep
taking the slot.

`Application!ApplicationFairSpec` adds strong fairness where a callback can be
invoked: of the step after it, and of its return. Weak fairness would let a run
invoke `onProgress` for ever; the code invokes it once for a block and once at
the end, and a callback makes finitely many calls. The poll of `deinit()` has
weak fairness only, so a slot that is free now and then is not enough for it.

The steps of the codec have weak fairness (`LzLite!Spec`): a loop that is
entered goes on.

## 4. What is proved

Every theorem is for all values of the constants that the module's assumptions
allow. They are named in the modules that declare the constants, and ask for no
more than the types of the code: sizes are natural numbers, a block is not
empty, `Absent`, `None` and `Stale` are no values of the program. Six say more.
`Archives` of `DecompressRun` are any sequences of records that come in an order
a reader of bytes would give them (a header, then block headers, each followed
by a payload if it says so), with any contents. `Paths` and `Files` of `Storage`
are any sequences of names, and the root is no file. `TokenBase` of `LzFormat`
is any number above 1. `ConstantsAssumption` keeps apart the names of agents
and jobs, and says that no set-up fails with `Ok` or `Cancelled`. Of the errors
of runs it says nothing: they may be those that a submission is refused with
(`InvalidArgument`, `NoMemory`), and custom sources and sinks have their own.
`ApplicationAssumption` has the frames among the threads, no failing creation of
a worker on the host, and calls from callbacks in frames only. `MaxInput` and
`MaxOutput` are bounds of the models and may be any number. `DamageAssumption`
has an input and a block size that fit the fields of the header, and changes of
the header that reach over four neighbouring bytes at most, the first of which
does change.

Where an argument is an induction over a block, an archive or a path, it is
made with a set: `Induction` of `NatLemmas` says that a set of numbers with 0
and with the successor of each member is everything, and follows from
`LeastElement`. From it comes that a function defined by recursion over
`0 .. n` exists and equals its definition (`Recursion`, `Computed`), which is
how the bits of a number, the register of the CRC, the number that bits stand
for and the `FlattenSeq` of the community modules can be argued about.

### The job manager (`CompressorProofs`)

| Theorem | Property |
|---|---|
| `TypeCorrect` | `TypeOK` |
| `SlotIsExclusive` | `SlotExclusive` |
| `SlotIsAccounted` | `SlotAccounted` |
| `ConfigIsStable` | `ConfigStable` |
| `HandlesAreTruthful` | `HandleTruthful` |
| `LastResultIsFinal` | `LastResultAgrees` |
| `CompletionsAreLast` | `CompletionIsLast` |
| `HandlesAreFinal` | `HandleFinal` |
| `DeinitIsQuiet` | `DeinitQuiesces` |

that is, every property of `compressor_safety`. The argument is one inductive
invariant in three layers, each resting on the ones before:

1. `TypeInv`: `TypeOK`, and an agent whose step names a job has one (`HasJob`).
   Type correctness alone is not inductive: `jobResult[callJob[a]]` needs it.
2. `SlotInv`: the three slot properties together. None is inductive alone:
   exclusion follows from `_busy` being exact, and `_busy` can be cleared
   safely only because nobody else is in the slot.
3. `JobInv`: the life of a job. Until `onComplete` was invoked one agent owns
   the job (`OneOwner`); what it has done so far is known from where it is
   (`Steady`); jobs not submitted yet are untouched (`Fresh`). From this, state
   and result of a final job agree except in one window (`Consistent`), which
   no client can see, for the handle is not returned during set-up.

Each layer has a lemma for `Init` and one for `Next` with a case per action;
an action that does not touch what a layer speaks of is closed by one lemma.

`ImplementsPromise` is `Spec => Promise!SafeSpec`, the safety part of `JobSlot`,
from the same invariant. `HeldBy` and `PhaseOf` are the refinement mapping as
functions of the variables it depends on; a step either leaves them alone
(`Unseen`) or is one of the promise's (`PromiseSteps`). Exclusion is what makes
the mapping work: who leaves the slot leaves it empty.

For every number of frames too: what an application does are steps of
`Compressor` (`ApplicationIsClient`), so all of the above holds of it.
`DeinitFromProgressHangs`: who waits in `deinit()` leaves by `DeinitAwaitSlot`
alone (`DeinitLeaves`), which needs `_busy` clear, and it is not while a run
waits for its callback. `DestroyedIsUnused`: workers stay on their own path
(`WorkersWork`), from the destructor's entry on one thread at most is in a call
(`OneDestroyer`), and `_busy` is clear when it returns.

### Files (`FileSinkProofs`)

For every number of sessions and power losses. `DestinationIsWhole` is for every
number of failing calls: only whole files are ever renamed (`WholeInv`). So is
`NothingIsLeft`: as long as no call of a session has failed, what it is past
removing is gone (`CleanInv`), whatever it found. `RunsEndAsReported` and
`OnlyRecovery` assume one failing call in a session at most (`MaxFaults <= 1`),
and are false with two. `ReplaceInv` says where the old destination is at each
step of `commit()` and that a rollback comes after the failure that was to be
had, so that it works; `HistoryInv`, that without a power loss each session
finds what was published last.

`StorageIsFileSink` carries these over to `Storage`. What directories add is
`OpenedInItsDirectory` and `OpenFailsForAReason`, for any paths, any files in
the way and any number of tasks at the same time. `DirInv` has what a call may
rely on while others work: the directories are a tree in which every file has
its parents (`TreeInv`), so nothing is made without what is above it; a call
that is at a prefix of its path has found, or made, what is above that prefix,
and it stays found (`CallInv`); what a call has looked for in vain is still not
there, unless the call was overtaken or its path names a directory twice
(`MissedInv`); and a call that ended with false failed, met a file, or met such
a directory (`Trouble`). So a refusal that has none of the other reasons is a
race that was lost between `exists` and `mkdir`, or a slash too many, and then
only where `mkdir` says false of what is there. It may be retried: the next call
finds the directory. `MissedInv` is where this is decided: a
directory that is made was missed by whoever is overtaken from then on, and
without empty names two prefixes of a path never name the same (`SpeltOnce`).
`OpenInv` says what the sink knows of the answer. The lemmas before it are about
the spelling of paths: what the prefixes of `"/a//b/"` name, and what is above
them.

### The runs (`CompressRunProofs`, `DecompressRunProofs`, `RunLemmas`)

| Theorem | Property |
|---|---|
| `CompressRunTypeOK`, `DecompressRunTypeOK` | `TypeOK` |
| `FailedCompressionPublishesNothing`, `FailedDecompressionPublishesNothing` | `FailedRunPublishesNothing` |
| `CompressionCancelIsHonoured`, `DecompressionCancelIsHonoured` | `CancelIsHonoured` |
| `CompressionDoneReportedOnce` | `DoneReportedOnce` |
| `CompressionOkDecodes` | `OkDecodes` |
| `DecompressionIsMeaning` | `ResultIsMeaning` |
| `AllocationIsBounded` | `AllocationBounded` |
| `DamageIsAlwaysNoticed` | `DamageIsNoticed` |
| `WhatIsWrittenIsRead` | `WrittenIsRead` |

that is, every safety property that the runs check of `CompressRun`,
`DecompressRun` and `DamagedArchive`, for every source, sink, block size and
archive. `RunLemmas` says what each call does to a sink, once for all kinds of
sink. Then every step of a run either ends it (`Ends`, or `RunEnds` of the
decompression: with an error, through `EndSession`) or `Proceeds`
(`RunEndsOrProceeds`), so that what the dozen early returns have in common is
argued once. The invariants:

* `SinkInv`: what is staged, and what the destination holds, at each step;
  `CancelInv`: a cancellation that the run has not looked at yet came after its
  last look; `ReportInv`: `onProgress` was told of no more input than was read,
  and of the end last.
* `SourceInv`, `ArchiveInv` (compression): the archive so far is a header and
  `m` blocks that cover the input from `ends[j - 1]` to `ends[j]` (`Archive`);
  `Stage` says how far the run is beyond that, and that a block is final only if
  nothing followed it, or the file has grown since it was opened. A run that
  read more than the declared size is outside what `OkDecodes` promises, and in
  every other the source has not grown. `ChainMeaning` unrolls `Decode` along
  such a chain of blocks, from its end to its start.
* `PlaceInv`, `MeaningInv` (decompression): what was written, joined to the
  meaning of what is still to come, is the meaning of the archive, from the
  header to every return. `MeaningIs` unrolls `Meaning` by one block.

The two theorems about damage follow from `MeaningInv`, for the result of a run
is the meaning of its archive. What is left is what damaged archives mean.

* `Rest(h, d)` is the meaning of the records `d` under the header `h`.
  `Consist(w, c)` says of blocks `w` that they hold the input as `c` cuts it,
  whatever size each was stored in, the last of them final; all that
  `runCompress` writes is of this kind (`WrittenConsists`), once its block
  headers have been through bytes and back (`WrittenBlockIs`).
* Blocks before a damage mean their part of the input, put in front of what the
  rest means (`PrefixMeans`, by induction over them); blocks after it, the rest
  of the input (`SuffixMeans`, from the end). So one block has to be looked at,
  damage by damage: `DamagedBytes`, `DamagedEmpty`, `FlippedBlockMeans`. Each
  either means an error or what the block did. A block too many or too few
  leaves a sum that is not the declared size (`AllOrNothing`, `MiscountMeans`).
* A number written and read at the width of its field is itself (`WriteLeIs`,
  `RoundTrip`, `NumberIs`: the least of it and `Enough`), so both headers are
  read as they were written (`HeaderDecoded`, `BlockHeaderRead`).
* The header's CRC. One turn of a byte is injective and linear under `Xor`
  (`TurnedInjective`, `TurnedXor`). `Ahead(c, k)` is the register before byte
  `k + 1`, with the next four bytes added to it; it is all ones at the stored CRC
  exactly if the CRC is right (`CrcIsRight`), and moves on by a turn, to which a
  byte further on is added (`AheadNext`). Two headers that differ within four
  neighbouring bytes have different `Ahead` there, and turn by turn until the
  end: if the one is accepted the other is not (`CrcNotices`). This holds for
  changes in the stored CRC, and across its border, as well. No argument about
  the polynomial is needed but that its highest bit is set; a burst as long as
  the register is what such an argument covers.

### The codec (`LzProofs`)

For every `TokenBase`, block, window, hash and input of the decoder.

* `CodecStaysInside` (`TypeOK`): the compressor never looks at a byte beyond its
  block (`CompressType`), the decoder never beyond its input or its output
  buffer (`DecoderInv`), on any bytes. This rests on `MatchLengthIs`, `UsableIs`
  (a match is found within the window and agrees) and `LengthRead` (a length
  that was read ends inside the input).
* `DecoderForgets` (`NothingStale`): what stands before `outputOffset` is never
  `Stale`, for a match copies from before it.
* `BlocksDecodeToThemselves` (`RoundTrip`). The block and the archive are cut at
  the same points: `Encodes(d, x, y)` says that a sequence leads in `d` from one
  point to another, `Finishes(d, x)` that the last literals do to the end. While
  the compressor works its points lead to `Here` (`EmittedInv`); the decoder is
  always at one of them, or between the literals and the match of a sequence
  (`ReadBack`), and what it has made is what the block has there. It is there
  after its next step because a length and an offset read back as what was
  written (`LengthReadBack`, by induction over the bytes of an extended length,
  `OffsetReadBack`), and because copying a match that overlaps what it makes
  repeats the last `offset` bytes, as the block does there (`Periodic`, by
  induction over the match).
* `OnlyEmissionsAreRead` (`ReadsWhatIsEmitted`), for any bytes. At the top of
  the decoder's loop what was read so far is, byte for byte, what the emitter
  writes of the sequences it was taken for (`ParsedInv`, `ReadUpTo`); between
  literals and match it is so but for the half of the token that gives the
  length of the match (`HalfReadUpTo`), which the last sequence of a block
  leaves open. A length that was read is the one way to write it
  (`LengthIsEmitted`, by induction over its bytes), and one sequence more adds
  its bytes at the end (`EmittedAppend`).

### Memory (`MemoryBufferProofs`)

For every number of buffers, every heap and every width of a `size_t`: memory
has exactly one living owner, which knows its size (`MemoryIsOwned`), and sums
of sizes never wrap where a caller could notice (`BuffersHoldWhatWasPut`). The
invariant is the conjunction of the module's four; no part is inductive alone,
since growing needs both whose memory it is and how much there is. Two lemmas
carry the arithmetic: a wrapped sum that is not below one of its terms did not
wrap (`NotWrapped`), and the doubling loop of `grow()` ends with enough
(`NewCapacityFits`).

### Only model-checked

* Liveness: fairness and `ENABLED` are out of the prover's reach. That is
  `RunEnds`, `Terminates`, `JobsComplete`, `DeinitReturns`, the temporal
  properties of `application` other than `DeinitInsideRunHangs`, and the
  liveness part of `JobSlot`.

* `CheckValue`, the CRC of `"123456789"`: an assumption that no proof uses and
  that TLC evaluates. It ties `Polynomial` and the order of the turns to the
  CRC-32 everyone means; the proofs would do with another polynomial.

Every invariant that a passing run checks is stated by a theorem.

## 5. What is not modelled

* A thread inside `compress()` or `deinit()` while another destroys the
  instance: the destructor's contract, as in any C++ class, is the caller's.
* `std::thread` or `std::vector` throwing: the code catches nothing, so an
  exception from the creation of a host worker ends the call, with the slot
  taken, in the hands of the caller. FreeRTOS reports the same by a return value.
* `_nextJobId` wrapping after 2^32 submissions: ids are only shown.
* `espCompressorTestSimulateAsyncSetupFailure`, which is compiled for tests.
* Sums of `size_t` in the decoder of the codec (`codec.cpp:87`, `191`, `221`)
  are numbers without a width. With 32 bits they wrap only in a block whose
  stored form has some 16 MiB of length bytes.
* What a `MemoryBuffer` rounds a request up to, in the runs: `AllocationBounded`
  bounds what `resize()` is asked for, and the buffer takes the least doubling
  of its capacity (64 at first) that is enough: 64 bytes, or less than twice
  what was asked for. In `MemoryBuffer` the doubling is a closed form
  (`NewCapacity`) of the loop.
* A file sink whose commit fails on both renames, in the runs: `Sinks` lets a
  failing commit leave the destination as it was, which `EndsAsReported` of
  `FileSink` shows of one failure; of two it is false
  (`file_sink_rename_failures`).
* Which of two runs that overlap in publishing has the last word in
  `lastResult()`: `compress()` publishes after it gave the slot back, so an
  earlier run may overwrite a later one. The steps are in `Compressor`; nothing
  says what should hold.
* A file that grows for ever while it is compressed: the run goes on as long as
  it does. In `CompressRun` the growth ends at `MaxInput`.
* The second check of the configuration in `runCompress`: `init()` lets no
  configuration through that fails it.
* A source that declares a size it does not deliver, beyond that the run says
  Ok: `OkDecodes` excepts it, since nothing is promised for it.
* Two sinks on one path, or another writer of the destination between `open()`
  and `commit()`: `truncate = false` is looked at in `open()` only.
* Which memory (PSRAM or internal) a `MemoryBuffer` takes, and the bytes it
  holds: sizes and ownership are what can go wrong. There is no run of
  `MemoryBuffer`, because its theorems say more than one would.
* Public headers, compatibility definitions, tests, examples and build scripts
  have no behaviour of their own.

## 6. Plan

Done: the job manager, its promise and the refinement; the application around
it; FileSink, directories and their composition; both runs; the container at
the level of bits and of damage; the codec; MemoryBuffer. All of it is checked,
and its safety is proved.

Left: `Compressor` with a run whose steps are those of `CompressRun`, so that
`CancelIsHonoured` need not be carried over by hand.
