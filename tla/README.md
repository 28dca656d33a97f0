# Verification of dimlox

dimlox is a command line tool that cuts, moves and looks into large files on the
local disk, in Google Cloud Storage and in Azure Blob Storage. This directory
holds TLA+ models of its split, transfer and inspect subsystems and of what decides
whom a command speaks to (URIs, credentials, `doctor`), the TLC configurations that
check them on small instances, and TLAPS proofs for every value of the constants.
Paths below are relative to the repository.

- [Inventory](#inventory): the parts of dimlox and what makes them correct
- [Modules](#modules): which module models which part, and how
- [Runs](#runs): what is checked, within which bounds
- [Findings](#findings) and disagreements noted without a run
- [Proofs](#proofs)
- [Not modelled](#not-modelled) and [Plan](#plan)

## Inventory

| Part | State it keeps | Operations | What makes it correct |
|---|---|---|---|
| `internal/split` writers (`writer.go`, `manifest.go`), `internal/fileutil/atomic.go` | open `.part` files, a closed flag per writer, byte counters and hashes | open, write, close (flush, rename), abort | a final name shows a whole file or none; the manifest describes what is on disk; temporaries are removed |
| `split/stream.go` | line reader, header line, shard in progress, planned shard of a dry run, result | read a line, rotate, close, record | every row once, in order; the rotation rule |
| `split/rangesplit.go` | offset, carry between blocks | probe for the header, read a block, cut lines | seams between blocks do not show; the loop ends |
| `split/binary.go` | bytes missing from the shard, EOF flag | open, copy, drop the empty shard | shards of exactly the asked size |
| `split/common.go`, `preflight.go` | none (choices before the run) | resolve mode and names, estimate the longest path | no output has a longer path than the one checked |
| `transfer/download.go`, `common.go` | `.part`, error of the worker group | stat, fetch by ranges or as a stream, verify, remove, rename, clean up | the destination is faithful, or as it was |
| `transfer/upload.go` | gzip temporary | gzip, seek, send, commit, clean up | an object is replaced as a whole; no temporary stays |
| `transfer/copy.go`, `plan.go` (execution), `cmd/dimlox/cp.go`, `exit.go` | counters, list of failures | copy through a landing file, go on or stop, exit code | the batch does what its plan says and reports it |
| `transfer/plan.go` (building), `glob.go`, `filelist.go` | sources so far, normalised destinations seen | expand, read lines, map, validate | the plan is all that was asked; no two transfers meet |
| `transfer/progress.go` | `current` (atomic), `done` channel, a printing goroutine | Observe, Start, Finish | the output never contradicts itself; the goroutine ends |
| `provider/gcs`, `azblob`, `local` | clients | Stat, List, OpenReader, DownloadFile, UploadFile | as the transfer parts need them |
| `inspect/sample.go`, `wc.go` | a buffer growing backwards, a ring | head, tail, mid, count | what is shown is there, whatever the chunks |
| `inspect/detect.go` | dominant number of fields, best score | sample, encoding, rows, score, compare | only whole rows count; the order of a map does not |
| `uri` | none | parse, normalise, name | two spellings of a place are one place |
| `provider/gcs/auth.go`, `azblob/auth.go`, `cp.go` (legs) | none | precedence of flags, profiles, files, environment | the documented identity and project, the same in preflight and transfer |
| `doctor`, `cmd/dimlox/doctor.go`, `providers/factory.go` | statuses so far | probe, classify, exit code | it says what a client will meet |
| `appctx`, other commands | none | logging, flags | conversions |

**Interaction.** A command parses flags and calls one function of `split`,
`transfer` or `inspect` with a root context. `main.go:31-43` cancels that context
on a signal; a second signal within the double-tap window ends the process. The
`split` modes share the two writers and publish by `AtomicRename`. `Copy` calls
`Download` into the landing directory and `Upload` from there; a batch calls
`Copy` item by item. `Download` hands a `.part` to a provider, which writes it
from several goroutines; each of them calls back `progressReporter.Observe`.
`cp` puts the options of each leg together twice, for its preflight
(`cp.go:83`) and, merged with the global ones, for the transfers; `doctor` searches
for credentials by itself (`gcs/auth.go:235`) and then asks for a token as a client
would. Both are places where two computations have to agree.

**What is hard.** A kill or a failure between any two file operations; a signal
at any point of a loop; range requests that fail, end early or see a replaced
object while others still write; several failures in one batch; temporaries and
landing files whose names coincide with something else; seams between blocks,
chunks and probes; limits that are met exactly; two searches for one credential;
two spellings of one place. `PROJECT.json` lists these
hazards at their lines, with the properties aimed at them. Two hazards have no
property: two processes that share one `.part` name, and power loss (nothing is
synced before a rename); one is accepted by design (the old manifest of a
directory stays until the new one replaces it).

## Modules

| Module | Models | Composition |
|---|---|---|
| `SplitOutput` | shard writer, manifest writer, rename, abort, rotation, signal, kill | extended by the three modes |
| `StreamSplit`, `RangeSplit`, `BinarySplit` | the three readers and their loops | extend `SplitOutput`, refine `SplitContract` |
| `SplitContract` | abstract: shards appear one by one, each continuing the last; the manifest last | |
| `SplitPlan` | mode, names and preflight of split | |
| `Download` | one download with its workers, another client, another process | refines `GetContract` |
| `GetContract` | abstract: what may happen to a destination path | |
| `Upload` | one upload to each kind of destination | |
| `CopyBatch` | a batch of copies, exit code | takes the outcomes of `Download` and `Upload` as one step each |
| `Uri` | what a URI stands for, its normal form, the name of its copy | functions, used by the next three |
| `Credentials` | identity and project of a GCS request, doctor's own search, the options of a leg, Azure profile directories; and the documented orders | functions, extends `Uri` |
| `CopyPlan` | building and validating a plan, and the check of its GCS legs | extends `Credentials`; its results are the plans `CopyBatch` starts from |
| `Doctor` | the probes of `doctor`, their statuses, the exit code | extends `Credentials` |
| `Command` | cp's plan, split's preflight or doctor | composes `CopyPlan`, `SplitPlan`, `Doctor` |
| `Progress` | counters, `Observe`, the printing goroutine | |
| `Sample` | head, tail, mid, line count | |
| `Detect` | the sample, the encoding and the delimiter of `--detect` | |
| `Inspect` | one of the two | composes `Sample` and `Detect` |
| `Console` | what a command tells: progress or inspect | composes `Progress` and `Inspect` |
| `<Module>_proofs` | theorems about `StreamSplit`, `RangeSplit`, `BinarySplit`, `Download`, `Upload`, `CopyBatch`, `Command`; `Command_proofs` holds those about `CopyPlan`, `SplitPlan`, `Doctor`, `Credentials` and `Uri` too | each extends its module |
| `ProgressInspect_proofs` | theorems about `Progress` and about the samples of `Inspect`, which share nothing | extends both |

`MC<Module>` gives the constants of an instance their values. A definition marked
`(fault)` is the one below it with a plausible bug seeded (a dropped check, an
off-by-one, a missing cleanup). It is used by no specification; substituting it
shows that the property named with it in `PROJECT.json` notices.

### Conventions

One variable `pc` says which statement of the run is next. A step goes from one
point where something outside can be seen or can happen (a file operation, a
read, an entry to a loop) to the next, and takes with it everything the code does
in between. Every operation that returns an error has a disjunct in which it
does. `Cancel` is the signal, `Crash` the death of the process: both are possible
at every step. A file is a record of what it holds; `None` is no file and `Old` a
file from before the run. Options, sources and directories come from constant
sets (`Job`, `Opt`, `Disk`), so a theorem speaks about all of them.

### SplitOutput and the three modes

`shardFile` and `shardPart` are the final and `.part` names per index, `manFile`
and `manPart` those of the manifest; `shard` and `man` are the two writers with
their closed flags, `dry` the `dryShard`, `result` the entries. A file is its
rows, whether the header was written and whether it is *whole* (flushed and
closed). `FlushShard`, `UnlinkShard` and `RenameShard` are the parts of
`shardWriter.Close`; the closed flag is set by the first, as in the code, so that
a failure after it leaves the `.part` to nobody: `TempsCleanedUp` says exactly
which temporaries may stay. `Windows` chooses the branch of `AtomicRename`.
`CountAfter` is the byte counter: exact for plain output, and for gzip any number
up to the bound `GzBurst` per call, since compression holds data back.

`StreamSplit` reads line numbers; the last line comes with or without `io.EOF`
(`newline`). `RangeSplit` reads bytes tagged with the version of the object they
come from, through blocks and header probes, and cuts them at newlines; a
replacement is a step of the environment, and a range beyond a shorter
replacement fails or is empty. `BinarySplit` fills shards by reads of any size up
to the room left.

In `SplitContract` shards are sequences of source positions. Range split of an
object that is replaced makes no such promise (bytes of two versions are mixed),
so `RangeSplit` maps those runs to a contract that does nothing, and
`LinesKept` says what is left of it: no line is lost, and each position is read once
and is in one place. A binary split without a limit on bytes splits nothing.

### Download and GetContract

`dest` and `part` are the two names, `worker` the goroutines of the errgroup with
position and outcome, `failed` its first error, `version` the current state of
the object, `meta` and `size` what Stat and the provider's own request returned.
A byte is a pair of version and position, `Hole` one nobody wrote. Each range
request sees the version of its moment. `Faithful` states what the code can
promise about content: all of the version, when nobody replaces the object or a
checksum is verified; never a mixture, when it came by one stream.

`GetContract` has one old file and one new one. A file another process creates
during the run is invisible to the code, which looks once (`common.go:165`), and
is mapped to absence. The Windows branch of `AtomicRename` is not repeated here.

### Upload, CopyBatch, CopyPlan

`Upload` counts pieces; a gzip temporary has one more (the trailer). `Begun`,
`Send` and `Commit` follow the provider: the local one truncates the destination
and writes in place, GCS publishes what was sent when the writer is closed (also
after a failed read of the source, `gcs/client.go:178`), Azure commits a block
list. The answer to the commit may be lost.

`CopyBatch` names a location's content by the location that held it first, so
that "plain copies one after the other" can be computed and compared. `Land`
gives the landing path of a basename; it may be the source or the destination.
`CopyPlan` takes the arguments of `cp` as URIs of `Uri`, expands globs and transfer
files, joins and normalises destinations and refuses what collides, as
`PlanTransfers` does; whether a listed key matches the pattern is part of the
listing. Its last step is the preflight of `cp`: when a leg is on GCS its options
must resolve. `PlanIsExact` compares the plan with what the arguments ask for; of a
refusal it says that the globs match more than `--max-sources`, or, where a plain
source stands before a glob, that there are more sources in all (what counts then is
disputed, see [Findings](#findings)). `OneTransferPerPlace` speaks of places (`Place`),
not of the normal forms the code compares. `LegsAsDocumented` compares the merged
options the transfers use with `DocumentedOptions`: a leg's own flags, then the global
ones, which a credential file of the leg overrides (`docs/usage/cp.md:181`). The
identity is always the documented one. The project is, except for a leg with such a
file beside a global project or profile that it does not replace
(`FileBesideGlobal`), where two documents contradict each other.

### Uri, Credentials, Doctor

A URI is cut at its slashes; a segment is a value, and `Escaped` and `Decoded` say
what URL escaping makes of it. `Credentials` reads a *world* (files, profiles,
environment, default credentials, metadata server) that does not change during a
command. `ClientIdentity` is what the client is made with, including the search of
the Google SDK (external, from how `NewGCSProvider` uses it); `Detected` is the
search `doctor` does by itself; `DocumentedIdentity` and `DocumentedProject` are the
orders of `docs/setup/gcloud-storage.md`. `Doctor` has one step per probe. A slow
metadata server may answer one of its two searches and not the other.
`DoctorForetells` and `ExitTells` relate what it says to what `ForURI` and a client
made with the same options will meet: the code is 0 when, and only when, all that is in
scope works, never 70 when all credentials work, and 70, without a target, whenever the
credentials of a provider in scope fail. Of a *missing* Azure profile or login they
promise only that the code is not 0, since the code gives 1 where the document gives 70
(see [Findings](#findings)). They promise nothing where `CLOUDSDK_CONFIG` moves the
default credentials for dimlox and not for the SDK.

### Progress, Sample, Detect, SplitPlan

`Progress` has one step per atomic operation, channel operation or print, with the two
locals of `Observe` per worker. `interactive` chooses between the two ways of `Finish`:
elsewhere it prints a last line with the count, on a terminal it only ends the line that
the loop keeps writing over, so the last count a terminal shows is that of the last
tick. `OutputConsistent` says of both that the last line is there once when `Finish` has
returned, and of the first that it tells all that was moved. `Sample` numbers bytes from
0 and knows of each only whether it is a newline. The middle of a compressed source is
left out: which lines it shows depends on how far the decompressor reads ahead. `Detect`
knows of a row whether it is blank and the number of fields each delimiter makes of it;
`Meet` is one turn of the loop over a Go map, in any order. Confidence, a quotient with
a square root, is compared exactly, by squaring. Encodings are looked for in real bytes,
of texts over four kinds of characters: ASCII (`A`), a wide one without a null byte in
UTF-16 (U+4E2D), one whose low byte is null (U+4E00), and one beyond the first plane
(U+1F600). The third kind leads `likelyUTF16Order` to the other order, the fourth
`likelyUTF32Order`; `EncodingIsRight` names the texts for which it speaks, and its
comment what is told of the others. `SplitPlan` takes a path for its length; radix and
width of the shard index are constants, and `Power` is the radix to a number of digits.
It keeps apart what is opened and what becomes an output: `DropShard` is the empty
`.part` a binary split opens after a source that ends where a shard does, which the
preflight does not count and which may be one longer than all it counted.

## Runs

All runs check for deadlock; every module has an `Ended` step that stutters in the
final states, so that a run that stops elsewhere is reported.

| Run | Question | Properties |
|---|---|---|
| `StreamSplit` | Do shards, manifest and temporaries stay right whatever fails? | `TypeOK` `FinalShardsWhole` `ManifestDescribesShards` `TempsCleanedUp` `LayoutIsGreedy` `ImplementsContract` |
| `RangeSplit` | Do seams, probes and replacements show? Does the loop end? | `TypeOK` `LinesKept` `LayoutIsGreedy` `RunEnds` `ImplementsContract` |
| `BinarySplit` | Exact slices with short reads, on Windows; is the empty last shard removed? | `TypeOK` `ShardsExact` `TempsCleanedUp` `VanishesOnlyForReplacement` `ImplementsContract` |
| `Download` | Is the destination right, in every order of requests and failures? | `TypeOK` `WorkersContained` `TempsCleanedUp` `OldGoesForReplacement` `ImplementsContract` |
| `Upload` | Is an object replaced as a whole, and the temporary gone? | `TypeOK` `WholeOrNothing` `TempManaged` |
| `CopyBatch` | Does a batch do what plain copies would, and nothing else? | `TypeOK` `BatchFollowsPlan` `LandingManaged` |
| `Command` | Is the plan what was asked, under the documented credentials? Does the preflight cover the outputs? Does doctor tell the truth? | `TypeOK` `PlanIsExact` `OneTransferPerPlace` `LegsAsDocumented` `PlanCoversOutputs` `DoctorForetells` `ExitTells` |
| `Console` | Can the printed output contradict itself, on a terminal or elsewhere? Does the goroutine end? Is what inspect shows there, and what it detects right? | `TypeOK` `OutputConsistent` `LoopEnds` `SamplesAreRight` `VerdictIsRight` `EncodingIsRight` |
| `DocExitCode` | violated: the worst class decides the exit code | `ExitIsWorst` |
| `DocSourceGone` | violated: a copy leaves its source | `SourcesSurvive` |
| `DocGcsGlob` | violated: a glob on GCS is planned | `GlobsArePlanned` |
| `DocMaxSources` | violated: `--max-sources` limits what globs match | `LimitIsForGlobs` |

### Bounds, and why they are enough

- **StreamSplit**: 0, 1 and 4 lines of sizes 1, 2, 1, 2; limits of two rows, of
  three bytes, and of both; with and without header, manifest, gzip, dry run and
  final newline; a clean directory, one of a finished and one of a killed run. Four
  lines give a header and three rows, hence one full shard and a partial one, or
  three shards; a limit is reached exactly, passed, and not reached.
- **RangeSplit**: every set of newline positions in objects of 0, 1 and 5 bytes,
  blocks and probes of 2 bytes: a line spans up to three blocks, the last block is
  short, headers need one to three probes. Replacements cut elsewhere, are shorter
  (a range then starts before, at or behind the end), empty or longer.
- **BinarySplit**: limits 0, 2, 3, 5 around a buffer of 3; sources of 0, 1, 6, 7
  bytes, multiples of a limit and not.
- **Command**, split's part: radix 2 and width 2 for 10 and 4, so the index widens at 4, 8, 16
  and 32; stems put the longest path below, at and above the limit. 32 binary
  shards are needed for a shard's name to be longer than the manifest's.
- **Download**: two or three ranges on one or two workers, with the last range
  short; replacements that are longer, equal, shorter, and shorter than the start
  of a range; streams for local and compressed downloads; with and without
  `--overwrite`, `--verify` and checksum metadata.
- **Upload**: 0 to 3 pieces for each kind of destination.
- **CopyBatch**: all plans of one and two transfers among a GCS object, an Azure
  object and a local file (chains and swaps included), one of three transfers, an
  empty one; a missing source, a leftover landing file, a destination that is another
  transfer's landing file; with and without `--keep-landing` and
  `--continue-on-error`.
- **Command**, cp's part: one or two arguments of any kind, three of a smaller set;
  listings of up to two entries with non-matching and prefix entries; limits 1 and 2;
  transfer files of up to three lines; spellings with doubled and trailing slashes,
  dots and escapes; for each leg, flags and profiles with and without project, file
  and override.
- **Command**, doctor's part: every state of the override and environment files,
  default credentials absent, unusable and sound; metadata server up, slow and down;
  with and without network, revoked tokens, each directory of an Azure profile; no
  target, and targets of each provider, there, not there, prefixes and unparseable.
- **Console**, progress: two workers of two pieces, two ticks. Two workers are enough for a
  report to be overtaken between `Load` and `CompareAndSwap`; both kinds of output.
- **Console**, samples: every placement of newlines in six bytes, in chunks of two;
  sources grown since Stat; counts 1 to 3.
- **Console**, detection: up to two rows of any kind over two delimiters and six rows
  of four kinds over three, with a limit of five, so that four rows in five agree
  exactly, fail to by one, and agree but for a row beyond the limit; every cut of the
  sample. Five encodings, with and without mark, texts of up to three characters of
  four kinds and up to five of two,
  samples that end within a mark, within a character and after the text.

The constants that exist only to keep an instance finite are `MaxLines`, `GzBurst`,
`MaxTicks` and the sets `Job`, `Opt`, `Disk` and `ShardId`.

### Fairness

Only two runs need it. `RangeSplit`: weak fairness of `Advance`, the steps the run
takes of itself as far as its reads succeed, because a step is the next statement of the
only goroutine. A failing read is not among them (unless the run is cancelled), so that
no failure ends a loop that would not end by itself; nor are signals, kills and
replacements. The bug seeded for `RunEnds` goes on after an empty block instead of
leaving the loop, with an offset that no longer moves. `Console`: weak fairness of
each worker, of `Finish` and of the printing goroutine (the Go scheduler runs
every goroutine that can run); strong fairness of a worker's return (it moves
finitely many pieces) and of `TakeDone`, because `select` picks among ready cases
at random and so does not pass the closed channel over for ever.

## Findings

Four disagreements have a run:

- `DocExitCode`: the batch computes the worst failure class, but `exitCodeFor`
  (`cmd/dimlox/exit.go:52`) looks through the joined error for a full disk first.
  A batch with an authentication failure and a full disk exits with 33, where
  `docs/usage/cp.md:203` says 70.
- `DocSourceGone`: the landing path of a local source in the landing directory (by
  default the working directory) is the source; the deferred removal
  (`transfer/copy.go:36`) deletes it after the upload.
- `DocGcsGlob`: the listing of a GCS glob is asked for as `gcs://...`
  (`transfer/glob.go:115`), a scheme `uri.Parse` does not know, so every such glob is
  refused; `docs/usage/cp.md:16` shows one.
- `DocMaxSources`: `resolveSources` (`transfer/plan.go:137`) takes the plain sources named
  before a glob from `--max-sources`, and none named after it; a plain source and a glob
  that matches exactly as many files as the limit are refused. `docs/usage/cp.md:41` and
  the help of the flag (`cmd/dimlox/cp.go:130`) speak of what globs resolve to.

Others were met while modelling, as behaviours of the models, and have no run:

- `docs/usage/split.md:191` "interrupted run -> incomplete shard stays as `.part`":
  `Abort` (`split/writer.go:40`) removes it; only a kill leaves it.
- `docs/usage/split.md:252`, dry run of compressed output "still gives you shard count":
  with a byte limit the real run rotates on compressed bytes (`split/stream.go:176`),
  the dry run on plain ones. `LayoutIsGreedy` leaves this case out.
- `docs/usage/split.md:27` "maximum shard size": a text shard closes *after* the row
  that reaches the limit.
- `docs/adoption/recipes.md:22` "audit trail for every shard": a run that fails removes
  its manifest and keeps its shards.
- `--mode binary --rows N` passes `common.go:113`, copies nothing and reports success
  (`binary.go:94`).
- ADR-0001 line 127 says renames overwrite atomically on Unix; `finalizeOutput`
  (`transfer/common.go:184`) removes the destination first on every platform, and a
  failed rename then loses both files.
- Without `--overwrite`, a destination created during the download is replaced.
- A local destination that is its own landing path is emptied, then removed, and `cp`
  reports success (`provider/local/client.go:168`).
- Local downloads and the batch loop do not look at the context
  (`provider/local/client.go:143`, `transfer/plan.go:103`), although `main.go:34` says
  in-flight operations stop.
- `--mid` of a cloud object reads one window of 4 MiB and prints the line its end cuts
  (`inspect/sample.go:348`). `SamplesAreRight` leaves this case out.
- The preflight bounds the number of text shards by the size, which for a compressed
  source is the compressed one (`split/preflight.go:83`). Binary mode opens one shard
  more than it counts when the source ends at a limit (`split/binary.go:36`); where that
  index is the first with one more digit its `.part` is one longer than the path looked
  at, and on Windows it may fail to open when all shards are published.
  `PlanCoversOutputs` states this exception and no other.
- Without a mark, `--detect` takes UTF-16 with as many nulls as ASCII has for UTF-32
  (`inspect/detect.go:193`), UTF-16 without nulls for UTF-8, UTF-16 with nulls in low
  bytes (U+0100, U+4E00) for the other order (`detect.go:175`), and UTF-32BE of
  characters beyond the first plane for UTF-32LE. `EncodingIsRight` claims nothing of
  these texts.
- A file of two columns in which one row of five lacks the delimiter is not recognised:
  four rows in five agree, but the mean is below two (`detect.go:330`).
- `docs/usage/doctor.md:146` gives 70 for "authentication or credential setup failed"; a
  status of kind "setup" makes `doctor` exit with 1 (`cmd/dimlox/doctor.go:75`).
  `ExitTells` claims of it only that the code is not 0. With a target, an error of the
  SDK exits with 70 or 1, depending on its words (`exit.go:100`), and a malformed URI
  such as `azblob://account` with 1, where an unknown scheme gives 40.
- doctor's search for default credentials honours `CLOUDSDK_CONFIG` (`gcs/auth.go:372`),
  the SDK's does not. `DoctorForetells` leaves the case out.
- `docs/usage/cp.md:181` says that a credential file of a leg overrides the global
  `--gcp-profile` and `--gcp-project` for that leg; the code keeps the project of either
  in force, as the order at `docs/setup/gcloud-storage.md:290` has it, and a missing
  global profile still makes the leg fail. `LegsAsDocumented` claims nothing of the
  project there.
- The keys of a listing become URIs again and are parsed: a name with a space or a
  percent sign becomes another one, and a `?` in a cloud glob begins a query.

## Proofs

The theorems hold for every value of the constants that their modules' named
assumptions allow. Each invariant is proved by an inductive one, `IInv` or a named
counterpart; there is one lemma per action or group of actions, with a step per
conjunct that it can disturb, and the temporal theorem follows by propositional
temporal logic.

| Module | Theorems, and the property each states |
|---|---|
| `StreamSplit_proofs` | `TypeCorrect` (`TypeOK`), `GreedyLayout` (`LayoutIsGreedy`), `WholeShards` (`FinalShardsWhole`), `SourceOrder`, `Completeness`, `ManifestTruth` (`ManifestDescribesShards`), `Cleanup` (`TempsCleanedUp`), `OutputsStay`, `ReplacementReady` (`VanishesOnlyForReplacement`), `CancelHeeded`, `DryRunIsDry`, `Refinement` (`ImplementsContract`) |
| `Download_proofs` | `TypeCorrect` (`TypeOK`), `Contained` (`WorkersContained`), `CleanedUp` (`TempsCleanedUp`), `OldGoes` (`OldGoesForReplacement`), `Refinement` (`ImplementsContract`) |
| `Upload_proofs` | `TypeCorrect` (`TypeOK`), `AllOrNothing` (`WholeOrNothing`), `TempCorrect` (`TempManaged`) |
| `RangeSplit_proofs` | `TypeCorrect` (`TypeOK`), `LinesSurvive` (`LinesKept`), `GreedyLayout` (`LayoutIsGreedy`), `Refinement` (`ImplementsContract`) |
| `BinarySplit_proofs` | `TypeCorrect` (`TypeOK`), `ShardsAreExact` (`ShardsExact`), `Cleanup` (`TempsCleanedUp`), `ReplacementReady` (`VanishesOnlyForReplacement`), `Refinement` (`ImplementsContract`) |
| `CopyBatch_proofs` | `TypeCorrect` (`TypeOK`), `FollowsPlan` (`BatchFollowsPlan`), `LandingKept` (`LandingManaged`) |
| `ProgressInspect_proofs` | `TypeCorrect` (`TypeOK`), `Consistency` (`OutputConsistent`); `SamplesRight` (`SamplesAreRight`), `VerdictRight` (`VerdictIsRight`), `EncodingRight` (`EncodingIsRight`) |
| `Command_proofs` | of the composition the run `Command` checks: `PlansAreTyped` (`TypeOK`), `PlansAreWhatWasAsked` (`PlanIsExact`), `PlansDontCollide` (`OneTransferPerPlace`), `PlansHaveTheirLegs` (`LegsAsDocumented`), `PreflightIsEnough` (`PlanCoversOutputs`), `DoctorIsRight` (`DoctorForetells`), `DoctorExits` (`ExitTells`); and the same of each of the three commands by itself |

**StreamSplit.** None of the properties is inductive. That the shard about to be
published continues the one before it depends on what is in the `.part`, which
depends on where the reader is, which depends on the header and on what the last read
returned. `IInv` joins these facts: `ReaderInv` (what has been read at which point),
`WriterInv` (where in its life the shard writer is), `PublishedInv` (which shards
are out, and that the next one has to begin where they stop), `CarrierInv` (what
the open or closing file holds), `ResultInv`, `ManifestInv` and `TempsInv`. The
action properties need only `IInv` and the definition of the few actions that touch
the files (`WhoPublishes`). The refinement maps every step to a stutter but
`RenameShard`, which is `Publish`, and `RenameManifest`, which is `List`.

That the shards are the greedy cut of the source (`GreedyLayout`) needs a second
invariant, `LayoutInv`: at each point of the run the shards listed so far are the
first cuts of the layout (`ToldInv`), and the counters of the writer, or of the dry
run's `dryShard`, are those of the cut in progress at the row the reader is at
(`CutInv`). The layout is a recursive function over the rows; that it exists, and
what one more row makes of it, is shown by induction first.

**RangeSplit.** A row is put together from what several reads returned, and the line
it must equal is one of the object as a whole. `ReaderInv` and `LineInv` say which
stretch of the object the header, the line in hand and the carry are, and that the
row to come begins where a line ends; the second only as long as nobody replaced the
object, the first always. `ShardsInv`, `ProgressInv` and `CarrierInv` follow the rows
into the shard in progress and the published ones. `LinesSurvive` then has two
halves: every position read is in exactly one place, whatever replaced the object
between two requests; and what a successful run over one version published is its
lines. `GreedyLayout` follows the argument of stream mode with the row to come counted
by `Handed`, how many lines end before the first byte not yet handed on: a block moves
neither it nor the layout, wherever the block ends. Nothing is assumed of blocks and
probes but that they are positive.

**BinarySplit.** A shard is the concatenation of the pieces its reads delivered, a
recursion over the pieces. `PlaceInv` says where in the source the reader is in terms
of the shards so far and the bytes missing from the one in progress; that the empty
shard at an exact end is dropped, and no other, follows from it. `PartsInv` says that the
writer in progress holds the only `.part` of the run, so that nothing is left when it is
closed, aborted or dropped.

**Download.** The file is right at the end because of what each worker has written so
far: `FilledInv` says that every byte a worker counts as read lies at its place, as
long as the object has one version, and `WorkersInv` how far a worker is within its
range and that an error of one is remembered by the group. When `Wait` lets the run go
on, all workers of all blocks are back without an error; `Covered`, the arithmetic of
blocks, says that every byte lies in one of them, and `FetchedWhole` makes the whole
content of it. `ReadyInv` carries that, or what a checksum or the single stream
gives, to the rename, and `FaithfulStays` that a replacement of the object takes
nothing away from it. `SlotInv` counts the requests in flight. In the refinement only
`RemoveDest`, `Rename` and `Appear` change what the contract sees; the others stutter.

**Upload.** What a commit publishes is all of the content only because the gzip
temporary was whole before the first piece was sent; `TempInv` and `DestInv` follow
the two files from point to point.

**Progress.** `NewestInv`: the sum of the last addition is in `current`, or a worker
between `Load` and `CompareAndSwap` carries it, and no smaller sum can beat it there.
When all workers have returned it has therefore arrived, for any number of workers, and
what `Finish` prints elsewhere than on a terminal is all that was moved.
`TypeCorrect` bounds what is printed by what was moved: the total is the
cardinality of the set of pieces moved, a subset of pieces times workers.

**Sample.** The lines a reader has to return are a set of first bytes (`Wanted`), and `ReadInv`
says of each line kept how many of them lie before it: the lines a ring has let go of and those
kept earlier. With it the run of lines is the one promised as soon as the reader stops, and a
window that holds more lines than asked for is not read to its end (`WindowIsEnough`). That the
search from the back finds the right byte whatever chunk it stops in (`TailFinds`) is counting:
behind a newline there are as many first bytes as newlines (`StartsBehind`), so the
newline with the asked number of newlines from it on stands before the first line of the
tail, and if the buffer holds none, the tail begins at the first byte. When the
invariant was first checked, TLC found that in the composition an idle `Sample` could fail
(`Fails` excluded only the final states); its guard now names the states it fails from.

**Detect.** The property judges the rows by a set of positions in the source (`Evidence`),
the code by a list it fills; the list is the set, one for one (`EvidenceIs`), by induction
along the rows. `RowsInv` then says that `dominant` is the best of the numbers of fields
the loop over the map has met (`DominantInv`), which leaves no order to depend on, and
that of the delimiters behind that split all rows alike `best` is the one that wins, and
is valid if any is good enough (`BestOf`). That needs only two facts about the quotients
with a root that `BetterThan` compares: a score in which all rows agree beats any in which
they do not (`PerfectWins`), and between two of them the number of fields and the byte
decide (`PerfectTie`). The encoding follows from what the bytes of a character can be at
each place of it (`Fits`), which also shows that the text of none begins like the mark
of another; where nulls stand then tells the order (`Right16`, `Order32`).

**CopyBatch.** The reference is a fold: plain copies one after the other. The invariant
says that outside the landing files the locations are those after the first
`item` (or `item - 1`) of these copies (`CopiedInv`, `PlannedInv`), how the counters add up
(`CountInv`) and what became of each landing file (`KeptInv`, `RemovedInv`). The proof
of `LandingKept` found the earlier statement of `LandingManaged` too strong: a landing
path that is the destination of another transfer keeps what that transfer put there,
and is no leftover. It now speaks of `Landings \ Targets`, and the run has jobs in
which the two meet.

**CopyPlan, SplitPlan, Doctor.** `DistinctInv`: what has been checked so far are
distinct normal forms, and equal places have equal normal forms, which is the point
where the spelling of a URI matters. That the legs are those documented rests on lemmas
about `Credentials` (`ProjectAsDocumented`, `IdentityAsDocumented`): the nested choice
of the code is the first candidate of the documented list. `ShapesInv` types the lists
and gives that every URI that comes out of a listing, a join or a normalisation is one
that `Parse` would take. `ExactInv` compares, argument by argument, entry by entry and
line by line, what has been gathered with what the part of the arguments read so far
asks for (`WantedBy`, `GlobbedBy`, `NamedBy`). Its proof, too, found a statement that
was not quite true: a listed match without a name (a key that ends in `/.`) is passed
over (`transfer/glob.go:52`) and does not count towards `--max-sources`, so `Selected`
and `FromGlobs` now count matches that have a name. `SplitInv` says that the preflight
has computed the longest planned path; that no shard the run can publish has a longer
one, and the one it may drop at most one more digit (`OneWider`), follows from `Digits`
growing with the index, and that from powers of the radix growing, by induction.
`ProbesInv` says of each point of doctor which statuses there are and why. In `Command`
each part keeps its invariant while the others are idle.

**Recursive definitions.** Whatever is computed along a sequence (the layout, the
concatenation of pieces, the plan asked for, powers) is a recursive *function*. Each
proof module has one lemma `Induct`, induction over `Nat` for a set of numbers instead of
a predicate, proved from the well-foundedness of `<`; with it a function that satisfies
the recursion is shown to exist, after which the definition, a `CHOOSE`, equals it.

**Assumptions.** The named assumptions the proofs rest on say that options have the types
of their flags, sizes, counts and blocks are positive where the code makes them so, the
versions of an object are a sequence of sizes with newlines within them, a transfer
has finitely many workers, listings and lines of a file are sequences of written URIs,
shard indexes are positive numbers that include one per line, escaping maps segments to
segments, and that the markers `None`, `Old`, `Torn` and `Foreign` are no files. TLC
evaluates them on every run. The models assume besides that removing one's own temporary
succeeds, and that a kill ends the process but not the file system.

**Model-checked only.** Liveness (`RunEnds`, `LoopEnds`), which is out of the prover's
reach. Every other property of a passing run is stated by a theorem.

## Not modelled

- Two processes over one output directory or destination: the code has no lock and no
  exclusive creation, so a second run may truncate or rename the first one's `.part`
  at any moment, and there is no guarantee to state.
- Power loss: nothing is synced before a rename, so what a name shows afterwards is up
  to the file system.
- The pages and prefixes of the providers' `List`, and `ls`: conversions, without a
  decision. The resumption and retry the cloud SDKs do inside one request.
- `inspect`: the line ending told by `--detect` (the first one found), and the refusal
  of a compressed cloud sample, one test of a file name.
- `azblob/auth.go` sets `AZURE_CONFIG_DIR` for the whole process; a command uses one
  profile, so nothing is affected. The list of profiles and all printing.
- `appctx`, logging, and the commands that only turn flags into options.

## Plan

What is left, by what it would add:

1. The safety half of `RunEnds` and `LoopEnds`: a measure that every step of the program
   lowers, and that no state but a final one is without a step whose guard holds.
2. Assumptions that could be weaker, and proofs that could be shorter.
