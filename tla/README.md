# fsspec-data: models, checks and proofs

This directory holds a verification project for fsspec-data, a library that converts tabular
data between encodings and schemas: TLA+ modules of the parts whose behaviour is hard to test,
TLC configurations that check them on small instances, and TLAPS proofs for every instance.
`PROJECT.json` maps each definition to the lines of source it models and lists the runs, the
properties, the hazards they are for and the theorems.

## The system

Encoded bytes are decoded to a stream of Arrow record batches, each batch is mapped from the
schema it has to the schema that was asked for, and the result is encoded again.

| Component | Code | State | Operations |
| --- | --- | --- | --- |
| Decoded batch stream | `rust/src/stream.rs` | options, cancellation flag, pending batch, row and byte counters, `finished` | `new`, `next`, `cancel`, `collect_batches` |
| Cast registry | `rust/src/plan.rs` 79-168 | none | `classify` |
| Schema planner | `rust/src/plan.rs` 286-750 | none (a plan is a value) | `plan_schema`, `plan_schema_with` |
| Plan execution | `rust/src/plan.rs` 230-283, `interchange.py` 62-75 and 230-305 | position of the source stream | `apply_batch`, iteration, `convert` |
| Codecs | `rust/src/codec.rs`, `rust/src/avro.rs` 22-115 | writer session, shared read cursor | encode, decode, writers, registry |
| Avro values | `rust/src/avro.rs` 117-268 | decoder with rows set aside | `push`, `flush`, `encode` |
| Python bindings | `rust/python/lib.rs` | one stream or one optional writer | iteration, `write_batch`, `finish` |
| Python codecs | `interchange.py` 78-198 | none | `encode_batches`, `encode_batches_to`, `iter_batches` |
| DataFileSystem | `filesystem.py` | cached sizes, provenance of the last conversion | `open`, `info`, `ls` |
| Schema resolution | `schema.py`, `confluent.py` | decoders and providers by name | `resolve`, fetch of one or all versions |
| JSON Schema translation | `json_schema.py` | none | `json_schema_to_arrow` |
| Converter registry | `converters.py` | routes, loaded flag | `register`, `load_entry_points`, `get`, `convert` |
| Xarray converters, backend stubs | `xarray_zarr.py`, `backends/` | none | |

A filesystem open (Python) resolves its schemas, opens the source, asks a codec (Rust, through
the bindings) for a decoded stream, makes a plan, applies it to every batch and feeds the
batches to a codec writer on a spooled file. Streams are pulled: nothing is read before the
consumer asks. The one piece of state two threads share by design is the cancellation token;
filesystem instances and the registries are shared by accident of caching and of being global.

What is hard here, and what makes each part correct:

- The **stream** re-cuts batches, so its position is spread over the source, the pending batch
  and two counters, which limits, errors, the end and cancellation interrupt at any point.
  Correct: rows arrive once and in order, limits bound what was received, the end means
  completeness, nothing follows an error, cancellation takes effect within one batch.
- The **registry** is a table of rules in order. Correct: a safe cast loses nothing.
- The **planner** is two implementations (by position, by name) of four policies, one with field
  operations that interact. Correct: every requested field is filled once, no provided field is
  lost in silence, policies agree where they overlap, and a plan that promises no loss keeps it.
- **Execution** exists twice, in Rust and in Python, and errors do not end a planned stream.
  Correct: output conforms to the schema; a conversion is all or nothing.
- **Writers** may fail between header, batches and footer; **Parquet readers** share a cursor;
  the **filesystem** caches what may change and is used by several threads; the **converter
  registry** loads lazily; the **Avro decoder** switches schemas inside a batch.

## Modules

| Module | What it is |
| --- | --- |
| `RowStream` | What a stream promises its consumer, without machinery (the abstract specification) |
| `DecodedStream` | `DecodedStream::next` in detail, with its token and its source |
| `DecodedStreamProofs` | The theorems about it |
| `MCDecodedStream` | The small instance for TLC |
| `CastRegistry` | `CastRegistry::classify`, and what each numeric type represents |
| `Planner` | Plans as values: the policies and the field operations |
| `PlannerProofs` | What every plan is, for schemas of any length |
| `Interchange` | Request, plan, planned stream and conversion |
| `InterchangeProofs` | The theorems about it |
| `MCInterchange` | Two families of requests for TLC |
| `CodecSession` | Writer sessions over sinks that fail, `encode_batches_to`, and what decoding answers |
| `CodecSessionProofs` | The theorems about them |
| `RangeReads` | What the Parquet reader is promised of its range reads (the abstract specification) |
| `SharedReader` | The range reads of one Parquet file, with its cursor and its lock |
| `SharedReaderProofs` | The theorems about it |
| `AvroValueDecoder` | Decoding Avro values of several writer schemas one by one |
| `AvroValueDecoderProofs` | The theorems about it |
| `ConverterRegistry` | Registering, loading and looking up converters from several threads |
| `ConverterRegistryProofs` | The theorems about it |
| `DataFileSystem` | Opens and infos of several threads on one filesystem object |
| `DataFileSystemProofs` | The theorems about it |
| `MCDataFileSystem` | Its small instance for TLC |

### DecodedStream

A call of `next()` is several steps, because a token may be set between any two of them: the
entry checks (`NextFinished`, `NextCancelled`, `NextLimitReached`, `NextEnters`), one step per
turn of the loop (`TakePending`, `PullBatch`, `PullError`, `PullEnd`), and `Cut`, which ends the
call in one of three ways. `pc` says where the call is and `inHand` what the loop broke out
with. The entry checks read the token once, as the code does; the loop does not read it.

Rows are numbered by the source, so a batch is a record of the rows before it, its length and
the offset still to deliver; what the rows hold makes no difference to this code. The Arrow
memory of a batch is a function `Memory` of its rows. A slice is charged with the memory of its
whole parent, as `get_array_memory_size` does. `options`, `pending`, `emittedRows`,
`emittedBytes` and `finished` are the fields of the struct; `outcome`, `firstRefusal`,
`status`, `delivered`, `memoryHeld` and `afterCancel` are history variables that only the
properties read.

`usize` arithmetic has two places that matter: `saturating_add` of bytes is modelled with
`UsizeMax`, and `limit - emitted_rows` is shown never to underflow (`CutsSomeRows`). The
assumption `LimitsAssumption` leaves out a byte limit of exactly `usize::MAX`, which a saturated
counter cannot pass and which therefore is no limit.

The stream implements `RowStream` under the mapping at the end of the module. `RowStream`
allows one thing a reader may not expect: a stream that was exhausted may still report a
cancellation, because the end of the source does not set `finished`.

### CastRegistry, Planner, Interchange

Types are strings, with `Nested` for every type the registry does not mention. `Classify` is
sets of pairs tried in the order of the rules. `Represents` is the independent reference: by
how many bits an integer type extends above and below zero, and what a float holds exactly.

A plan is a record, as is a rejection; its mappings and its additions are sets, because what
`apply_batch` makes of them does not depend on their order. Errors are named after
`InterchangeError` and are found in the order of the code. Rust iterates over hash maps in no fixed order, so when several names
of `renames` (or `drop`) are wrong `Plans` returns one rejection per possible error.

`Interchange` runs a request through planning and execution. A batch is one row, because both
implementations treat rows alike; a cell is an integer of so many bits and a sign, a fraction,
the digits of an integer, another word, or null. `engine` chooses the `apply_batch`: the Rust
core casts everything with `safe: false`, Python lets a lossy cast wrap; only Rust's batch
constructor refuses nulls in required columns. `caller` is who consumes: an iterator may go on after an error (`Continue`), `convert()` stops.
Arrow's casts themselves are external and modelled by their effect.

Arrays of type Null are a case of their own, because they have no null buffer: Rust's
`is_null(0)` and `null_count()` find no nulls in them. The planner takes a default as an array
with a type, and `None` becomes one of type Null (`interchange.py:349-352`), so the check of
`plan.rs:493` lets it into a required field. What happens next depends on who applies the plan:
Python emits the nulls, Rust refuses every batch, or passes it where the field is of type Null
itself. A provided column of type Null may likewise be declared as required and still hold nulls.
`NullsOnly` names the fields this is about; `OutputConforms` and `SafePlansKeepValues` say that
they are the only exception, and that it can be told from the plan, before there is any data.

### CodecSession

A session is what `start_codec_writer` returns: something at the start, parts for every accepted
`write_batch`, something at `finish`, as each format has it (`ArrowIpcCodec` and the records
after it). Bytes are left out: the sink holds a sequence of parts, the last of which may be torn.
Only Parquet's writer keeps parts back, any number of them, and passes them on later or when it
is dropped (`Pass`, `Drop`); that is Parquet's code, external to this one. Writing may fail
before, inside and after each part, the last when the sink is flushed (`Tear`). `Decodings` is
the other half of each codec: the answers a reader of the sink may get, so the properties relate
what was written with what is read back, and not with a layout.

The holder of a session may go on after any error. `encode_batches_to` (and `encode_stream` in
Rust) gives up at the first, be it the iterable's, a batch of another schema, a failing sink or a
failing finish, and drops the session without finishing it. That is what makes a broken Parquet
file unreadable (`FragmentsReadAsPrefixes`). The other formats give a reader no such sign: CSV,
JSON lines and Avro have no footer, and Arrow's stream reader takes the end of the data for the
end of the stream. A `finish` that fails
has already taken the writer, and calling it again returns without an error and without a
footer: neither call on a taken writer changes anything, so the module has no action for them.

A torn part remembers its batch, and readers differ in what they make of it. Arrow, Parquet and
Avro lose it (`"lost"`): a message, a column chunk or a block counts as a whole. Of JSON lines the
rows before the tear are read (`"rows"`). Of CSV so may be a row that is cut in its last column,
and then its last value is shorter than what was written, without an error (`"values"`). A tear
may also be an error to the reader, and a reader that regroups rows into batches of its own size
then loses some that were whole. What `FragmentsReadAsPrefixes` says, therefore: the rows that
arrive are those of a start of what was offered; if no error is reported, every batch that
`write_batch` accepted arrives in whole; and only the batch the encoder was writing when it failed
can arrive in part or with an altered value.

Left out: a reader of CSV or JSON lines without a schema, which is refused before it reads
(`required_schema`), and what a reader makes of what a holder writes behind a torn part
(`broken`).

### SharedReader

Every read of a `SharedReader` and every `get_bytes` takes the lock of the file, seeks to a
position of its own and reads, three steps between which others wait (`TakeLock`, `SeekTo`,
`Read`, `ReadRange`). Others are further readers and ranges, and the owner of the Python file,
who still has it and moves its cursor at will (`OwnerMoves`), but not while the lock is held: the
code does not exclude another Python thread between seek and read, no lock of this crate could,
and then the bytes would be wrong. The file may answer a read with fewer bytes than it was asked
for; it may raise, answer with something else or with too much, each of which leaves its cursor
anywhere (`FileFails`); or panic, which poisons the lock for all (`FilePanics`). Byte k of the
file is the number k, so a sequence of bytes says where in the file it is from. The refinement of
`RangeReads` keeps only what was asked for and what was answered. Errors do not show in it: a
reader that got an error may read on, and has seen what it had.

### AvroValueDecoder

`push` is a loop around the `Decoder` of arrow-avro, which takes a value token by token: a prefix
that names a writer schema, then a datum. The `Decoder` (external) has a room of `batch_size` rows
and one active schema; the prefix of another schema makes it stop until its rows are out, and so
does a full batch. `push` then sets the rows aside and decodes on (`GoOn`), until nothing is left
of the value or there is nothing to set aside. A value is one message, or one of the malformed
ones: empty, with something after it, cut inside its datum, and when framed cut inside or after
its prefix, or with an unknown schema. A row records the
schema it was written with and the one it was read with. Values are numbered as they are pushed;
`owed` is the set of those that are one message, and `due` is what it was at the last `flush`.

A value that ends inside a message (`cutShort`) leaves its mark in the `Decoder`. After a prefix
alone, which `push` takes whole and accepts, it still awaits a datum (`awaiting`), and takes the
next value for it from its first byte. Those bytes may happen to be a datum, which makes a row
of no value (`DecodeMisread`; the row has the number 0), with anything left behind it; or they are
part of one, as half a datum is (`DecodePart`). Of a part, some columns may keep a value
(`torn`): the next flush of rows of that schema fails, and they are lost (`SetAsideFails`).
What arrow-avro does exactly depends on the bytes and the schema, so all of this is a choice.

What the model shows, and leaves as it is: a push that returns an error may still have added a
row, which the next `flush` delivers (a message with something after it); an empty value and, when
framed, two messages in one value are accepted, although `avro.rs:179` says a value "must be
exactly one datum or framed message"; and after a value that ends inside a message, messages
may be lost without an error (`avro_values_lost`). `RowsOnceInOrder` promises completeness only
up to there; that a row comes once, in order, and is read with the schema it was written with
holds whatever is pushed. Left out: what the fields below the first level of a nested record keep
of half a datum, and a `batch_size` of 0, which the code does not refuse: such a decoder has no
room and takes no value.

### ConverterRegistry

`DEFAULT_CONVERTERS` is one object for the whole process and has no lock, so a step is what a
Python thread does without another getting in between: one dictionary operation, one test or
assignment of the flag, one entry point. `dict.update` draws from a generator, which is Python
code, hence one step per item (`Update`); the copy of the keys is one step, and the comparisons
after it read nothing shared (`Snapshot`). An entry point loads a converter, something else, or
raises or not from one import to the next (`flaky`). A call that fails leaves its thread free to
call again, and the flag unset; so after a clash every later `get()` that discovers loads again
and raises again, which is what the code does and no property judges.

### DataFileSystem

fsspec hands out one object for equal arguments, so its `_sizes` and its two provenance
attributes are shared by threads. `job` holds a call's arguments and local variables, `pc` where
it is: spool, resolve twice, note the provenance twice, open the source, encode, note the size,
return. Between any two the other threads, the writer of the source (`ReplaceSource`) and the
schema registry (`RegisterSchema`) may act; every step that does I/O may raise. A converted file
is a record of what it was made from, and `_sizes` keeps that record instead of a number, so a
size is the size of a definite file. `OpenSourceRaises` is possible also for an acceptable
source. An opened source is read as it was when it was opened: file systems that let a reader
see a file being replaced are not covered.

What the model shows, and leaves as it is: `info()` keeps answering with the size of an earlier
version of the source after the source was replaced; `InfoAgreesWithOpen` holds only while
nothing changes. The two provenance attributes may describe different conversions when
conversions overlap; `ProvenanceOfConversion` is about those that do not. One conversion may
resolve "latest" to two different versions, one for each schema. A step raises an `Exception`: what
`filesystem.py:88` does not catch, an interrupt for instance, is not modelled.

## Runs

| Run | Shows |
| --- | --- |
| `decoded_stream` | All invariants of the stream, `ReadsOnDemand`, that it implements `RowStream`, and that collecting ends |
| `decoded_stream_cancel` | A violation: the iteration after `cancel()` does not always raise |
| `interchange` | One field: all pairs of types and nullabilities, all policies and cast overrides, with values; and up to two fields under field operations |
| `interchange_none` | A violation: the default `None` is planned for a required field |
| `codec_session` | Sessions of five formats, with failures anywhere: what a reader of the sink gets, at every moment and at the end, torn batches included |
| `shared_reader` | Readers and ranges of one file get what they would get of their own, and the lock is always given back |
| `avro_values` | Every well-formed value is delivered once, in order and read with its schema, up to the first value that ends inside a message; every push returns |
| `avro_values_lost` | A violation: after a prefix alone, a message is lost without an error |
| `converter_registry` | Two threads that load, get and register: nothing half loaded, nothing falsely missing, no clash admitted |
| `converter_registry_race` | A violation: overlapping first calls report a duplicate that nobody gave |
| `filesystem` | Two threads on one object in a changing world: files are current, sizes are of whole files, spools are closed |
| `filesystem_requested` | A violation: a requested schema without fields is ignored |

Bounds. `MCDecodedStream` cuts source batches of 0, 1, 3 and 4 rows by 1 or 2 with a row limit of
none, 0 or 3: a batch is cut into at least two and up to four pieces, a limit falls on a cut,
inside one and between two batches, and three batches follow each other. Batch size 0 is among
the options, and refused. The byte limit is one below `UsizeMax`, so the counter saturates. The
source stops after seven rows, at any point before that, or fails.

The first family of `interchange` (`SingleFields`) takes all 18 types, both nullabilities, four policies and four overrides;
cells are modelled for one type of each kind, with integers of 7, 8 and 25 bits: the first fits
every type, the second is the edge between `Int8` and `UInt8`, the third that of `Float32`. Two
batches are enough for an error to be followed by a success. The second (`Arrangements`) takes every
sequence of up to two fields over four fields on each side, with names that repeat, and sets
of operations with a swap, a merge, an unknown name, a drop of what is renamed, and defaults of
the wrong length, of the wrong type, null of a type, and `None`. `interchange_none` takes the
second family alone, with one batch.

`CodecSession` is offered three batches: one that carries the CSV header, one that is refused or
held back, and one after it.

`SharedReader` has two readers or ranges over a file of three bytes and requests of up to two
bytes more than the file has: enough for one to read twice with the other in between, for a read
that answers short, one at the end of the file, and a range that goes past it.
`AvroValueDecoder` takes three values: of two schemas in turn, with malformed ones among them,
into a decoder with room for one or two rows, which is full before, at and after a change of schema.

`ConverterRegistry` takes every list of up to two entry points over two routes, so entries clash
with each other, with a registered route, or not at all; two calls of each of two threads are a
failed or overlapping load and what comes after it. `DataFileSystem` takes two paths, two
threads, two versions of the source and of the schema, and three calls in all: two that overlap
and one that finds what they left. Threads and paths are symmetric in it. Schemas are "latest"
or absent in the `filesystem` run (an inline one is a "latest" that does not change), inline,
empty or absent in the `filesystem_requested` run.

Deadlock checking is on for the stream. It is off elsewhere, where a rejected request, a finished
conversion, a session without its writer, readers that stopped reading, the last value or a thread
without calls left is the end.

Fairness. `FairSpec` says that the consumer keeps calling `next()` while the stream is open, as
`collect_batches` and a `for` loop do, and that a call that has begun goes on (it is a loop
without locks). Nobody has to cancel. `MaxSourceRows` bounds rows and not batches, and weak
fairness of the loop as a whole does not choose the end of the source over another empty batch:
without rows the source may answer with empty batches for ever, in which case `sourceRows` does
not change and the model only stutters, so what the run shows is that a call returns if the
source does not produce empty batches endlessly. The code has no defence against that, and the
token is not read in between.

In `SharedReader` a call that holds the lock goes on (`Progress`): it waits for the file alone,
and a file that never answers would hold everyone. Failing and taking the lock are not under
fairness, so `LockIsReleased` does not rest on errors, and no reader is promised its turn. In
`AvroValueDecoder` a push goes on once it was called; nobody has to push or flush.

## Disagreements between text and code

- `docs/api.md:132` promises that the iteration after `cancel()` raises. After a row limit or an
  error it stops instead (`decoded_stream_cancel`).
- `docs/resources.md:81-82` says entry points are discovered once and that `get()` raises for
  missing routes. When the first calls of two threads overlap, `get()` may raise a duplicate
  error for a route that exists once (`converter_registry_race`). A retry succeeds once the
  other thread is done.
- `docs/api.md:324` says a default of `None` needs a nullable field. The check does not see it
  (`interchange_none`): Python then emits nulls in a required field, and Rust refuses every batch
  of a plan it accepted. The test at `plan.rs:1183` gives the null a type, which Python does not.
- `docs/api.md:248-249` and the comment at `rust/src/avro.rs:179` say that `push` decodes exactly
  one value and `flush` returns every row. A value that is a prefix alone is accepted, and the
  message after it may be lost without an error (`avro_values_lost`).
- `docs/api.md:20-21` says the output has the requested schema and the source's only by default. A
  requested schema without fields is taken for none (`filesystem_requested`), under every policy.

Two more can be read off the definitions, and no run is kept for them. The comment at
`rust/src/plan.rs:104` says lossy casts do not fail on bad values; in the Rust core they do, in
Python they do not (`ApplyCast`). `docs/api.md:237` says CSV writes a header row; it is written
with the first batch, so a file of no batches has none (`BatchParts`).

## Proofs

`DecodedStreamProofs` proves for all batch sizes, limits, memory functions and sources: type
correctness, each safety invariant the run checks, `ReadsOnDemand`, and the refinement of
`RowStream`. The assumptions are `SizesAssumption` and `LimitsAssumption`: sizes are naturals, a
batch has at most `UsizeMax` rows, and a byte limit is below `UsizeMax`.

None of the properties is inductive. Their strengthening `IInv` adds the ends of the
argument: the pending batch and the batch in hand end where the source stands, at most one of
them has rows, the row to be cut next is the one after the last delivered, the byte counter is
what the consumer holds as long as it is below `UsizeMax`, inside the loop the limit is not
reached and the stream is open, and a call that entered before `cancel()` is the only source
of a batch after it. TLC checked `IInv` first; `Inductive` then proves it, action by action, and
the other theorems follow from it, the refinement by mapping each action to one of `RowStream`.

`SharedReaderProofs` proves for any set of readers, any file and any size of requests that the
range reads are type correct and implement `RangeReads`. The assumptions are `ReadersAssumption`
and `LengthAssumption`: `NoReader` is no reader, and the two bounds are naturals. `RangeReads` does
not follow from what a reader sees alone: `IInv` adds that a sequential reader's position is the
end of what it has seen (`SeenInv`), and that whoever has sought finds the cursor at the end of
the bytes of its call (`CallInv`). One lemma, `Others`, carries the argument about interference:
a reader that does not hold the lock has not sought, so it does not care where the cursor is.
`Refinement` then maps a request to `Ask`, and a read that answers something, or the last read of a
range, to `Give`.

`ConverterRegistryProofs` takes any threads, routes and lists of entry points; the assumption,
`RegistryAssumption`, is that the two bounds are naturals. `IInv` relates the registry to whoever
is loading: once loaded, or with a converter of an entry point in it, the entry points clash with
nothing that was there before, and then somebody updates or the flag is set (`RegistryInv`); a
thread in the middle of an update has stored all items up to the one it is at, one that looks up
knows the flag set unless it does not discover, and what it found registered at its call is still
registered (`ThreadInv`). `MissingIsMissing` needs the last of these, `AllOrNothing` the first.

`DataFileSystemProofs` takes any threads, paths, versions and numbers of calls, under
`FileSystemAssumption` (there is a version, the source is not one of the paths, and the ways to
give a schema are the four the module knows). `IInv` says of each thread what it has so far: whose
the spool is (`SpoolInv`), that all it resolved or made is no older than its call (`CurrentInv`), that it
notes only whole files (`WholeInv`), that the provenance is its own if it is alone (`AloneInv`),
and that in an unchanged world its file is the one file the path then has (`OneFileInv`). The lemma
`ThreadStep` reduces a step to these parts for the thread that moves; `Others` says that the rest
does not care.

`PlannerProofs` is about values and has no states. `EveryPlan` says of a request with schemas of
any length that its plan is a rejection, or that there are `source` and `added`, which divide the
requested fields, such that the plan is exactly the mappings from `source[t]` to `t` and the
defaults of `added`, and each pair suits the policy (`Fills`). The lemmas before it follow the code:
what each check accepts (`PairAccepts` to `MatchesAccepts`), then what each kind of plan is. The
code's "first field with that name" is the minimum of a set of positions, which `MinExists` takes
from the well-foundedness of the naturals; no induction is needed. The lemmas after it compare two
plans of one request (`StricterInPlace`, `ExactProjects`, `IdlePlans`).

`InterchangeProofs` proves all nine properties of the `interchange` run for every set of requests
that satisfies `RequestAssumption` (their schemas, policies and operations have the types of the
code) and cells of any width (`CellAssumption`). `IInv` says that the plan in force is one of
`Plans(request)`, that a conversion that is not at an error has lost nothing, and that the
last batch is what `ApplyBatch` makes of a row of the provided schema. From there the properties of
plans follow from `EveryPlan`, and those of batches cell by cell: `CastConforms` and
`SafeCastKeeps` say what each engine's cast does to each kind of cell. Nulls are followed back to
where they come from: one that a plan's checks do not stop is of an array of type Null, which is
what `NullsOnly` says.

`AvroValueDecoderProofs` takes any schemas, sizes and numbers of values, under
`SchemasAssumption` (the two markers are no schemas) and `SizesAssumption` (a batch has room for a
row).
`RowsOnceInOrder` is not inductive, because a value that was pushed is neither a row nor lost while
`push` is at work on it. Two parts of `IInv` hold whatever was pushed: every datum that is left is
announced by the prefix before it, the schema pending or the active one (`RestInv`), and an owed
value has one datum and no row until that is read (`OnceInv`). Two hold as long as no value ended
inside a message: the `Decoder` awaits a datum only where one comes, and keeps no part of one, so
that no flush fails (`WholeInv`); and of an owed value the row is there, or all that makes it is
left and the loop cannot end before it did (`MessageInv`). The first two give the order and the
schemas of the rows, the others that none is missing.

`CodecSessionProofs` takes sessions of any length over any of the five formats
(`SessionAssumption`). The properties speak of what a reader gets, so the proof goes through the
file itself: `Content(n, p)` is the first p parts of the file that n batches make. `IInv` says
that sink and buffer together are the content without the footer as long as nothing failed
(`OpenInv`), that an encoder that is not over has had no error and no refusal (`EncoderInv`), and
that a finished sink is the whole content and what a raising encoder leaves is a start of it,
possibly with a torn part at its end (`EndInv`). `WrittenGrows` is how the file grows, `FileCut`
and `TearLeaves` what a failure leaves of it, and `ReadBack` and `DecodedStart` what a reader makes
of any start of a file. Whether the format holds back and whether its reader asks for a footer must
be the same question for this, and `FormatFacts` shows that it is.

For TLC alone are left: the liveness properties (`CollectTerminates`, `LockIsReleased`,
`PushEnds`), which rest on fairness and on measures no installed prover takes up, and the five
violations. Every invariant and every action property that a passing run checks is proved.

## Not modelled

Formats as byte layouts, Arrow's kernels and readers (external; used as sources of batches and
as casts), wording of errors, `json_schema.py`, `xarray_zarr.py` and the backend stubs, which
keep no state. `apply_stream` and `apply_table` do per batch, or to one table, what is modelled.
The resolver registry of `schema.py` is a dictionary that is filled at import, and the requests of
`confluent.py` keep nothing: `fetch_confluent_versions` lists the versions of a subject and then
fetches them one by one, and raises what the registry answers for one that is gone.
`AvroValueEncoder` is modelled only by how it frames a value.

## Plan

What is left, in order of importance:

1. The composition of `DataFileSystem` with the planner's verdict and the writer session, so that
   a conversion is refused for the reasons the planner has and fails where a session fails.
2. The resolver registry and the fetch of all versions of a subject, whose list may be stale.
3. An abstract specification of the converter registry, of which loading is one step.
