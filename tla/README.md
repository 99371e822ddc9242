# A TLA+ model of leveldb-forensic

leveldb-forensic reads the LevelDB directories that Chromium keeps for Local
Storage and Session Storage and enumerates *every* raw record in them: superseded
versions, tombstones and records of files LevelDB itself no longer counts as
live, with the sequence number each was written with. It takes no lock and writes
nothing, so it may run on a copied, a damaged or a live directory.

This directory holds a TLA+ model of it, the TLC configurations that check the
model on small instances, and TLAPS proofs of what matters most about each of its
components. `PROJECT.json` maps every definition to the lines it models, and lists
the runs, the mutants that show the properties can fail, the theorems, the hazards
and the findings.

    tlc -workers 2 -config MCLogRecovery.cfg MCLogRecovery    # one run
    tlapm LogReaderProofs.tla                                 # one module of proofs

## 1. The system

| Component | Source | State | Operations |
|---|---|---|---|
| write-ahead log reader | `leveldb-core/src/log.rs`, `bytes.rs`, `record.rs` | the block it is in, the offset in it, the fragment reassembled so far and whether one is open; in `parse_write_batch` a cursor, an op counter, the output | scan blocks; consume FULL, FIRST, MIDDLE, LAST, unknown records; abandon a block; decode puts and deletions |
| table reader | `leveldb-core/src/sstable.rs`, `bytes.rs` | the handles of the index not yet followed, cursor and previous key of the block decoder, entries, records | footer, read_block (bounds, CRC, decompression), prefix-compressed entries, split of internal keys; any error is the error of the table |
| directory scan | `leveldb-core/src/lib.rs` `read_dir` | the sorted list of paths, the output; and the directory, which belongs to others | list, sort, then for each table or log: read, parse, append or skip |
| storage values | `leveldb-forensic/src/value.rs` | none (pure) | UTF-16-LE, Latin-1, the type prefix of Local Storage, the optional one of Session Storage; a lossy flag and the raw bytes with every value |
| session storage decoder | `leveldb-forensic/src/sessionstorage.rs` | the map from map-ids to hosts, the output | pass one links map-ids to hosts, pass two classifies namespace, map and other records |
| local storage decoder | `leveldb-forensic/src/localstorage.rs` | the output | classify META, entry and other records; the META protobuf |
| forensic entry points | `leveldb-forensic/src/lib.rs` | none | `read_dir`, then a decoder |
| renderers | `leveldb4n6/src/render.rs` | none (pure) | one line for each record: three modes, three formats, and the escaping each needs |
| command line | `leveldb4n6/src/lib.rs`, `main.rs` | how much of the output is written | read, decode, write line by line, exit |
| errors | `leveldb-core/src/error.rs` | none | the variant that names what is wrong with a table |
| fuzz targets | `fuzz/` | none | - (not modelled) |

**How they interact.** `run` of `leveldb4n6` calls `leveldb_core::read_dir` and hands
the list of raw records to a decoder of `leveldb-forensic` (to none in the raw mode),
and what comes out to a renderer; the entry points of `leveldb-forensic` that take a
directory do the same two calls for the users of the library. `read_dir`
calls the two parsers file by file; `parse_log` calls `parse_write_batch` once for
each reassembled record. Everything is one thread and ordinary calls. The one
thing shared with anybody else is the *directory*, which the browser may go on
changing while it is read.

**What is hard.**

- The log reader is a state machine driven by lengths and types that may lie. Each
  of its eight branches must leave cursor, fragment and flag right for whatever
  comes next; some of them end reassembly and some must not.
- Table keys are stored as differences to the key before: one wrong reset and
  every key after it is wrong without any error.
- The directory changes between the listing and the reads. LevelDB moves records
  from file to file, so a file that is gone is not the only thing that can be
  missed.
- Records come out in path order, not in the order of their sequence numbers. The
  session decoder relates records that may come in any order, or not at all.
- Every decoder splits keys at a byte which the key may also contain further on.
- The strings that are printed come from evidence: they hold whatever separators,
  quotes and line breaks the output format itself uses.

**What makes each correct.**

- *Log reader*: intact batches come back exactly; nothing is surfaced that a
  checksum does not cover, that is put together from records which do not belong
  together, twice, or out of order; damage costs no more than the blocks it is in;
  the scan ends.
- *Batch decoder*: the longest readable prefix; a count is not believed; sequence
  numbers do not wrap.
- *Table reader*: a sound table comes back exactly, a damaged one not at all, with
  an error that names the damage.
- *Directory scan*: what stays is surfaced, in path order; one bad file costs that
  file; the scan returns.
- *Values*: clean if and only if nothing was lost.
- *Decoders*: every record comes out, its key can be put together again, and it is
  attributed to the origin or host that owned it.
- *Renderers, command line*: a parser of the format reads back what each record
  shows; the exit code tells a whole output from the beginning of one.

## 2. The modules

    WriteBatch --> LogReader --> LogRecovery --> MCLogRecovery
                     | |              | Writer == INSTANCE LogWriter (external)
                     | | Scan == INSTANCE RecordScan (abstract)
                     +--> LogReaderProofs --> LogRecoveryProofs
    Sstable --> TableRecovery --> MCTableRecovery
                    | |  Builder == INSTANCE TableWriter (external)
                    | +--> SstableProofs
    ReadDir --> LiveScan --> MCLiveScan
                  | |  DB == INSTANCE LevelDB (external)
                  | +--> ReadDirProofs
    Value --> StoredStrings  --> MCStoredStrings, LocalStorageProofs
          --> SessionStorage --> SessionHistory --> MCSessionHistory, SessionStorageProofs
          --> LocalStorage   --> LocalHistory   --> MCLocalHistory, LocalStorageProofs
    Render --> OutputReaders (external) --> Dump --> MCDump, DumpProofs
                                                       | V == INSTANCE Value
    SequenceLemmas --> LocalStorageProofs, SessionStorageProofs, DumpProofs,
                       SstableProofs, LogRecoveryProofs

**WriteBatch, LogReader.** `parse_log`, one action for each branch of its loop:
`EndOfBlock` (padding), `Padding` (a zero header), `LyingLength`, `FullRecord`,
`FirstFragment`, `MiddleFragment`, `LastFragment`, `UnknownType`. A record that is
complete calls `parse_write_batch`, whose loop runs to its return (`Batch`) before
the scan goes on. A file is a sequence of *cells* - one for each fixed-width or
varint field, one for each byte of a key or a value - and the set of offsets at
which the CRC test passes; a physical header is three cells where the file has
seven bytes. Every cell copied from the file carries the offset it came from, so
that `OnlyVerifiedBytes` and `EachByteOnce` can speak of provenance. `pieces` and
`calls` are history variables: of which physical records a fragment is made.

**RecordScan** is what `parse_log` promises, without its blocks, flags and branches:
a scan that goes on past anything but never back, opens a record with a sound FIRST
and nothing else, joins sound MIDDLEs to it, and hands over the data of one FULL, or
of the FIRST with all that was joined to it and a LAST. Which records it takes and
when it gives up is open. `LogReader!ScanSpec` maps its state to that of the reader:
`reached` is the cursor as an offset in the file, `open` the headers of `pieces`,
`gathered` the values of the fragment.

**LogWriter** (external) says what a log is that LevelDB's writer left, as the format
comment of `log.rs` describes it, whatever became of it since. A log carries what was
written (`written`: each batch, its payload and the records that stand for it), how it
was split (`physical`: which part of which payload stands where, under which type), and
the offsets whose bytes changed (`spoiled`). `IsLog` relates these to the cells of the
file: the physical records follow one another and cover their payloads; what is not
spoiled holds what was written; the file may end anywhere before the end of that and
zeros may follow it; no checksum over a changed byte holds, and none holds where no
header was written. `Holds` says which records stand for a payload: as many as it
promises or, of one that lies about its count or its lengths, the longest run that can
be read. The operators below `IsLog` are kinds of damage: bad checksums, torn ends,
preallocated space, forged lengths and types, spans that read as zeros. The logs of the
runs are generated in **MCLogRecovery**, by a writer with a recursion over fragments,
and TLC checks `IsLog` of each of them. **LogRecovery** relates reader and writer: a
batch is `Intact` when no byte of it changed, and `ClearOfDamage` when the headers in
the blocks it lies in, its own or not, can also be gone by.

**Sstable, TableWriter, TableRecovery.** The same for tables. The CRC and Snappy
are data of the file: which regions pass, what they inflate to. A varint that does
not decode is the cell `BadVarint`. `error` is the variant of `Error` returned:
`FooterError`, `BlockError`, `LeadError` and `EntryError` look at the causes in the
order the code does. A table carries what it was built from (`source`: the records
of each data block, the distance between restart points, the compression) and what
became of it since (`damage`); `IsBuilt` says what each kind of damage leaves of the
cells that `TableOf` makes of the source, and TLC checks it of every table of the run.

**ReadDir** is `read_dir` with one action for each system call or file, so that
anything may happen between two of them. A file is abstracted to what the parsers
make of it: the records in it, whether it is sound, whether `fs::read` gets at it.
`OpenSpec` is the reader in *any* directory that evolves: files come, grow and go;
a file that stays keeps what it has, a table that was sound stays so. `paths` is a bag:
the code pushes what the iterator of the operating system returns to a vector, sorts it,
and takes out no duplicates. `returned` is the state of that iterator: it returns a name
that stays once, but one that goes and comes back it may return again, and such a file
is then read twice.
**LevelDB** (external) is one such environment, that of a running browser: puts,
log rotation, flush, compaction, removal of obsolete files. **LiveScan**
interleaves the two, and TLC checks that it implements `OpenSpec`: the theorems
about `OpenSpec` therefore speak of it.

**Value** has the decoders as operators, **StoredStrings** runs them on strings
that Chromium encodes, cut at any byte or with a foreign prefix.

**SessionStorage, LocalStorage** are the two `decode` functions, a step for each
record and pass; **SessionHistory, LocalHistory** feed them what Chromium leaves
on disk in any order, with any of it missing, and damaged records.

**Render** has the nine renderers. A line is a sequence of tokens: a character each,
or a word of the program or a number, which no format treats as special. The
format strings of the code become lists of fields, members or cells, so that what is
kept is which value stands at which place, under which name and through which
escaping function. **OutputReaders** (external) has the parsers of a consumer, for
JSON (RFC 8259: it refuses a control character inside a string) and CSV (RFC 4180),
written without the renderers; `jsonguard::csv_field` is another crate and modelled
from how `render.rs` uses it and its tests. **Dump** is `main` and `run`: the
directory is read and decoded in one step (its steps are in ReadDir and the
decoders), then one action writes one line or fails with a part of it out.

## 3. What the runs show

Every property of a passing run has a mutant of the code that violates it under
the same configuration.

| Run | Question | Bounds |
|---|---|---|
| `log_recovery` | Does the log come back? `ExactRecovery` while headers hold; under any damage `OnlyVerifiedBytes`, `OnlyWellFormedRecords`, `EachByteOnce`, `DamageStaysInItsBlocks`, `CountIsNotTrusted`, `SeqNeverWraps`, `Terminates`; does the reader implement RecordScan (`ScanSpec`)? | `MaxBatches` = 3, `MaxCells` = 5 |
| `log_splice` | Is a surfaced record always one that was written? **No** | `MaxBatches` = 2 |
| `table_recovery` | Do sound tables come back exactly, are damaged ones refused whole and with the right error, does every parse return with its cursor in its block? | `MaxRecords` = 3 |
| `live_scan` | What does a scan of a live directory guarantee? Does LevelDB keep to `Environment`? | `MaxSeq` = 2, `MaxFile` = 5 |
| `live_missed` | Is a record that is on disk all the time always surfaced? **No** | `MaxSeq` = 1, `MaxFile` = 4 |
| `stored_strings` | Is a value clean exactly when nothing was lost? | `MaxUnits` = 3 |
| `session_mistaken` | Also for Session Storage values that look prefixed? **No** | `MaxUnits` = 2 |
| `session_storage` | Does every record come out, and every entry get the host that owned its map? | `MaxRecords` = 3 |
| `local_storage` | Do entries and metadata come back as they were written? | `MaxRecords` = 2 |
| `local_dropped` | Does metadata that does not decode come out raw? **No** | `MaxRecords` = 1 |
| `dump` | Does a parser read back what was dumped (`JsonlComesBack`, `CsvComesBack`), does text keep a record on its line, is the exit code honest? | `Texts` |
| `jsonl_lossy` | Are the raw bytes beside a value that was decoded with loss? **No** | as above |

**Why the bounds are enough.**

- *Log*: blocks are eight cells, header three. The payloads (2, 5, 8, 10, 12 cells)
  make FULL records, FIRST-LAST and FIRST-MIDDLE-LAST, the empty FIRST at the end
  of a block and padding; with three batches damage can hit the one before, at and
  after any of them, and two checksums may fail at once. The reader keeps nothing
  of a record but one fragment and one flag.
- *Batches*: a forged batch is a header with a count of 0 to 3 and a sequence number
  of 1, `MAX_SEQ` - 1 or `MAX_SEQ`, and up to five cells of any value: two deletions,
  or one put with a key and a value, and one cell too many or too few for each.
- *Table*: three records in two blocks make shared prefixes inside a block, a
  restart point with a previous key to forget and a block boundary; a compressed
  block may not inflate, or to more than `MAX_DECOMPRESSED_BLOCK`; forged tables
  have at most two records, with each cell replaced by each of four values.
  A bad checksum may be that of a flipped compression type, and a sound block may
  have a compression the reader does not know.
- *Scan*: file numbers up to 5 allow a rotation, a flush and a compaction in one
  scan; more of them repeat the pattern. The old directory holds a sound, a
  corrupt or an unreadable table beside the log and a file of no interest.
- *Strings*: bytes of four values, of which one is the upper byte of the high
  surrogates and one of the low; three units hold every lone surrogate next to a
  pair.
- *Decoders*: the session decoder relates at most two namespace records and an
  entry; the local one relates none, so pairs show that records do not interfere.
- *Dump*: a string is special by the characters it holds and by what stands first in
  it or next to one another; `Texts` has these cases for every format, among them
  texts that look like the escapes themselves. One string of a record takes all of
  them while the others stay, as no renderer relates two fields; each record comes
  before and after another. A failed write leaves any part of its line but all of it
  (`Cuts`).

**Fairness.** The reader is one thread that waits for nobody: weak fairness of its
step (`WF_vars(Next)`, in LiveScan `WF_vars(Reader)`) says that it is scheduled
again and again. Nothing is assumed of LevelDB, which may stop or go on for as long
as its bounds allow. Only `Terminates` and `Returns` need fairness.

## 4. What the code does otherwise than its words

1. `log_splice` - a zero header (`log.rs:123`) leaves the loop over a block with
   reassembly open; a bad checksum or an unknown type (`158`, `172`) closes it. In the
   counterexample a batch is written as FIRST, MIDDLE and LAST, and the MIDDLE reads
   as zeros: the LAST of the next block is joined to the FIRST without it, the rest
   passes for a batch, and a record nobody wrote is surfaced, made of bytes that each
   passed a checksum. A lying length (`log.rs:130`) leaves reassembly open in the same
   way. `OnlyWellFormedRecords` shows how far the damage goes: it is still a FIRST,
   MIDDLEs and a LAST, all sound, in file order.
2. `live_missed` - `lib.rs:77` reads files listed earlier. When a table is compacted
   in between, its replacement is not in the list: records on disk all the time are
   missed, and the result is `Ok`. `StableFilesSurfaced` is what does hold.
3. `session_mistaken` - `value.rs:117` takes a first byte 0x01 for a prefix although
   session values are bare UTF-16: a string that starts with such a unit comes out
   as another text, marked clean.
4. `local_dropped` - `localstorage.rs:115` lets a META record that is not the
   expected protobuf come out without its value.
5. `jsonl_lossy` - no line of a Session Storage dump has raw bytes. The map-id of a
   namespace record has lost them in the decoder already (`sessionstorage.rs:100`
   replaces what is no UTF-8, with no flag); the value of a map record is marked
   lossy, and still has them, but `render.rs:335` does not write them as
   `render.rs:199` does for Local Storage.

Also seen, and not given a run:

- a lying length costs the intact batches in the rest of its block (`log.rs:130`),
  though the doc of `parse_log` says that every well-formed batch is emitted;
  `DamageStaysInItsBlocks` states what is kept;
- text writes origins, hosts, guids, map-ids and paths as they are
  (`render.rs:88, 147, 160, 282, 295`), so a newline in one of them breaks the line
  which `render.rs:3-4` promises; `TextLinePerRecord` leaves these strings out;
- csv cannot be read back without loss: an apostrophe it put in front of a cell is
  not told from one that was there, a host that is unknown is not told from an empty
  one, and raw values have no column. `leveldb4n6/src/lib.rs:25` calls it
  machine-faithful;
- the script key of a Local Storage record is shown without its `lossy` flag and its
  bytes, in every format;
- a table of an unknown compression is skipped by `read_dir` without a word
  (`leveldb-core/src/lib.rs:80`), where `docs/validation.md` says "skipped loudly".

## 5. What is proved

The proofs hold for every value of the constants; what they assume is named where
it is declared, and TLC evaluates it in every run:

- *log*: `BatchAssumption` (MAX_SEQ and the op types are numbers, the op types
  differ), `BlockAssumption` (a block has room for more than a header),
  `RecordTypeAssumption` (four different types, none zero), `LogsAssumption` (a file
  is any sequence of numbers with any set of offsets at which the CRC test passes -
  it need not come from a writer). Only what relates the reader to what was written
  needs `LogsAreWritten`: every file is a log in the sense of `IsLog`, with any
  batches, any bytes changed, and any length. It excludes one thing, a checksum that
  holds by accident;
- *table*: `TablesAssumption` (a file is any sequence of numbers and varints that do
  not decode, with any set of blocks that pass the CRC test and any contents for those
  that inflate) is all that the types need. What relates a table to its builder also
  needs `FormatAssumption` (the two compressions differ, and so do the two record
  types) and `TablesAreBuilt`: every table was built from a source and then damaged in
  one of the ways of `IsBuilt`, of which "forged" leaves it open what is in the file.
  A source has no empty data block, keys and values of 32-bit lengths, and no compressed
  block above the ceiling of the reader (`sstable.rs:31-34`: one of more is refused,
  by intent);
- *scan*: nothing but `Environment` for the reader alone; for LiveScan
  `OldDirsAssumption` (LevelDB finds a log, and numbers its files from 3) and
  `WritesAssumption` (what it may write are records);
- *values and decoders*: `ByteAssumption` (the surrogate ranges do not overlap),
  `TokensAssumption` (the prefixes, the dash and the NUL are told apart),
  `InputsAssumption` (a list of raw records, any list), and for what relates a
  decoder to what Chromium wrote `HistoryAssumption` (map-ids and guids hold no dash,
  origins no NUL) and `StringsAssumption`;
- *dump*: `DecodedAssumption` (the decoders give records of their own kinds, an option
  holds one value or none), `NumberAssumption` (a number that is written is nothing a
  format takes for something else: a line break, a quote, a comma, null),
  `NameAssumption` (the names of the members, all words of the program, hold no control
  character) and `CodePointAssumption` (characters that differ have different code
  points). Nothing is assumed of the strings: a text is any sequence of tokens, those
  that the formats use among them.

| Theorem | Says |
|---|---|
| `LogReaderProofs!TypeCorrect` | no cursor of `parse_log` or `parse_write_batch` leaves its block or buffer, so no slice is out of bounds |
| `LogReaderProofs!OnlyVerified` | every surfaced byte is covered by a checksum that holds |
| `LogReaderProofs!WellFormedOnly` | what is parsed is one FULL record or FIRST, MIDDLEs, LAST, all sound, in file order |
| `LogReaderProofs!EachByteOnceAlways` | no byte comes out twice, records come out in file order |
| `LogReaderProofs!CountNeverTrusted` | the loop over the ops is paid for with bytes |
| `LogReaderProofs!SeqNumbersNeverWrap` | in a batch the later op has the greater sequence number, up to u64::MAX |
| `LogReaderProofs!ImplementsScan` | `parse_log` implements RecordScan: every step of it is a step of the abstract scan or a stutter |
| `LogRecoveryProofs!RecoversExactly` | of every written log: while lengths and types stand, exactly the records of the intact batches come out, in order, whatever else is torn or damaged |
| `LogRecoveryProofs!DamageIsContained` | of every written log and any damage: a batch comes out whole if its bytes hold and the headers stand in the blocks it lies in |
| `SstableProofs!TypeCorrect` | on any file, the cursor of `parse_block_entries` stays in its block and the table is records or an error |
| `SstableProofs!SoundTablesComeBack` | every table LevelDB builds comes back: each record, once, in order, with its whole key |
| `SstableProofs!NoPartialTable` | a table with one bad block, whichever it is, or with its end missing yields no record |
| `SstableProofs!ErrorIsTheDamage` | and the error is that of the damage |
| `ReadDirProofs!TypeCorrect` | types, in any directory that evolves |
| `ReadDirProofs!AlwaysSorted` | the output is in path order, no file that stays twice, in any directory that evolves |
| `ReadDirProofs!StableFilesNeverLost` | a sound, readable file that stays is surfaced with what it held at the opening |
| `ReadDirProofs!ImplementsOpen` | a LevelDB at work is such a directory: each put, rotation, flush, compaction and removal is a change `Environment` allows |
| `ReadDirProofs!BesideLevelDB` | so types, order and stable files hold beside it |
| `ReadDirProofs!NoFileTwice` | beside a LevelDB no file at all is read twice: the segments are in strict path order |
| `ReadDirProofs!QuietScansAreComplete` | beside a LevelDB: a directory that is at the return what it was at the opening comes out complete, and nothing else does |
| `LocalStorageProofs!StringTypeCorrect` | values keep their bytes, texts are characters |
| `LocalStorageProofs!CleanIsExact` | a clean value is what was stored, session strings that look prefixed aside |
| `LocalStorageProofs!LossyIsLoss` | a value is lossy only when something was lost |
| `SessionStorageProofs!TypeCorrect` | one record comes out for each one handled |
| `SessionStorageProofs!NoKeyIsLost` | in its place, and its key can be put together again |
| `SessionStorageProofs!HostsAreOwners` | an entry gets the host that owned its map, or none, in every order and with any loss |
| `SessionStorageProofs!OrphansHaveNoNamespace` | an entry without a host has no live namespace record anywhere in the list |
| `LocalStorageProofs!TypeCorrect`, `NoKeyIsLost` | the same as of the session decoder |
| `LocalStorageProofs!EntriesAreDecoded` | entries come back with origin, script key and value |
| `LocalStorageProofs!MetadataIsDecoded` | metadata comes back with time and size |
| `DumpProofs!TypeCorrect` | types; success comes after the last record |
| `DumpProofs!HonestExit` | success: all of the output is out; failure: a proper beginning of it |
| `DumpProofs!RecordsKeepTheirLines` | as text, the k-th line is that of the k-th record, whatever its script key and value hold |
| `DumpProofs!JsonlReadsBack` | as jsonl, a JSON parser reads in each whole line what its record shows and nothing else, whatever the strings hold and wherever a write fails |
| `DumpProofs!CsvReadsBack` | as csv, a parser reads the header row and one row for each record, with what it shows under each name, whatever the strings hold |

**The arguments.**

*Batch decoder.* Lemmas about one step: what a length prefix delimits
(`SliceProperties`), that a push keeps the types and takes its cells from what is left
of the buffer (`BatchStep`), in order. `SeqInv`: the records of the
current call are the last `op_index` of `records`, numbered from `base_seq` on and
saturated.

*Log reader.* `ScanInv` adds to the types that the cursor is in its block while the
scan runs; the lemma `DataProperties` then gives the data of the record under the
cursor. None of the three properties is inductive: each is about `records`, which
are made of a buffer, which was made of a fragment. `VerifiedInv` says of fragment
and buffer what `OnlyVerifiedBytes` says of records. `PiecesInv` says that an open
fragment is a FIRST and MIDDLEs, sound and ascending, all before the cursor -
this is why the stale fragment of `log_splice` can be joined to a later LAST but
never to an earlier one. `OrderInv` says that fragment and buffer ascend, that all
of what was surfaced comes before them, and they before the cursor; in particular
the fragment holds nothing already surfaced. `NextKinds` reduces the ten actions to
four kinds of step: the next block, a physical record, a batch step, a stutter.

*Refinement.* `ImplementsScan` needs of the invariants only `ScanInv` and that nothing
is gathered while no record is open (`NothingOpen`). The steps go to `GiveUp`,
`PassOver`, `Decoded` and the four `Take` steps; the lemmas `ValuesConcat`,
`ValuesData`, `HeadersAppend` and `HandedAppend` say that the mapping of fragment,
pieces and calls goes through concatenation.

*Log recovery.* The physical records of a log are named by their places, and of each it
is known where it stands (`PhysicalFacts`): none lies across the start of a block
(`NoStraddle`), their extents ascend, and so do the batches they hold (`Order`). `Under(q)`
says that record q is the first to end after the cursor. The invariant has four parts.
`SyncInv`: in a block whose headers stand, the cursor is at the header of the record under
it or between two; that is why a new block always starts in step, whatever became of the
one before, and why `RecordConsumed` and `NothingSkipped` hold there: what is consumed is a
record of the writer, and no whole one is passed over. `GatherInv`: in the middle of a batch,
at record q, the fragment is the payload up to it if all of it so far is sound and the headers
of its blocks stand (`Trusted`); and if no header of the file lies, reassembly is only open
while the batch is sound. It is this second half that fails once a header reads as zeros or
its length lies, and with it `OnlyWrittenRecords`. `HandsOver` then gives what the last record of a batch hands to
`parse_write_batch`: the payload, or nothing. The decoder has read the first `op_index` ops of
it (`Reading`); that the next is the next and not some other is `OneOpAt`, and that it goes on
to the longest readable run, no less, is `OpReadable` with `NoMoreOps`. `Passed(b)` says that
the cursor is behind batch b. `ExactInv` says, while the headers stand, that it is behind the
first b batches, and the output is what the intact ones of them give (`Sum`), or that and the
ops read so far of batch b. `PlacesInv` says, under any damage, that every batch clear of it
that the cursor is behind has a place in the output after those before it, or is being read;
`PassedLost` says that a batch in whose blocks a header lies is not one of those. When the scan
is done the cursor is behind every intact batch (`DonePassed`): the last byte of each is in
the file.

*Table reader.* The three properties of tables are one statement about what stands
where in the file, and one about how far the reader is in it. A block is laid out entry
by entry, each where the one before ends (`EntryLaidOut`), so the decoder has an
invariant, `Decoding`: the cursor is the offset of the first j entries of the block,
`prev_key` is the key of entry j, and `entries` are the first j pairs that the builder
put in. The key of entry j + 1 is then rebuilt from the right prefix, restart points
included, and split back into user key, type and sequence number (`KeyValuesFacts`).
The frames of the blocks lie one behind the other (`FramesApart`), so their handles
differ, and damage to one block leaves the others what they were. This is
`Situation(src, b, kind)`: the footer leads to the index, every block that is followed
reads but block b, which fails with `kind`, and b is zero when none does. One lemma for
each damage establishes it (`WholeSituation`, `FlippedSituation`, and so on); `TornFooter` says
that what is torn has no footer. `Progress(src, b, kind)` says of the reader that it
holds the handles of the blocks ahead and exactly the records of those behind it, and
that b is not behind it: it is inductive with `TypeInv`, that an error ends it
(`ErrorIsTheEnd`), and that of a torn table nothing but the footer is read. `ReadInv` is
all of these, and each of the three theorems follows from it in the state it speaks of.

*Directory scan.* `OrderInv`: nothing that is still listed comes before what is
surfaced. `Once(p)`: p is listed once at most, by an iterator that will not return it
again while it is there, and it is not listed any more when it is surfaced. Every step of
the reader keeps this of every path (`ReaderOnce`), and a step of the environment of every
path that does not come back by it (`ObserveOnce`). In any directory these are the files
that stay (`KeptOnceInv`), beside LevelDB all of them: what is listed has a number below
`next_file`, so a name that is gone never comes back (`NamesInv`).
`StableInv`: of a file that stays, the records only grow (`KeptInv`, kept by
`Environment`), and it is in the list until it is in the output (`CoveredInv`).

*Beside LevelDB.* `DBInv` is what makes LevelDB keep to `Environment`: file numbers in
the directory are below `next_file`, so a new file takes no old name; the current log
is there to be appended to; a table under construction is in the directory and
incomplete; and what is obsolete is there, is not under construction and replaces
nothing. Each of its actions then
either adds a file, lets one grow, or takes one away. `QuietInv` says for
`CompleteWhenQuiet`, while the scan runs, what distinguishes the directory from that of
the opening: if files have come since, one of them is not about to go (`NewStays`), so
that the directory never comes back to what it was; if none has, all that is listed and
surfaced was there at the opening; and of a file that is still there, what was surfaced
lies between what it held then and what it holds now (`FromFiles`).

*Values.* The first part of `LocalStorageProofs` shows that the decoders undo the encoders of Chromium, unit by
unit: `PairAt` never overlaps itself, so that the characters put together again are
the units (`Utf16ComesBack`), but for the lone surrogates, which alone are replaced.

*Decoders.* The first dash of a key is the one after its word and the first NUL the one
after its origin, since neither holds one (`PrefixDash`, `NulFacts`): this is the lemma
under every attribution. `LinkInv` says of `host_by_map` that a map-id has a host exactly
if a live namespace record up to `next` links it, and that the host is one of those;
`HostInv` carries it over to what the second pass gives out. Only then does the history
matter: all live namespace records of a map name its owner. `StandsInv` says of each
record of the Local Storage decoder what it is of its raw record.

*Dump.* `LinesWritten` says that the output is the lines before `next` and, after a
failed write, a part of the next one. What follows from it needs that the lines are
finite and not empty (`LineIsThere`, for each renderer and kind of record) and that the
beginning of a sequence of lines gives a beginning of the text (`WrittenGrows`). That a
text line breaks nowhere else is the lemma `TextLine`, proved once for any set of tokens
that has the words and, of the record, the numbers, the strings written as they are and
the values on one line; `CalmLine` takes it for the tokens without breaks. One line more
is one end more (`OneMore`), so that n - 1 ends come before line n (`EndsCounted`), and the
n-th end in the whole output is the last token of line n, since a place in a finite set
is that of one number only (`SamePlace`).

*Reading it back.* The parsers of `OutputReaders` fold a step over their input. A run of
a step is the function of the states it goes through; runs over two texts, of which one
ends where the other begins, are one run over both, and the fold gives what the run
ends in. So it is enough to know what each part of a line does to the parser, and that
each begins and ends in a state the next can begin in. Of JSON, `JsonAdds(s, more)` says
that s, read between strings, adds these items: a string that was escaped adds itself
(`EscapedReads`, for each of the characters `json_string` treats apart; the code of a
control character is decoded again by `CodePointAssumption`), anything else that holds no
quote adds itself bare. A member is a name, a colon and a value (`AddsMember`), a line
its members with a comma before each but the first (`MembersOpened`), and the items of an
object are read as the members with these names (`ItemsAreRead`). What is left is one lemma
for each kind of record, that its parts name exactly the members it shows; since escaped
text breaks nowhere, a cut line ends no line (`CutEndsNothing`), and so the theorem holds
of failed writes too. Of CSV, `CellReads(text, cell)` says that from the start of a cell
the text leaves the parser in a state that ends one, with this cell: without special
characters because it is taken as it is (`PlainCell`), otherwise because every quote is
doubled between quotes (`BetweenQuotes`); `FieldReads` is both, of `csv_field`. Cells with
a comma between them are a row, and a line feed ends it (`RowIsRead`); `InColumn` says of a
cell that it is what the record shows in this column, an empty one where it shows nothing,
and one lemma for each kind of record follows the row along the header. That the header
and the rows have the same columns in the same order is what these lemmas are about: a
cell too few, or two of them swapped, and they fail.

**Induction.** The proofs about sequences use induction stated of sets: `InductionOnSet`
says that a set with 0 and the successor of each of its numbers has all numbers, and is
proved from the well-foundedness of `<`. `FlattenSteps` uses it to show that the recursive
function under `FlattenSeq` exists, and gives one equation for each step of it.

**Model-checked only.**

- Liveness (`Terminates`, `Returns`): fairness and ENABLED are beyond the provers.

## 6. What is not modelled

- Bytes inside a field: the width of integers (sequence numbers saturate at
  `MAX_SEQ`, a u64 in the code; lengths are bounded by `MAX_U32` where the code
  converts), the polynomial of the CRC, the Snappy format. A varint that does not
  decode behaves as a length that is missing (batch) or as an error (table).
- `fs::read` is one step. A log only grows, so one that is read piece by piece is what
  it was at some moment in between, with its last batch torn at most, which
  `log_recovery` covers; a table is written once and one that is not complete yet is
  refused; and a file that is unlinked while it is open can still be read.
- A footer has no checksum: forged into the handle of another valid block it yields
  that block's records. `AllOrNothing` is about damage that can be told.
- The triage text of values of an unknown prefix; the protobuf decoder, which is
  another crate; memory use.
- Of the command line: the parsing of arguments, and the wording on the standard
  error. The result of the last `flush` is ignored by the code and not modelled:
  standard output is line buffered and every line ends with a newline, so there is
  nothing left to flush. How a path that is no UTF-8 is displayed.
- The fuzz targets, which call the parsers and state nothing of their result but that
  there is no panic.

## 7. Plan

Done, in this order: WriteBatch, LogReader and the log's writer; Sstable and the
table's builder; ReadDir, LevelDB and their composition; the values and the two
decoders; the proofs about the log reader and the directory scan; RecordScan, and
the proof that the log reader implements it; the errors of the table reader; the
renderers and the command line; the proofs about LiveScan, the values, the two decoders
and the command line; the table builder without recursion, and the proofs about the
table reader; the writer of the log as a predicate, and the proofs about what comes back
of it; the proofs that a parser reads back what the renderers write as JSON and CSV.

Every invariant and action property that a passing run checks is stated by a theorem, the
two liveness properties aside. What is left to do goes beyond the present model: the bytes
inside a field (section 6).
