# vcpkg-cache-server: models, checks and proofs

`vcpkg-cache-server` is an HTTP server for vcpkg's binary caching. It keeps one
zip archive per ABI hash on disk, a table of what it knows about those archives
in memory, and an SQLite database that counts downloads and lets a maintenance
thread evict old archives. This directory models the server in TLA+, checks the
models with TLC and proves facts about them with TLAPS. Paths and line numbers
are relative to the repository.

## 1. The system

| Component | Source | State it keeps | Operations |
| --- | --- | --- | --- |
| Store | `src/store.cpp`, `store.hpp` | `infos`: hash -> (Valid/Writing/Deleted, Info), guarded by `smtx`; the files `<root>/xx/<sha>.zip`; the streams inside `StoreReader` and `StoreWriter` | `read`, `write`, `info`, `remove`, `allInfos`, `~StoreWriter`, `scan` |
| Database | `database.hpp` | tables `packages`, `caches`, `downloads`; one shared connection with its last row id and open transaction | `getOrAddPackageId`, `getCacheId`, `addCache`, `addDownload`, `updateLastUse`, two getters |
| Handlers | `src/main.cpp` 219-283 | locals of each request | GET and PUT `/cache/<sha>`, the exception handler, `authorizeRequest` |
| Maintenance | `src/maintenance.cpp`, `main.cpp` 161-175 | `toDelete`, the transaction | an hourly pass: select and mark rows, commit or roll back, remove |
| Startup | `main.cpp` 142-159, `scan` | how far the process has started | scan the directory, delete what is no archive, add the missing rows |
| Pages | `src/site.cpp` | pointers to Infos and the lock, for the time of a request | index, find, package, compare, match: read the store, then the database |
| Listing | `src/site.cpp`, `main.cpp` 285-330 | the URL of a page, in the browser | sort, order, limit and offset of a listing; the links of a page to the next |
| Settings | `src/settings.cpp`, `functional.hpp` | the config file | defaults, config file, command line, `--generate_config`, sizes and durations as text |

How they interact. httplib runs each request on a pool thread. A handler makes a
handful of calls: each call into the store takes `smtx` for its own duration and
no longer, each database statement is atomic in SQLite and nothing groups the
statements of a handler. A GET keeps a `StoreReader` (an open stream and a
reference into `infos`) until its body has been sent; a PUT's `StoreWriter`
publishes the archive in its destructor. The maintenance thread shares the
store, the database and the *connection*: whatever any thread writes between
`begin_transaction` and `commit` or `rollback` belongs to that transaction.

What is hard here, and what each component must get right:

- **Store**: a fresh upload is Valid before its body has arrived
  (`store.cpp:90`); the Info is assigned without the lock (196); `remove`
  unlinks while readers stream (117); a throw leaves an entry half changed
  (113-117, 186, 201). It must keep to one writer per file, never truncate under
  a reader, and publish an Info only with its file.
- **Database**: read-modify-write without a transaction (`database.hpp:147-155`),
  check-then-insert (114-116), `last_insert_rowid` on a shared connection (116).
  It must never count what was not logged, nor revive a row so that the pass
  removes an archive that is being uploaded.
- **Handlers**: an optional dereferenced unchecked (`main.cpp:227`), a reference
  read late (237), a unique-constraint failure after the store has already
  changed (272). Each request must be answered, and a 200 to a PUT must leave a
  row.
- **Maintenance**: commit first, remove after (146-149); a dry run that rolls
  back what others wrote (143). It must not touch an archive being uploaded and
  must remove what it committed to.
- **Startup**: the directory and the database are two records of the same thing
  and crash separately: an archive may be cut short, a committed pass not carried
  out, an open transaction undone. Whatever the crash left, the server must begin
  with the two in agreement, and no archive may be lost.
- **Pages**: read the store, then the database, and throw if they disagree
  (`database.hpp:67`); keep pointers to Infos beyond the lock (`site.cpp:470`),
  which is sound only because no entry is ever erased.
- **Listing**: offsets into a table that grows; two URLs for every link, one that
  is fetched and one for the address bar, written apart; a mode that decides
  whether the answer is a whole page or a part of one.
- **Settings**: three sources laid over each other, in the order in which they
  are met rather than that in which they count; sizes with suffixes that
  overflow; a text that is written by one function and read by another.

`PROJECT.json` lists every hazard at its line, with the properties that watch it.

## 2. The modules

- **`Store`** is the archive store. A variable `infos` (state "Absent" for no
  entry), `disk` for the directory, `handle` for the stream that each client
  thread holds. A handle remembers the directory entry that still names its file
  (`path`), so that a truncation or a write through one stream is seen through
  every other stream on that file, and an unlink separates them. Each critical
  section and each file operation outside one is an operator; `write` has one
  operator per way out (conflict, again, discover, fresh, and the two throws).
- **`Database`** is the tables, as sequences whose indices are the row ids, and
  the statements the server runs, each with the guard that no constraint rejects
  it. `lastId` and `saved` belong to the shared connection. `DerefCacheId` is
  the set of ids that dereferencing the result of `getCacheId` may give: when it
  is empty the code's behaviour is undefined and any id is possible.
- **`CacheServer`** composes both with the threads: `pc[w]` is where the handler
  of thread `w` stands, and every action is one store call or one statement.
  `RacingInfos(s)` is what a read of the entry may find while `~StoreWriter`
  assigns it without the lock: the old Info or the new one. `Throw` is the
  exception handler: whatever the handler has done so far stays.
- **`ArchiveCache`** is the abstract promise: per hash nothing, uploading, an
  archive, or broken, with the steps allowed between them. `CacheServer`
  implements it under the mapping `ContentOf`.
- **`Maintenance`** is the choice that `CacheServer` leaves open: which rows a
  pass marks. The age and unused limits walk the table with a cursor whose
  condition sees each row when the cursor gets there; the two space limits first
  ask which scopes (packages, then the whole cache, `All`) exceed their limit,
  then walk the rows of each in an order that SQLite fixed when the cursor was
  opened. One step of a cursor is one action, so requests can come between: an
  upload adds a row (`Upload`), and a download takes a copy of a row (`Fetch`) and
  later writes it back with all its columns (`WriteBack`), which undoes what
  happened to the row in between. Such a copy may have been read before the pass
  marked the row, and revive it; or after, and then take a row that another
  request has revived out of its scope again, under a cursor that counts on it.
  `withdrawn` remembers the rows of the second kind, and `Held` is what is live or
  withdrawn: but for those a pass marks live rows only (`MarksOnlyLive`), which is
  what `MaintainMark` of `CacheServer` allows, and only while a scope fills its
  limit (`OnlyWhileOver`). Times are counts since the file
  clock's epoch, which is in the past with libc++ and MSVC and in the year 2174
  with libstdc++, so both signs occur.
- **`Pages`** adds to `CacheServer` the pages that read the store. `allInfos`
  returns a view that keeps `smtx` shared for as long as it lives (`WrapWithLock`,
  `store.hpp`): `find` walks it row by row and asks the database in between. The
  lock is modelled as in the code, by who takes it and how: `SharedHolders` are
  the walking pages, `Exclusive` are the steps that run under a `scoped_lock`
  (`write`, the publication in `~StoreWriter`, `info` where it enters a file,
  `remove`), and an exclusive step waits for the shared holders. `~StoreWriter`
  assigns the Info without it, so that step does not wait. `index`, `compare` and
  `sha` keep only pointers (`held`). `page[w].busy` remembers whether some
  archive lacked its Info or a row when the page first looked.
- **`Restart`** is the life of the process around `CacheServer`. `Crash` may come
  between any two steps: it may cut the files of streams that are not closed,
  undoes the open transaction and forgets the memory. `ScanFile` and the
  `Record*` actions are the scan and main's loop, a file and a statement at a
  time, themselves open to a crash; `MaintainAbandons` is a pass that throws
  with its transaction open. The scan removes a file on any exception out of
  `extractInfo` (`store.cpp:130-134`), a good archive that did not open (144)
  included: with `DiskFaults` every file may be `Unextractable`.
- **`DurableCache`** extends `ArchiveCache` by what the cache promises across the
  lives of its process: the end and the start of it take no archive, except that
  where files may fail to open (`Faulty`) a start may `Forget` one. `Restart`
  implements it.
- **`Listing`** is one browser tab on the listing pages. An answer of the server
  depends on the parameters of a URL, and the URLs are those that an earlier
  answer contained: the module follows that loop through `main`'s parsing. The
  parameters are a record (`NoParams`); a text that the parser takes for no
  value is `Garbled`. A listing is a set of row ids, its order being what decides
  which rows a page of it has.
- **`Settings`** is `settings.cpp` with the YAML converters: `Defaults`, `Load`
  (parseConfig), `Override` (the arguments), `WithPort`, `Document`
  (generateConfigYaml) and the texts of sizes and durations, and a machine that
  writes config files, generates them, and starts and stops servers with them.
- **`MCCacheServer`**, **`MCPages`**, **`MCRestart`**, **`MCMaintenance`**,
  **`MCListing`** and **`MCSettings`** give the constants small values.
- **`CacheServerProofs`** (types), **`UploadProofs`** (what the uploads of a hash
  keep), **`CacheProofs`** (the promise of the cache, downloads, counters, rows),
  **`PagesProofs`**, **`RestartProofs`**, **`MaintenanceProofs`**,
  **`ListingProofs`** and **`SettingsProofs`** hold the theorems.

`Store` and `Database` are composed in `CacheServer`, which `Pages` and `Restart`
extend, each by what it adds; `Maintenance`, `Listing` and `Settings` share no
state with them beyond what their comments name.

Abstractions. An archive is a model value that stands for content, size and
Info together; `Partial` is any file that `extractInfo` rejects. Of a row only
the columns that the properties tell apart are kept. Timestamps, ips, users,
logging and HTML are left out. A body arrives in one step (`PutReceive`); the
truncation before it and the publication after it are steps of their own, so a
reader can be in front of, behind or between them. `~StoreWriter` reads the file
in one step. SQLite itself does not fail. Opening a file (for writing, for a
download, or in `extractInfo`), closing one and `filesystem::remove` may fail only
when `DiskFaults` is TRUE; a pass of `Restart` may throw halfway in any case. Another
process may add files
(`External`), which the README of the server invites, but does not delete or
change them.

## 3. The checks

The runs of the server have two request threads: with one less nothing races, the
code treats all threads alike, and the interesting interleavings are of two
requests for one hash, or of a request and the maintenance thread.

| Run | Instance | What it shows |
| --- | --- | --- |
| `server` | `Pages`: one hash, two archives, one package, any start with at most one row per table, no new GET once a counter has reached 1 | `TypeOK`, `OneUpload`, `StreamsComplete`, `ValidOnDisk`, `CountsWithinLog`, `AcknowledgedIsRecorded`, `ImplementsCache` and `UploadInv`, the inductive invariant of section 4, which contains `LiveRowsSettled`; of the pages `FailsOnlyIfBusy`, `WalkIsStable` and `HeldEntriesStay` |
| `faults` | `Restart`: one hash, one archive, another process, GETs, crashes anywhere, passes that throw, and file operations that fail, those of the scan included | `SurvivesRestart`: no crash takes an archive and nothing is half done after it; a scan that cannot open an archive may take it, and nothing else may; `ServesInAgreement`: memory, directory and tables agree whenever it begins to serve; `CountsWithinLog` across lifetimes; `AcknowledgedIsRecorded`; `OneUploadUnlessRevived` and `ValidOnDiskUnlessRevived` |
| `dryrun` | `CacheServer`: one hash, one archive, dry-run passes | `LiveRowsSettled` and `DryRunKeepsArchives`: the rollback may take rows away, but none that comes back alive has its upload running |
| `liveness` | `CacheServer`: one hash, one archive, well-formed bodies, empty start, no other process (`External = {}`), file operations that may fail | `RequestsAnswered`, `PassEnds`, `VictimsEvicted`; `UploadsLand`: an upload becomes readable, unless its file could not be closed or read back (`store.cpp:193-203`), which leaves it unpublished |
| `maintenance` | every setting of the four limits, two packages, tables of up to three rows; tables of up to two with two requests that may each hold a copy of a row, and two writes of requests during the pass | `WithinLimits` and `LeastRecentFirst` of an undisturbed pass, `TypeOK`, `OnlyWhileOver` and `MarksOnlyLive` of any |
| `listing` | two packages, pages of two rows or (by a bookmark) of one, up to three downloads before the tab opens and four in all | `NoSkips` and `RepeatsWithinArrivals` of a listing that is read while downloads go on; `AddressIsOfContent` and `NestsOnlyFromFind` of every chain of clicks |
| `settings` | the command lines and files of `MCSettings`, units of 10 for 1000, words of 16 bits | `GeneratedReloads`, `OneSource` |

Bounds of the server. `MaxDownloads` stops new GETs, not running ones: two GETs may
both have started under the bound, so counters reach 2 and an update can be lost.
`MaxInitialRows` bounds the tables at the start; they grow from there by at most
one row per hash and package, because both names are unique. A pass may mark any
live row, so `toDelete` is bounded by the rows. Two archives for one hash let an
archive be replaced by another between an eviction and an upload; two hashes and
two packages are used where a property relates them (`wrong_package`). `faults`
has as many lifetimes as TLC needs to reach every state, not a number of them; its
tables are empty at first and filled by what an earlier lifetime did. Counters,
lifetimes and failing files multiply, so there `NamelessUncounted` cuts the states
in which a cache is read or counted beside the row of an empty Info; `server`, with
two archives, has those. A start may lose an archive in `faults`, because its scan
may fail to open it; that a start on a disk that works loses none is not a run but
the theorem `ArchivesSurvive` with `DiskFaults` FALSE.

Bounds of `Maintenance`. Sizes 1 and 2 against a limit of 2 give scopes below,
at and above it, and overflows that one row exceeds, meets or falls short of.
Three rows are the least for a row that is evicted, one that the loop then stops
at, and one of the other package. Two clocks, one on each side of -1 and far
enough that no other time is -1; rows are one or two ticks old against an age
limit of one, so both sides of `<` occur. Sizes are summed exactly: SQLite's
`total` is a double, exact below 2^53. A limit of 2^63 or more is left out: bound
into the query of the packages as a signed integer it is negative, and every
package would be over it. Requests leave a table alone that is full when the pass
begins. Two copies and two writes are what it takes to revive a
row and to withdraw it again: with `Live` for `Held`, TLC finds `OnlyWhileOver` and
`MarksOnlyLive` violated within these bounds.

Bounds of `Listing`. Four downloads in pages of one or two rows are at most five
pages, the last of them empty; the log grows by one to four rows between any two
pages. A limit of one differs from the page size, so that a link which took one
for the other would skip or repeat. Two packages, so that a selection leaves
rows out, a sort by name differs from one by time, and one by downloads changes
when a counter moves.

Bounds of `Settings`. Unit factors of ten keep numbers small and still leave
sizes that no suffix divides, that one divides and a larger one fits, that are
zero, and that wrap. The command lines combine no, one and two tokens, both, one
and neither of certificate and key, a port or none, a text that YAML changes;
the files add every kind of field, a pair that is half there, and texts that
the converters reject. Every chain of writing, generating, starting and stopping
over these is explored.

Fairness (`FairSpec`). Weak fairness of each thread's handler and of a running
maintenance pass: the pool (`main.cpp:179-191`) runs what it accepted, httplib's
read timeout ends a body that never comes, and no call blocks indefinitely (the
store's lock is held only inside calls that end). Accepting a request and
starting a pass are not assumed to happen. A file that cannot be removed ends the
maintenance thread for good (`main.cpp:170`), which is why `PassEnds` and
`VictimsEvicted` allow for its death.

Deadlock is checked in every run but those of `Maintenance`, whose behaviours are
one pass and end with it: the server can always accept a request or, at the
bounds, start a pass, a tab can always be reloaded, and a command line always
be given.

Why `OneUploadUnlessRevived`. Within one lifetime a row that `updateLastUse` has
brought back to life harms nobody: its hash has been marked, its entry is
Deleted or about to be, and a Deleted entry is Writing, never Valid, while it is
uploaded again. But a restart forgets Deleted entries. If the process starts with
such a live row and no file, the hash is absent; its next upload is a *first*
one, whose entry is Valid from the start, and a pass that marks the row may
remove it meanwhile and let a second upload begin on the same file. `revived` is
the set of those hashes, and the properties of `Restart` claim nothing for them.

### What the runs marked `violation` show

Each is a sentence of the repository that the code does not keep; the finding in
`PROJECT.json` quotes it.

- `info_race`: a GET during an upload answers 200 and announces the size of one
  Info for the file of another. `store.hpp:88` says that `smtx` synchronizes
  `infos`; `store.cpp:196` assigns without it, and `store.cpp:90` publishes the
  entry before the body.
- `wrong_package`: two PUTs insert two packages, then both ask the connection for
  the last row id: the first archive is recorded under the other's package, and
  counts there ever after.
- `reupload`: evict, upload again, and the archive is served for ever with a
  deleted row; the PUT that brought it was answered 500.
- `dryrun_rows`: a dry run removes the row of an upload that ended during it.
- `unused`: `max_unused` evicts an archive that nobody had time to download yet,
  since its `lastUsed` is -1 (`database.hpp:61`). With a clock whose counts are
  negative the same -1 protects such an archive for ever.

Other behaviour a reader may meet in the models, and that no run claims to be
wrong:

- Two overlapping GETs may count one download (`updateLastUse` writes back a
  copy); `CountsWithinLog` says only that a counter never exceeds its log.
- Two requests that read a row before and after a pass marked it may write their
  copies back in either order. The row is then live, or deleted again, whatever
  the pass decided; if it is deleted again while the pass counts on it, the pass
  takes other archives although the scope is below its limit.
- A start deletes a good archive that it fails to open.
- `settings.cpp:161` calls `max_package_size` the maximum size "for a single package
  cache entry". The query (`maintenance.cpp:77`) sums the entries of a package, so
  two entries that are each within it may be over it together; `WithinLimits` and
  `OnlyWhileOver` speak of that sum.
- `maintenance.cpp` 98 and 132 compare with `>`, so a scope that fits its limit
  exactly loses one more archive; `OnlyWhileOver` says `>=` for it.
- The link to the next page formats a `std::optional<Order>`, which gives no name
  of an order: an ascending listing goes on in descending order. `NoSkips` is
  about descending ones. A listing by downloads may skip, since a counter that
  moves reorders it.
- `find` hands its column buttons a path that has parameters already; the second
  `?` garbles the mode and drops the sort. The answer is a whole page, put into
  the page. The search field pushes no address, and the buttons of a searched
  index drop the search.
- A generated config names the port. One generated without a certificate names
  80, and a later `--cert` serves TLS there.
- A size beyond 2^64 wraps and is accepted; the generated file then names the
  wrapped one, which is what reloads.
- If the archive of a committed pass is not removed before a crash, it is served
  again with its row still deleted (`reupload` reaches the same state another way).

## 4. The proofs

Every theorem holds for any sets of hashes, archives, packages and threads, for
tables of any length, and for either value of `DryRun` and `DiskFaults`; those of
`Maintenance` for any table, limits and times; those of `Listing` for any
packages, logs, limits and page size; those of `Settings` for any command lines,
files, unit factors and width of a word. The only assumptions are the ones the
modules declare: `StoreConstants`, `ServerConstants`, `RestartConstants`,
`MaintenanceConstants`, `ListingConstants` and `SettingsConstants` (the markers
such as `NoInfo` or `Absent` are not ordinary values, every archive has a
package, the bounds and factors are numbers, and there are finitely many hashes:
the routes match 64 hexadecimal digits, `main.cpp` 220 and 254). None is about
behaviour.

| Theorem | Module | Statement |
| --- | --- | --- |
| `TypeCorrect` | `CacheServerProofs` | `Spec => []TypeOK` |
| `UploadInvariant` | `UploadProofs` | `Spec => []UploadInv`, the inductive invariant of the next three |
| `OneUploadAtATime` | `UploadProofs` | `Spec => []OneUpload`: no two `StoreWriter`s of a hash |
| `LiveRowsAreSettled` | `UploadProofs` | `Spec => []LiveRowsSettled`: no live row names a hash whose first upload is running, or failed |
| `ReadableIsOnDisk` | `UploadProofs` | `Spec => []ValidOnDisk`: a readable entry publishes what is on disk |
| `ServerImplementsCache` | `CacheProofs` | `Spec => ImplementsCache`: the refinement of `ArchiveCache` |
| `StreamsAreComplete` | `CacheProofs` | `Spec => []StreamsComplete` |
| `CountersWithinLog` | `CacheProofs` | `Spec => []CountsWithinLog` |
| `AcknowledgedAreRecorded` | `CacheProofs` | `Spec => []AcknowledgedIsRecorded` |
| `DryRunsKeepArchives` | `CacheProofs` | `Spec => DryRunKeepsArchives` |
| `PagesKeepUploads`, `PagesKeepPromises` | `PagesProofs` | all of that of `PagesSpec`: with the pages served too |
| `HeldEntriesAlwaysStay` | `PagesProofs` | `PagesSpec => []HeldEntriesStay`: the pointers of a page stay good |
| `WalksAreStable` | `PagesProofs` | `PagesSpec => []WalkIsStable`: a walk sees one set of archives |
| `PagesFailOnlyIfBusy` | `PagesProofs` | `PagesSpec => []FailsOnlyIfBusy` |
| `ArchivesSurvive` | `RestartProofs` | `RestartSpec => SurvivesRestart`: the refinement of `DurableCache` |
| `StartsInAgreement` | `RestartProofs` | `RestartSpec => ServesInAgreement` |
| `OneUploadInEachLifetime` | `RestartProofs` | `RestartSpec => []OneUploadUnlessRevived` |
| `ReadableIsOnDiskInEachLifetime` | `RestartProofs` | `RestartSpec => []ValidOnDiskUnlessRevived` |
| `CountersWithinLogInEachLifetime` | `RestartProofs` | `RestartSpec => []CountsWithinLog` |
| `AcknowledgedAreRecordedInEachLifetime` | `RestartProofs` | `RestartSpec => []AcknowledgedIsRecorded` |
| `LeastRecentlyUsedGoFirst` | `MaintenanceProofs` | `Spec => []LeastRecentFirst` |
| `ListedRowsAreLive` | `MaintenanceProofs` | `Spec => MarksOnlyLive` |
| `LimitsAreKept` | `MaintenanceProofs` | `Spec => []WithinLimits` |
| `TakesOnlyWhileOver` | `MaintenanceProofs` | `Spec => OnlyWhileOver` |
| `ExpiredRowsAreGone` | `MaintenanceProofs` | `Spec => []ExpiredRowsGo`: the limits on time are respected as soon as their loops are past |
| `PassTyped` | `MaintenanceProofs` | `Spec => []TypeOK` of the pass |
| `AddressesNameContent` | `ListingProofs` | `Spec => []AddressIsOfContent` |
| `NestsOnlyThere` | `ListingProofs` | `Spec => NestsOnlyFromFind` |
| `NothingIsSkipped` | `ListingProofs` | `Spec => []NoSkips` |
| `RepeatsAreArrivals` | `ListingProofs` | `Spec => []RepeatsWithinArrivals` |
| `SizeRoundTrip`, `DurationRoundTrip` | `SettingsProofs` | a size below a word, and any duration, is read back from its text unchanged |
| `GeneratedConfigReloads` | `SettingsProofs` | `Spec => []GeneratedReloads` |
| `OneSourceAlways` | `SettingsProofs` | `Spec => []OneSource` |

`TypeOK` is inductive by itself. Its lemmas follow the modules: one per file
and entry operation of `Store`, one per statement of `Database`, one per handler.

### Uploads, hash by hash

`OneUpload`, `ValidOnDisk` and `LiveRowsSettled` are not inductive, and they need
each other. `remove` (`store.cpp:109`) takes any Valid entry to Deleted, and the
entry of a first upload is Valid before its body arrives; were it removed, a
second PUT would get a writer for the same file. What prevents it is that
`remove` is only called for hashes that had a live row, and the row is added
after the writer is gone. But rows do not just appear in `addCache`:
`updateLastUse` writes back copies that may be old, a rollback puts whole tables
back, and the list of a pass is acted on after the commit. `UploadInv` is
`TypeOK` and, for each hash, `HashInv`:

- `OneUploadOf` and `OnDisk`, which are the properties of one hash;
- `WriterInOrder`: the entry of a running upload is Valid or Writing, the states
  in which `write` refuses (`store.cpp:75`); what the writer extracted is on disk
  when it assigns it; and until then a Valid entry has no Info;
- a PUT that is about to record its hash is `PastUpload`: there is an entry, and
  it is not Valid while an upload of it runs (it may be Writing);
- a hash that is `Named`, by a live row, by the copy of one that a request holds,
  by the tables of an open transaction, or by the list of a pass, is `Settled`:
  past its upload, and with an Info if it is readable.

Because the invariant is a conjunction over hashes, so is its proof. For a hash a
step is *calm* (its entry, its file and the threads that write it stay as they
are, a recorder may leave) or *stirs* it in one of six ways: an upload begins,
goes on or ends, `write` notices a file or fails to open one, a pass evicts the
entry, another process adds the file. `OneHashStep` shows for every action that at
most one hash is stirred; after that the invariant is about those seven kinds of
step and no longer about forty actions. Where rows come from is followed
separately: every row after a step was there before, in one of the places that
`Named` lists, or names the hash that a recorder adds.

### What clients rely on

- `ServerImplementsCache`. `ContentOf` looks at one hash only, so `ContentStep`
  gives what a stirring step does to it, and each case is a step of `ArchiveCache`:
  an ending upload yields an archive or a broken entry since it is the only one
  and its entry has no Info before (`WriterInOrder`); an eviction finds an archive,
  not a broken entry, since the hash is named (`Settled`).
- `StreamsAreComplete`. A reader whose stream still has a name in the directory
  reads a `Firm` file: one that is published or about to be, hence written by
  nobody. A file stops being firm only by an eviction, which also takes its name
  away. With `DiskFaults` it need not, which is why the property excludes them.
- `CountersWithinLog`. A GET logs first and counts two statements later, so the
  invariant keeps a reserve: `Spare(k)` is the number of logged downloads less
  the number of threads that have yet to count one, and neither a counter nor
  any copy that a thread may write back exceeds it.
- `AcknowledgedAreRecorded`. A PUT can miss its own entry after its upload
  (`main.cpp:269`) only if a pass has evicted it meanwhile, and a pass takes only
  what has a row; `RecordInv` says so of every hash that is Deleted, Writing, or
  on a list (`HashRecorded`), and of each thread what it has drafted so far
  (`LocalsInOrder`, `RecordInOrder`).
- `DryRunsKeepArchives`: `remove` is out of reach of a dry run, and of the other
  kinds of step none makes a readable entry unreadable.

### With the pages, and across restarts

`PagesProofs`. A step of a page leaves the variables of `CacheServer` alone and
any other step is one of `CacheServer`, so `PagesSpec` implements `Spec` and
keeps everything proved of it. That no entry is erased follows from the seven
kinds of step, each of which leaves an entry that is there there still.
`WalkIsStable` is the sufficiency of the locks: `StatesNeedTheLock` goes through the
steps of the server and shows that one which is not `Exclusive` makes no archive
readable and none unreadable, the unlocked assignment of an Info included; a page
that begins to walk starts from what is readable, and no exclusive step is taken
while it walks.
`FailsOnlyIfBusy` rests on `PageInOrder`: a page that was not busy
at its first look still finds what it has to look up, since rows stay and keep
their hash, packages stay and keep their name (`PackageNamed`, for the write-back
of a package), and an entry with an Info keeps one (`Shown`).

`RestartProofs`. `RestartInv` follows the process. While it starts it is
`Resting`: nothing of the last lifetime is left but files and tables. During the
scan each hash is `Entered` with the archive on its disk, or unknown, with its
file, if any, still to be visited; during main's loop each is `Catalogued`, with a
row or still to be visited. `OrderVisitsAll` is why none is forgotten: the order
in which a directory is read is some sequence without repetition as long as the
set, hence has all of it (a pigeonhole argument). At `Serve` this gives `HashInv`
for every hash but the revived ones, and from there the lemmas of `UploadProofs`,
which are about one hash each, carry it to the next crash; the exception costs
nothing since `HashInv` of one hash never needs that of another. The crash itself
cuts files short that a stream still writes: `WritesOwn` and `NamesFile` say that
those are the files of running uploads, whose content is `uploading` and may be
lost, and `UniqueShas` that a hash has at most one row, in the tables and in those that
the crash may bring back. The refinement of `DurableCache` is then by the phase of
the process: `DurableContent` is the disk while it starts and `ContentOf` while it
serves, and the two agree at both ends. The counters of an open transaction go
back together with their log (`CountsRestore`). That a 200 means a row is shown for
each thread apart (`RecordsRestart`): if it serves a revived hash a pass may
have taken the entry that it uploads, and `RecordInOrder` says nothing of it, but
the live row that revived the hash is still there; any other hash is in order.

### Maintenance, listings and settings

`MaintenanceProofs`. `PassInv` holds whatever requests do: the rows that a cursor
still has to visit are held and distinct (`CursorInv`), since the order of a query
has each row once (`OrderHasEach`), a mark takes the row out of the cursor, and
a request that takes a live row away leaves it withdrawn (`Disturbed`).
`ListedRowsAreLive` follows. `UndisturbedInv` adds,
as long as nobody disturbs the pass, that the open cursor has *all* live rows of
its scope in order of use, so that the row it takes next is the least recent, and
that the walk by age or by use has left nothing expired behind its position
(`WalkedInv`), which the marks it sets itself do not change.

The limits on space compare sums. A sum over a set is a fold, and an induction
over sets is beyond the provers as a rule; but if some subset of a finite set
broke a law there would be a least one that does (`LeastSet`, from the library's
well-foundedness of finite subsets), and each law is refuted at that one: that the
fold's function exists and is unique (`SumExists`, `SumsAgree`), that any row may be
taken out first although the fold picks its own order (`TotalWithout`), and that
sums depend on sizes only (`TotalSame`) and grow with the set (`TotalMonotone`).
`OverInv` is the balance of the loops whatever requests do: what is held of a scope
and what was taken of it come to its limit and its excess at least, since the
query counted no more than what is held (`LiveIsHeld`), a request only adds to
that (`DisturbedFilled`), and the scopes do not overlap;
and a loop that goes on has not taken more than the excess. `OnlyWhileOver` is that
inequality. In an undisturbed pass nothing is withdrawn and they are equal, and every scope that has been
compared with its limit is within it or `Pending` (`SpacesInv`): a loop ends when
it has taken more than the excess or when its cursor is empty, which by
`CursorOver` means that the scope is (`EndedScope`). At the end nothing is pending.

`ListingProofs`. `AddressIsOfContent` is inductive: each action writes the fetched
URL and the one it pushes from the same parameters, and a reload takes the pushed
one for both. `NestsOnlyFromFind` is one step of the action, given that the tab
is the record that every page makes of it (`IsTab`).

`NoSkips` and `RepeatsWithinArrivals` are about the *place* of a row: how many
rows of its listing come before it. No two rows have one place, and no place is
empty up to the last (`PlacesFilled`, a pigeonhole argument), so that a page of a
descending listing has the rows whose places lie within its offset and limit
(`RowsByPlace`). Rows of a log keep their keys and so their order; a row that
arrives takes one place, and the others keep theirs or move back by one
(`PlacesMove`). So none is ever moved over a boundary towards what was read
already, which is why nothing is skipped, and each arrival pushes at most one row
over the boundary before the next page (`OneIsPushed`). `ReadInv` keeps that
balance: the rows shown twice and the rows seen that wait to be shown again
(`Pushed`) are at most the arrivals.

`SettingsProofs`. `GeneratedReloads` is inductive together with what it says of the
file: `MadeInFile`, that the file is the document of `made` if that is plain, and
`made` within `SettingsType`, whose sizes are below a word; `Reload` then goes field by
field, through the two round trips. `RunsAsTold` ties the running settings to the
line and the file they were parsed from, from which `OneSourceEach` follows for
each field.

### Only model-checked

- The liveness properties: fairness and `ENABLED` are beyond the prover.
- The sentences that the code does not keep (section 3), of which TLC gives the
  counterexample.

Every invariant, action property and refinement that a passing run checks is a
theorem as well.

## 5. Not modelled, and the plan

Not modelled, and not planned:

- Logging, HTML and layout, the process-status page, `match` and the assets: they
  only read, and no state depends on them. The string and range helpers are
  modelled where a module uses them.
- The build, the continuous integration and the tests; the tests are read for
  what they claim.
- Texts that a converter accepts in part (`from_chars` reads `12abc` as 12), and
  durations beyond 292 years, whose conversion to ticks overflows.
- `sortidx` above 7, which indexes an array unchecked (`site.cpp:869`): no page
  writes such a link.
