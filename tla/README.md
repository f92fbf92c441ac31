# Formal models of blobber

TLA+ models of blobber, a client that stores directories as eStargz layers in
OCI registries, with the TLC instances that check them and the TLAPS proofs of
the invariants that matter most. The models follow the Go source; every
definition that models code is mapped to its lines in `PROJECT.json`.

## 1. Inventory

| part | state | operations | talks to |
|---|---|---|---|
| cache, eager (`internal/cache/cache.go`) | `<digest>`, `<digest>.partial`, `<digest>.tmp`, the entry file, `c.mu` | `Open`, `OpenStream`, `Prefetch`, `LoadCompleteEntry`, `Evict`, `Clear`, `downloadBlob`, `resumeDownload`, `fullDownload` | registry (`FetchBlob`, `FetchBlobRange`), other processes through the directory |
| cache, stream-through (`cache.go`) | the same files, hash and offset of a `cachingReader` | `OpenStreamThrough`, `Read`, `Close`, `drainToCache` | the same, without `c.mu` |
| cache, lazy (`cache.go`, `lazy_handle.go`) | the partial file, the entry in memory and on disk, `h.mu`, `h.fetchMu` | `OpenLazy`, `ReadAt`, `verifyAndComplete`, `saveProgress`, `Close` | registry ranges, `Prefetch` of the same digest |
| range arithmetic (`ranges.go`) | none | `mergeRanges`, `addRange`, `findGaps`, `totalCoverage`, `isComplete`, `containsRange`, `findGapsInRange` | entry, resume, lazy reads |
| entry files (`entry.go`, `security.go`) | `<digest>.json` and its `.tmp` | `loadEntry`, `saveEntry` | every cache operation |
| prune and statistics (`prune.go`) | all entries, sizes, access times | `Prune`, `Size`, `Entries`, `evictLocked`, `cleanupOrphanedRefs` | entries, reference index |
| reference index (`refindex.go`), tag lists (`tagindex.go`) | ref to digest with a time; tags with a time | `LookupByRef`, `UpdateRefIndex`, `ListTags` | client, prune, registry |
| client (`client.go`, `pull.go`, `push.go`, `image.go`) | an open `Image`, a pinned digest | `OpenImage`, `Pull`, `Push`, `verifySignature`, `Image.Open`, `Image.Close` | cache, registry, archive, signer, verifier |
| archive (`internal/archive`) | pipe and goroutine of a build; counters of an extraction | `Build`, `Extract`, reader | file system |
| registry (`internal/registry`) | connection, descriptor cache | push, pull, resolve, referrers | HTTP |
| sigstore, CLI, progress, options, test support | configuration | adapters | the parts above |

What is hard in it:

* **The cache directory is shared** by goroutines of one process and by
  processes (a pull, a cron job that prunes, a second command line). `c.mu`
  belongs to one `Cache` value; a stream-through takes it for nothing but the
  hit path, a lazy handle for nothing but `OpenLazy`.
* **Three names, one entry.** A blob is right only if file and entry agree, and
  they are written one after the other, with failures and kills in between.
* **Descriptors outlive names.** A handle reads an inode that may have been
  unlinked, renamed or replaced; a writer may be writing to one.
* **Partial data.** Ranges in an entry vouch for bytes in a sparse file, where
  a byte nobody wrote reads as zero.
* **The registry** refuses, ends a body early, does not serve ranges, or sends
  the wrong bytes; tags move and signatures appear between the requests of one
  call; every request of a push may be its last.
* **Two goroutines and a pipe** make a layer: each end must notice when the other
  gives up. The source tree may change under the walk.
* **An image has two locks** above each other, a user's callback under the first
  and a network request under the second.

What makes each part correct: the eager cache never installs or hands out
anything but the blob, answers every call, and leaves no temporary file; a
stream-through never marks an unverified file as verified; a lazy handle never
serves bytes it has not fetched; the range functions compute the set they stand
for; an eviction takes nothing away from who has the file open; a prune keeps
the most recent entries within the limits and no reference to what is gone; the
client opens what it verified; a build ends in every error path.

## 2. Modules

```
cache    CacheDir ──┬── EagerCache ── EagerProofs   MCEager
                    ├── StreamThrough ─┐
                    └── LazyCache ─────┴ SharedCache (all) ── SharedProofs   MCShared
         BlobSource   the abstract specification of EagerCache
reads    Ranges ── RangeFetch ── ImageReads ── ReadProofs   MCReads
         ByteSet      the abstract specification of RangeFetch
index    RefCache ──── RefProofs       ┐
         TagLists ──── TagListProofs   ┴                     MCRefs
client   ImageRegistry ──┬── PushImage ─┐
                         └── PullImage ─┴ Client ── ClientProofs   MCClient
archive  Tar ──┬── BuildArchive ───┐
               └── ExtractArchive ─┴ Archive ── ArchiveProofs      MCArchive
folds    FoldProofs   lemmas that RefProofs, ArchiveProofs and ReadProofs use
```

### The cache directory

**CacheDir** is the directory of one digest. A file is an inode with a *span*
(chunks below its end) and the *good* chunks (right bytes); a hole is in the
span and not good. `name` maps the three names to inodes, `fd` each actor to
the inode it has open, `entry` is the metadata: none, partial with ranges, or
complete (the code writes Complete and Verified together, so they are one
state). An actor is a goroutine, `Proc` its process, `mu` the holders of the
processes' mutexes. `DirInit` is any directory that earlier sessions leave: a new
one, partial reads, a finished download, an eviction cut short after the blob or
after the partial file, orphans of killed writers. Shared operations are here:
the hit path (`Begin`, `LoadCompleteEntry`, `OpenHit`, `TouchEntry`), the three
steps of `evictLocked`, `Clear`, the copy to `.tmp`, and the kill of a process.

**EagerCache** adds `downloadBlob` in its steps: lock and second look, resume
(`FetchGap`, `GapFails`, `GapNotSupported`, `VerifyResumed`, `InstallResumed`),
full download (`RemovePartial`, `FetchBlob`, `Copy`, `DiscardDownload`,
`InstallDownload`, `SaveComplete`) and the final open. A call that fails ends in
"failed" when the registry or the disk refused something and in "broken" when
nothing did: the difference is the property `NoBrokenOpen`.

**StreamThrough** is `OpenStreamThrough`: the sweep of a stale partial file, the
tee, and what `Close` does. **LazyCache** is `OpenLazy` and the handle: each
`ReadAt` of an interval computes its gaps, fetches, records and saves; when
everything is there the file is hashed, renamed and reopened. The hash, the rename
and the open may each fail: a file that could not be hashed stays partial, a rename
or an open that fails leaves a handle that says it is complete and has no file.
`refused` is the history of that, and `calm` another: nobody was killed, evicted,
refused a save or sent wrong bytes.
**SharedCache** puts all of them on one directory.

**BlobSource** is what `contracts.BlobSource` promises: a call is answered with
the blob or refused, what is stored is the blob or nothing, and nothing else
ever shows.

### Reads of an image

**Ranges** has the functions of `ranges.go` on sequences of `[Offset, Length]`; each
loop of the code is a left fold over its own step (`Absorb`, `Skip`, `Clip`,
`AddLength`). `sort.Slice` is not stable, so `sortByOffset` leaves open which of two
ranges with one offset comes first. **RangeFetch** is the loop of a `ReadAt` that
computes gaps, fetches them one by one and adds them; it starts from the ranges of an
entry file, in any order and overlapping or not. It implements **ByteSet**: that is
what justifies the set of chunks that CacheDir keeps in place of range slices.

**ImageReads** is one `Image` above that loop and the goroutines that use it:
`Open`, `List` and `Walk` under `img.mu`, readers that outlive them, reads under
`h.mu` (or of a temporary file, which has no lock), and a `Close` at any time.
`img.mu` is a `sync.RWMutex`: a writer that waits keeps new readers out
(`CanRLock`).

### The indexes

**RefCache** looks at the cache directory from further away: a digest has a
complete entry with its time of last access or none, a blob or none. It has
`Prune` step by step (the selection by age and then by size, the evictions one
by one, each of which may fail, the cancellation between two, the cleanup of
references), the reference index with its TTL, and the call of the client that
uses them: `LookupByRef`, `hasCachedBlob`, `ResolveLayer`, `UpdateRefIndex` and
the open, with its hit, self-healing and download. A process has one client, made
with or without a descriptor cache (`memo`): with one, `ResolveLayer` answers what
the client remembers, whatever the tag is now, and otherwise asks
(`resolveLayerDescriptor`) and remembers. Time passes (`Tick`) and tags
move in the registry (`MoveTag`) between any two steps. Three history variables
belong to the properties: when the registry last gave a digest for a reference,
when it answered a caller, and when the last completed prune began; and so does the
mark `recalled` of a mapping that was stored from memory.

**TagLists** is `ListTags` of several processes on one file: the lookup within
the TTL, the request, and the save in its steps, the write of a temporary file
whose name all processes share and its rename. A file is a sequence of pieces,
so two writers can mix their lists in it, a failed write leaves a piece, and a
kill leaves anything. Entries and references are saved by the same code
(`saveEntry`, `saveRefEntry`).

### Client and registry

**ImageRegistry** is the registry as `internal/registry` uses it: blobs,
manifests, indexes, tags, referrers. Other tools publish images and attach
signatures of any kind at any time (`Publish`, `Attach`). The resolution of a
reference to a layer (index, platform, manifest, exactly one layer) is here.

**PushImage** is a push after the archive is built, one step per request, each
of which may fail or be the last: layer, config, manifest, tag, and with a signer
the manifest read back by its digest, the bundle, the subject and the referrer.

**PullImage** is `Pull` and `OpenImage` without a cache. With a verifier it is
`verifySignature` request by request: the index, its platform manifest, the
referrers of each, signature by signature, and the pin to the digest that was
verified. Then the reference is resolved, perhaps from the memory of the
registry client (`WithDescriptorCache`, `memo`), the layer fetched and its
digest compared. **Client** composes the two with the other tools. The histories
`asked` (what the tag pointed to during a call) and `known` (which signatures
there were when it began) belong to the properties.

### Archives

**Tar** is an entry: a name, a type, a length. **BuildArchive** is
`Builder.Build`: the goroutine that walks the tree and writes the tar stream, the
unbuffered pipe, the caller that compresses and then waits for the result
channel, and somebody who edits the tree meanwhile. A write that meets a closed
pipe fails, a file that grew or shrank since its header fails the walk, and on
every way out the temporary file goes and the reader is closed.
**ExtractArchive** is `Extract` with its limits (`Plus` has the width of an
int64), directories, `O_EXCL` files, links made under a `.tmp` name and renamed,
and the digest of what was read; `ValidLimits` is `ValidateExtraction` on the
same archive. **Archive** extracts what was built, and layers of other tools.

Operators commented "a bug" are alternatives to the action below them, as a
plausible mistake would write it; no specification uses them. They show that
the properties can be broken.

### Choices of abstraction

* One digest in the cache, except in RefCache. Entries and files of different
  digests do not interact except through `c.mu` (waiting) and prune.
* In RefCache, what `Prune` reads under its lock (`loadAllEntries`) is one step,
  and so are a save of an entry or a reference and the scan of the references in
  an eviction or a cleanup. Partial entries, which are pruned like complete ones,
  and `Clear` are left out. A prune that finds no entry changes nothing and is no
  step. An eviction fails, if it does, at the entry file, after the blob.
  **Assumed**: the file of a reference that must go can be removed. The code logs it
  when it cannot (`prune.go:260-262`, `290-291`) and goes on, and the reference stays,
  which `OldRefsBacked` does not allow for.
* Open and full hash of `verifyOnRead` are one step, so are the hash of a
  finished partial file and the decision on it.
* Resuming reads `name["partial"]` under the lock in the same step as the
  entry; nobody who respects the lock can come between.
* In CacheDir a save of an entry is one step that may fail; its temporary file is
  in TagLists.
* `os.Remove` in an eviction does not fail, except in RefCache. In a download a
  failing sync or rename is folded into `GiveUp` and `GapNotSupported` (fault
  "short"), whose outcome is the same: the call fails or falls back. A lazy handle has
  these failures as steps of their own (`ReadDone`, `RenameLazy`, `ReopenLazy`,
  `OpenLazyFails`), since what they leave behind differs. The open of a blob that
  exists does not fail on the hit path (`OpenHit`) nor after an install.
* A cancelled context is a refused request ("fetch").
* A cleanly closed file and an unlinked inode lose nothing at a kill: a kill is
  that of a process, not of the machine.
* In TagLists the answer of the registry and its time stamp are one step: the
  list of a slow answer is as much older than its stamp as the answer was slow.
* In the registry a digest is the object itself, since what is stored under a
  digest never changes. The registry deletes nothing. A signature is valid for
  the bytes it is over and its signer is trusted or not: that is all the verifier
  is asked (`Vouches`).
* The callback of a `Walk` calls the image at most once, and a reader reads
  through no buffer.
* The names of an archive are in one directory; whether a path or a link target
  is acceptable is an outcome ("refused"), and so is an entry of a type that is
  not extracted ("skipped"). A file is a number of chunks. The
  destination starts empty and then holds what earlier calls left in it.

## 3. Runs

State counts are those of distinct states under the view and symmetry.

| run | question | instance |
|---|---|---|
| `ranges` | do the range functions agree with sets of bytes, whatever an entry file says, and the slices behave as such a set while reads fetch and fail? does every read, walk and close return, and is a close final? | four bytes; reads one after another from entry files of up to three ranges in any order, or two goroutines, lazy and temporary files and at most one range at first; 19,017 states |
| `eager` | is the installed blob, and every open handle, right whatever happens? | two openers in one process, an evictor in another, kills, all faults, all leftover directories, 2 chunks, 4 inodes; 285,718 states |
| `eager_live` | is every call answered, and never broken without a cause? does it implement `BlobSource`? | two openers, faults "fetch" and "short", no evictor, no kill; 189,048 states |
| `lazy` | are ranges in memory and on disk backed by bytes across sessions, is the handle usable, is an installed file the blob? | a handle, 4 chunks, an evictor in another process, kills, all faults, all leftovers; 622,575 states |
| `verify_on_read` | does verify-on-read protect handles from another process's stream? | opener here, streamer and evictor there, kills; 213,957 states |
| `refs` | does a prune respect its limits and take the least recent, is a reference used no longer than the TTL, do references point to something? is a listed tag list fresh? | two digests of sizes 2 and 1, a caller whose client has a descriptor cache or none, a prune of another process, time 0 to 2, limits of 2 bytes and 1 tick, TTL 1, every failure; two processes that list tags, lists of 1 and 2 pieces, TTL 1; 3,919,788 states |
| `client` | is what a call uses what it verified, of one moment of its tag? can every tag be pulled, is what was pushed signed, has a refusal a reason? | a tag, three layers with their manifests, an index of two of them, a client that pushes and signs, one that pulls with or without verifier and memory, one step of another tool, every refusal; 812,480 states |
| `archive` | does every build end, leave nothing and lose nothing? does an extraction stay within its limits, overwrite nothing and succeed only when all is there? | a directory and two files of 0 to 2 chunks that change, layers of other tools of up to two entries and of three with a link between, three limits, int64 of 2, every fault; 361,754 states |
| `shared_tmp`, `stale_ranges`, `lazy_rename`, `self_heal_race` | counterexamples, see 5 | two or three actors, only the faults needed |

**Bounds.** Two chunks are the least with a proper prefix, a gap and a hole
between; the lazy run has four so that a gap can lie on both sides of
a range and a read can cover part of one. Two openers show every race the
mutex decides (a third waits where the second does), an evictor in a second
process every eviction the mutex does not exclude. Inodes: three names and one
descriptor that outlives them for each concurrent call; a run with too few
would block in `OpenTruncated`, so no run is a bound away from a step. Four
bytes in `ranges` have room for two ranges apart with a byte before, between or
after, and three ranges (`MaxRanges`, a bound on what an entry file holds when it is
read) for a third that touches, joins or repeats them; more come by fetching. Where
goroutines share an image the range functions are not the question, and one range is
enough for a read with two gaps, so that a close can come between them.
Calls repeat for ever. Clocks are bounded: `MaxClock` and `MaxNow` are 2, one more
than the age limit and the TTLs, so that entries, references and lists are young,
at the limit and past it. With both digests in place the size limit is exceeded and
removing either is enough, so the choice between them matters; more digests make
the run too long and only lengthen the sorted list. `Latency` is how long an answer
of the registry may take to reach the index, which stamps it on arrival; 0 in the
run, anything in the proof. `MaxChanges` bounds the steps of other tools; one, with
the repository that may already hold any of the images and signatures and the
pushing client that moves the same tag, puts a move or a signature between any two
requests of a pull; the proofs have no such bound. The index has an entry for another
platform before that for this one, so that the platform manifest is not the first. In
`archive`, `MaxInt64` is 2 with sizes up to 2, so that two entries wrap around
and one does not; a name and its `.tmp` name are both names of entries, because a
link is made under the second.

**View and symmetry.** The `MCView` of a module leaves out the contents of inodes
that nothing refers to, locals that are set again before they are read, and what of
a history no property can ask for any more; nothing left out is read by an action or
a property, so states that agree on the view have the same futures. Inodes are
interchangeable. Openers are interchangeable only in `eager`, where they share a
process. `eager_live`, `ranges` and `archive`, which have liveness properties, use
neither. `refs` and `ranges` each hold two specifications as alternatives from the
initial state on (`part`): of `refs` those that share no file, of `ranges` reads with and
without an image above them. Each is checked by itself.

**Deadlock** is checked in every run but `ranges`, where the program really may stop: a
`Walk` whose callback wants the read lock and a `Close` that waits for it (see 5), and a
blob that has all its bytes, of which no read fetches more.

**Which property belongs to which run.** Where a property is missing from a run
it was tried there and does not hold: `NoBrokenOpen` and `CompleteHasBlob` need
that nobody evicts from another process; `LazyRangesReal` and `EntryRangesReal`
do not survive a kill between the removal of a file and of its entry, an eviction,
a failed save, a registry that sends wrong bytes, or a second writer of the partial
file, and `LazyHandleUsable` needs that nobody unlinks the partial file: hence
`calm` in the `lazy` run, in which all of that happens. That is the behaviour of the
code, which trusts ranges until the whole file is hashed; the hash is why
`InstalledBlobIntact` needs no such condition.

`LazyHandleUsable` holds with a disk that refuses the rename or the open of the
completed file, and says what that costs: the handle is left without a file until it
is closed, and saves an entry that says complete over no blob, but as long as it is
`calm` the next `OpenLazy` evicts that entry and no call is refused because of it.

The properties of `refs` say what the code keeps when another process interferes.
`PruneWithinLimits` leaves out entries used or stored since the prune began and
those that could not be evicted. `TTLBound` leaves out, by name, a mapping that was last
stored by a client with a descriptor cache that did not ask: `UpdateRefIndex` stamps
what was only remembered with the time of now (`client.go:180-185`), and the index
serves it for a further TTL, again and again and to clients of other processes, so
how long ago the registry gave it has no bound. A mapping that a client got from the
registry is bounded whoever uses it. `OldRefsBacked` is about references that were in
the index when the last prune that ran to its end began: a newer one may point to
a digest whose download failed, a cancelled prune or one that finds no entry
leaves the references alone. An entry without a blob may remain (`touchEntry`
writes back an entry that was evicted, and `Size` counts it); it is not
listed as a promise because `hasCachedBlob` and the next open deal with it.

In `client`, `PullsOneSnapshot` leaves out a client that keeps resolved tags in
memory and does not verify: what its memory says of a tag may be of any earlier
call, as `WithDescriptorCache` says. With a verifier the reference is a digest by
then. `RefusedIsUnsigned` says "no valid signature when the call began": one that is
attached meanwhile may be missed, since the referrers are listed once.

In `archive`, `ExtractedWhole` leaves out an entry whose name a later link took. A link
removes whatever has its `.tmp` name first, which may be another entry, and a
directory that goes that way is not made again when the archive names it a second
time, since `createdDirs` remembers it.

**Fairness.** `FairEagerSpec`: weak fairness of a call's own steps (a goroutine
that can run is scheduled, a request ends with an answer or an error: the
library's timeouts and the caller's context), strong fairness of the two steps
that take `c.mu` (Go's `sync.RWMutex` queues writers and starves nobody).
`ImageFairness`: the same division, `Works` (a fetch ends, a callback returns) and
`Takes` (what waits for a mutex). `FairArchiveSpec`: weak fairness of the two
goroutines of `Build`. Nowhere is there fairness of beginning a call, of closing a
handle, of an edit of the tree: nobody owes them.

## 4. Proofs

TLC checks each property below on its instance, and of the invariants that make them
inductive `EagerInv`, `ClientInv` and `ArchiveInv`; TLAPS proves all of them for every value of the constants that
satisfies the named assumptions of the modules. No bound of section 3
is an assumption of a proof except where it is a constant that may have any value
(`MaxClock`, `MaxNow`, `MaxChanges`, `MaxRanges`).

**EagerProofs**, for any number of openers and evictors, any blob size, any faults
and leftovers, with kills: `EagerInvariant` (`EagerInv`), `BlobIntact`
(`InstalledBlobIntact`), `HandlesIntact` (`HandleIntact`). Stated in each theorem:
`OneOpenerProcess`, the openers share one `Cache`; evictors may be anywhere. The
assumption is needed: two processes share `.tmp` and `.partial` with no lock
between them. `InstalledBlobIntact` is not inductive: a rename installs whatever
has the name `.tmp`. `EagerInv` adds what makes it the right file:

* `MutexHeld`: at most one opener is between Lock and Unlock, and it holds `mu`;
* `WritersAlone`: the file being written is under its own name or under none,
  and nobody else has it open (so neither readers nor the blob can be hit);
* `CopyIsPrefix`: while the hash of the stream is right, the file is exactly the
  prefix copied so far, also between the check of the hash and the rename;
* `ResumedIntact`: after the hash of a resumed file is right, what is under
  `.partial` is that file or nothing;
* `ReadersIntact`: a file that is read is the blob and is not a writable name;
* `NamesDistinct`, `FdsUsed`, `StreamsForgotten`: no two names share an inode,
  only readers and writers hold descriptors, offsets are reset.

The proof has one lemma per group of actions; most actions are instances of
`QuietStep` (unlinks names, leaves the rest), the others are the two openings,
the two installs, and the writes.

Three more theorems are about calls, under hypotheses that the instances of their runs
satisfy and that the code needs. `EntryHasBlob` (`CompleteHasBlob`): no evictor, and no
eviction cut short before ("lost"), whose directory breaks it at the start.
`NeverBroken` (`NoBrokenOpen`): besides, a save does not fail, since a call that has
installed the blob but no entry finds nothing to open. `TmpHasWriter` (`NoOrphanTmp`):
no kill, and no orphan of an earlier one; here evictors and several processes are
allowed. Their strengthenings are `EntryTrue` (an entry marked complete has its blob, and
nobody is downloading), `CallsComplete` (what each call knows of the entry at each
label) and the writer of each temporary file.

`ImplementsSource`, under `OneOpenerProcess`, is that `EagerSpec`
implements `BlobSource` but for its fairness. In a state of `EagerInv` what a handle
reads and what is stored can only be the blob (`OnlyTheBlob`), so the abstract state
depends on `pc` and on whether the blob has its name. A step changes one call
(`CallStep`), or the files (`FileStep`), or is a kill (`KillStep`); none both answers a
call and installs or removes the blob.

**SharedProofs**, for any chunks, inodes, processes, faults and leftovers, with kills:

* `SharedTypes` (`SharedTypeOK`): openers, streams, lazy handles and evictors in any
  number and mixture.
* `CheckedHandles` (`CheckedHandleIntact`), with `VerifyOnRead` and a registry that sends
  the right bytes, again with everybody. No mutex helps here, since a stream takes
  none; the argument is that no write makes a good byte bad: a file that was whole when
  it was hashed is only written with what it has (`WritesRight`), renamed or unlinked.
  A call that truncates a file truncates one that has the name `.tmp`, and a
  descriptor that was checked is of another file (`Held`).
* For one lazy handle at a time, `OneLazyHandle`, with evictors in any processes:
  `LazyInvariant` (`LazyInv`), and from it `LazyBlobIntact` (`InstalledBlobIntact`),
  `LazyServesReal` (`LazyRangesReal`), `EntryServesReal` (`EntryRangesReal`) and
  `LazyStaysUsable` (`LazyHandleUsable`). The first part of the invariant,
  `LazyFilesSafe`, holds whatever happens: the handle writes to the partial file or to
  one without a name, and it renames nothing but what it hashed. The second,
  `RangesTold`, is that entry and handle speak of one file, and it lasts as long as
  `calm` does: after a kill between the rename and the save, say, the old ranges are over
  no file, and the next `OpenLazy` serves a hole. So `LazyServesReal`, `EntryServesReal`
  and the second half of `LazyStaysUsable` are about histories without kill, eviction,
  failed save or wrong bytes, though with any other fault and any number of sessions;
  `LazyBlobIntact` is about all histories. A rename or an open that fails is no
  exception to `calm`: the invariant has the handle without a file (`refused`) and the
  complete entry that it leaves. The hypothesis `OneLazyHandle` is needed: see
  `stale_ranges` and `lazy_rename`.

**ClientProofs**, for any images, indexes, signatures and tags, any clients of any
options, any number of moves: `ClientInvariant` (`ClientInv`), and from it
`AlwaysClosed`, `SignedWhenPushed`, `VerifiedWhenPulled`, `OneSnapshot`,
`RefusedForAReason`, each one of the five properties of `client`. What a registry
holds only grows (`RegistryGrows`), so what was found in it stays true; `ClientInv`
says what was found where: `PushInOrder` (what is uploaded before what, and that
the bytes signed are those of the manifest pushed), `MemoSound` (of a digest the
memory says what the registry says), `HistoryKept`, `VerifyInOrder` (the image that
is looked at is the one the tag led to during the call, a manifest that was given
up had no valid signature when the call began unless a request failed, and a valid
one is still among the referrers left to try) and `ResolveInOrder` (the pinned
manifest is signed or selected by a signed index, and what is resolved is its layer).
Assumptions: the kinds of objects are disjoint, manifests and indexes are sequences
of layers and of manifests, and for each layer that is pushed there is its manifest.

**ArchiveProofs**, for any tree, any lengths and edits, any layers of other tools,
limits and faults: `ArchiveInvariant` (`ArchiveInv`), `AlwaysWhole` (`BuiltWhole`),
`AlwaysRemoved` (`NoTempLeft`) and `NothingOverwritten` (`NoOverwrite`). The
argument of a build is in `SentWhole`: what came out of the pipe, with what is in it
(`Came`), has the headers the writer sent in the order of the tree and, but for the
last one, all the bytes they announced. A result "ok" in the channel means that
the walk is complete, and an end of file without an error that the result is "ok" or
on its way. The argument of an extraction is that `xpc = "copy"` only at a file that
was created at this entry. `PulledWhole` (`ExtractedWhole`) rests on `WholeSoFar`: each
entry that the extraction is through with is in place unless a link, also behind it,
took its name, and a directory that is taken for made was an entry of this archive.
`LimitsNeverExceeded` (`LimitsRespected`) and `LimitsOfTable` (`LimitsAgree`) rest on
`Counted`: the counters are the number and the sum, without a width, of the files begun.
That the sum of a prefix of the layer is never more than that of a longer one is
`SumMonotone`.

**TagListProofs**, for any processes, lists and TTL, with kills and failed writes:
`TagInvariant` (`TagInv`) and `AlwaysFresh` (`TagsFresh`). Every piece of a file is
of a list that the registry had no earlier than the stamp says; a document that is
read is made of one such list, whoever wrote over whom.

**RefProofs**, for any digests, references, callers, prunes, limits and TTL:
`TimesInvariant`, `TTLRespected` (`TTLBound`) and `AlwaysBacked` (`OldRefsBacked`).
The index says of no reference that the registry gave it later than it did, but for
`Latency`, unless the mapping was stored from a descriptor cache (`RefTimes`); both
theorems state this exception. All steps but a few leave the times alone, which is the lemma
`SameTimes`. For `AlwaysBacked`, `RefsBacked` says that each digest a prune keeps, and
after a complete prune each digest, is `Backed` from when that prune began: it has an
entry, or an eviction is about to remove its references, or no reference to it is older
than the prune. It is kept because an entry is removed only by an eviction whose next
step removes the references, and a new reference has the time of now.
`RefTypes` (`RefTypeOK`), `PrunedWithinLimits` (`PruneWithinLimits`) and
`LeastRecentEvicted` (`EvictsLeastRecent`) are about the selection. `Selected` is that a
prune goes by a selection from what it read, that an entry which nobody used or stored
since is one that it read, and that it is not one which the prune is through with. What
the selection keeps is within the limits because the walk over the entries, in some
order of last access, keeps an account of the total of what it has not taken (`Walked`),
for every such order. It assumes that there are finitely many digests.

**ReadProofs**, for a blob of any size and an entry file of any number of ranges inside
it, in any order. The functions come first, as lemmas about any finite sequence of
ranges: `SortedIs`, `MergeIs` (merged ranges are apart and cover the same bytes),
`GapsIs`, `WindowIs`, `ContainsIs` and `CompleteIs` (each answers for the set of bytes).
A loop is followed from prefix to prefix: `AbsorbIs`, `SkipIs` and `ClipIs` say what
one turn keeps. Then the loop of a read: `FetchInvariant` (`FetchInv`), that the gaps still
to be fetched are apart from each other and exactly what is missing of the read, so that
fetching one takes it, and nothing else, off the list; and from it `GapsComplement`
(`GapsAreMissingBytes`), `WindowGapsComplement` (`WindowGapsAreMissingBytes`),
`TestsAreExact` (`TestsMatchBytes`), `StaysMerged` (`MergedForm`) and
`RangesAreByteSet` (`ImplementsByteSet`), the refinement. Offsets have no width here:
the code's sums stay below twice the size of a blob.

For any goroutines and images of either kind: `ImageFetches`, that the steps of
`ImageSpec` are steps of `FetchSpec` or leave the ranges alone, so that all of the above
holds of concurrent reads; and `CloseIsFinal` (`ClosedIsFinal`). A fetch holds `h.mu` and
its handle is open; an image that is closed has a closed handle as soon as nobody holds
`img.mu`, which a second Close waits for (`ClosedInv`).

**FoldProofs** is what the others need of folds. The induction theorems of the library
take an operator as a parameter, which the provers here cannot instantiate, but
induction can be had from first-order facts: a family of subsets of a finite set has a
least one (`LeastSet`, by the well-foundedness of the strict subset ordering), and so
has a set of numbers (`LeastNumber`). A function that follows the recursion of a fold
exists and is the only one (`FollowsExists`, `FollowsUnique`); a sum over a finite set
does not depend on the order of its elements (`SumIs`, `SumTake`, `SumMonotone`), a left
fold runs through the prefixes of its sequence (`FoldExists`, `FoldsPrefixes`), and the
elements of a finite set of keys can be put in order (`OrderOf`).

**Only model-checked.** Liveness, which is beyond the prover: that of
`ImplementsBlobSource`, `UsersAnswered` and `BuildEnds`. Every invariant and every
other action property of the passing runs is stated by a theorem.

## 5. Where code and comments disagree

Each is a counterexample of one run; the quoted lines are in `PROJECT.json`.

1. `shared_tmp`: concurrent `OpenStreamThrough` misses share `<digest>.tmp`
   with no lock. One hashes its stream right while the other has truncated
   the file; the entry says verified over bytes that never had the digest.
2. `stale_ranges` (calls one after the other, no concurrency): an `Open` that
   fails after removing the partial file leaves the ranges in the entry, and
   the next `OpenLazy` serves zeros. `streamThrough` takes care of exactly this.
3. `lazy_rename`: `verifyAndComplete` hashes a descriptor and renames a name.
4. `self_heal_race`: the second of two self-healing calls evicts the fresh
   download of the first.

Met on the way, without a run of their own:

* `image.go:25` says that an `Image` is safe for concurrent use. `Walk` calls back
  with `img.mu` read-locked (`image.go:255`); a callback that calls `Open` or `List`
  locks it again, and if a `Close` waits in between, both wait for ever.
  `UsersAnswered` names this one exception (`Entangled`).
* A descriptor cache and a TTL together: a remembered digest is stored as validated
  now (`client.go:185`), while `refindex.go:25` reads "when this ref→digest mapping was
  last confirmed". `TTLBound` names this exception.
* `lazy_handle.go:134` reads "Verification failed - keep as partial". After a rename or
  an open that failed the entry in memory says complete and is saved so.
* `lazyHandle.Close` takes `h.mu` before it cancels the fetches that hold it
  (`lazy_handle.go:203-211`), so it waits for the registry.
* The digest that `Pull` compares is over what `Extract` read. Nothing reads on to
  the end of the blob, so an intact blob can be refused (`CompareDigest`); a wrong
  one is never accepted.
* The `.json.tmp` of a save is shared by all processes, so an unfinished file can be
  renamed into place; it does not parse and is a miss (`TagLists`).
* An extraction that failed leaves its files, and the next one into the same
  directory fails on the first of them (`O_EXCL`).

## 6. Not modelled, and what could follow

Not modelled, because they keep no state with an order to get wrong, or live in
libraries: the management functions and the CLI (they build a `Cache` or a
`Client` and make one call), progress, options, the sigstore adapters, HTTP,
authentication and retries of the registry library, the validation of paths and
link targets (strings), the reader of the table of contents (a library's), profiling
and test support.

Parts of what is modelled that are not composed:

* **A lazy handle and the background prefetch of the same digest**
  (`cache.go:896`): the prefetch resumes into, renames or removes the partial file
  the handle works on. They satisfy no invariant worth stating: the handle may
  outlive its file under any name, and its next save overwrites the completed entry.
* **Pull and OpenImage with a cache and a verifier**: the reference that is pinned is
  a digest, so the tag index of RefCache is not asked about a tag. The two
  halves are Client and RefCache.
* **Partial entries in RefCache**, `Clear` of several digests, and the save of an
  entry in its steps in CacheDir.
* **A blob longer than its size** in `OpenLazy`: no writer of the model goes past the
  size it was given.

What could be proved next: that a cache whose ranges are slices (RangeFetch) implements
LazyCache, whose ranges are sets of chunks; a lazy handle together with an eager opener
of the same process; and the abstract promise of a registry that only grows, of which
`RegistryGrows` is the step.
