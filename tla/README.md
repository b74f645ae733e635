# TLA+ models of self_update

`self_update` is a Rust library with which a program replaces its own
executable: it lists the releases of a host, chooses one, downloads the asset
for its platform, verifies it and puts it in the place of the installed file.
This directory holds models of it in TLA+, the configurations with which TLC
checks them, and proofs for TLAPS. Paths below are those of the repository:
`lib.rs` is `src/lib.rs`, and so on.

    tlc -config MCMoveAll.cfg MCMoveAll      # one run; see "Runs"
    tlapm MoveAllProofs.tla                  # the proofs of one module

## Inventory

| component | state it keeps | operations | interacts with |
|---|---|---|---|
| `MoveAll` (`lib.rs`) | the temp directory, the queued moves; on disk: destinations, stashes, sources | `from_temp`, `add`, `commit`, `rollback` | file system only; called by the program |
| update pipeline (`update.rs`) | the chosen release and asset, a TempDir, the downloaded and the extracted file | `update`, `update_extended`, `update_extended_async`, `finish_update_owned`, `install_binary` | a backend (listing), `Download`, `Extract`, the verification gates, `Move` or `self_replace` |
| `Download` (`lib.rs`) | url, headers, client, retry budget | its setters, `download_to`, `download_to_async` | HTTP client, the file it writes |
| `Move`, `rename_or_copy` (`lib.rs`) | source, optional temp | `to_dest` | file system: rename, copy beside the destination |
| `Extract` (`lib.rs`) | source archive, kind | `detect_archive`, `extract_file`, `extract_into` | the directory it writes to, and what is there |
| selection (`update.rs`, `macros.rs`, `version.rs`) | none | `choose_latest_release`, `asset_for`, `is_update_available` (two of them), `newest_release`, `release_for_version` | the listing of a backend |
| builders (`macros.rs`, `backends/common.rs`) | the fields, one deferred error, certificates, injected clients | some thirty setters, `build` | the transports, the backends' own checks |
| HTTP adapters (`http_client/`) | a client, or none | `get`, the per-request timeout, the certificates | reqwest, ureq, or a client of the user's |
| retry (`backends/mod.rs`) | attempts so far | `retry`, `retry_async`, `send`, `send_async`, `retry_backoff_ms` | HTTP client |
| pagination (`backends/mod.rs`) | items so far, next page, page cap | `run_paginated`, `run_paginated_async` | `send`, a backend's page parser |
| authorization (`backends/common.rs`) | token, allowed hosts | `apply_auth`, `auth_allowed_for` | every request, every page |
| backends: github, gitlab, gitea, gitee, s3, manifest, custom | configuration | newest, newer, by tag | pagination, retry, selection |
| check interval (`check_interval.rs`) | one stamp file, shared by processes | `should_check`, `record_check` | file system, the clock |
| restart (`restart.rs`) | none | `restart`, `restart_with` | what the system says of the running file |
| checksums, signatures | none | `Checksum::verify`, `verify_signature` | the downloaded file |
| errors | values | texts, redaction | |

What is hard about them, and what makes them right:

* **MoveAll**: N renames that must look like one. Any of them can fail, so can
  the steps that undo them, and the process can die between two. Right means:
  everything installed on Ok; everything restored on an error but for what the
  log names; no original lost and no more than one file missing at any moment;
  a second `commit` does nothing; `commit` returns.
* **Pipeline**: the server changes between the listing and the download,
  requests fail and are retried, a stream breaks off, an async caller leaves
  while the blocking tail runs, the process dies during the install, another
  updater works on the same path. Right means: what is installed at any moment
  is whole and has passed every configured gate for the release that was
  chosen; a release that is not newer is never installed unless it was asked
  for by its tag; the result says Updated if and only if the file was replaced;
  a call returns.
* **Move and restart**: the program has several names, several processes run it,
  a Move that fails renames back what may be out of date, and the system's answer
  to "which file am I" changes once the file was replaced. Right means: there is
  always a binary; an update reaches every name; a restart runs the new one.
* **Extraction**: entry by entry over whatever is there, links among them, and a
  failure anywhere. Right means: Ok says that the archive is there; an attempt
  that failed can be repeated, and ends with the tree of one that never failed.
* **Selection**: versions that do not parse, pre-releases, 0.x rules, listings
  in any order, ties. Right means: the choice depends on the set of versions,
  not on their order; repeated updates only move forward; the ways to ask
  whether there is an update agree.
* **Builders**: setters that cannot fail, in any order, some of which derive
  what others set; `build` takes `&self`, so it may come in between; two
  transports, each with an injected client, one made from certificates, or none.
  Right means: the built configuration is a function of the last call of each
  setter; a mistake is reported by every build that can see it.
* **Requests**: two code paths, the listing's and the download's, that must decide
  alike on the credential; attempts are bounded, delays climb to their maximum
  and stay there; the timeout reaches every client that takes one.
* **Pagination**: a walk of many requests over a listing that changes, to
  addresses that a response names. Right means: a release that is there throughout
  is found whatever stands before it; nothing makes the walk endless; each
  address decides anew on the credential.
* **Backends**: four forges that answer the same calls with different requests,
  rolling tags among the releases; a bucket whose keys have to be grouped.
* **Check interval**: several processes, a clock that is set, times cut to
  whole seconds.

`PROJECT.json` lists the components with what is modelled of each, and the
hazards at their lines.

## Modules

| module | what it is | code |
|---|---|---|
| `MoveAll` | `commit` and its rollback, one action per system call | `lib.rs` 1648-1766 |
| `AtomicInstall` | what the documentation of `MoveAll` promises | `lib.rs` 1607-1646 |
| `Versions` | the comparisons of `version.rs` | `version.rs` 8-62 |
| `Selection` | which release and which asset, from a user's source or a manifest | `update.rs` 192-227, 442-478, 540-587, 760-777, 977-1120; `macros.rs` 366-382; `backends/manifest.rs` 152-191, 363-388; `backends/custom.rs` 213-224 |
| `Update` | the pipeline, several updaters, a server, a file system | `update.rs` 970-1735; `lib.rs` 1331-1466, 1583-1606, 2077-2284; `backends/mod.rs` 361-418 |
| `SafeUpdate` | what `update()` promises | `update.rs` 79-145, 926-977 |
| `Builder` | setters and `build`, of every backend's builders, `ManifestSource` and `Download` | `macros.rs` 14-187, 460-674; `backends/common.rs` 30-60, 241-320, 415-622; the backends' `build`; `lib.rs` 1909-2060; `http_client/` |
| `Requests` | what a built configuration sends: credential, retries, backoff, timeout | `backends/common.rs` 341-404; `backends/mod.rs` 347-452; `update.rs` 1239-1313; `lib.rs` 2077-2103; `http_client/` |
| `Pages` | the walk over pages: `run_paginated`, `send`, `retry`, the credential | `backends/mod.rs` 184-524, `backends/common.rs` 341-404 |
| `Listing` | the four forges' calls against a server that changes | `github.rs`, `gitlab.rs`, `gitea.rs`, `gitee.rs`: plans, parsers, verbs |
| `ObjectStore` | the S3 backend against a bucket that changes | `s3.rs` 564-655, 1401-1721 |
| `Program` | processes and the names of their binary: `install_binary`, `Move::to_dest`, `restart` | `lib.rs` 1554-1566; `update.rs` 1540-1580, 1640-1645; `restart.rs` 62-122 |
| `Extraction` | `detect_archive` and `extract_into` | `lib.rs` 840-853, 881-1012, 1074-1322 |
| `CheckGuard` | `UpdateCheckGuard`, several processes and a clock | `check_interval.rs` 56-130 |
| `MoveAllProofs`, `SelectionProofs`, `UpdateProofs`, `RequestsProofs`, `ProgramProofs`, `ExtractionProofs`, `CheckGuardProofs` | theorems about the module they are named for | |
| `PagesProofs` | theorems about the two walks over pages, `Listing` and `ObjectStore` | |
| `MC...` | constants and symmetry for TLC, one per module that a run checks | |

How they fit together: `Update` and `Selection` extend `Versions`; `SafeUpdate`
does too, so that "newer" means the same on both sides of the refinement.
`MoveAll` instantiates `AtomicInstall`, `Update` instantiates `SafeUpdate`.
`Listing` and `ObjectStore` extend `Pages`: the driver is the same, the server and
the parser differ. Where both have an action of one name, that of `ObjectStore` says
`Bucket` or `Key` as well, so that `PagesProofs` can extend both. `Requests` extends `Builder`: its requests are those of a
configuration that a sequence of setter calls has made.

Operators whose comment begins with "Mutant of" are plausible bugs. No
specification uses them; each is there to show that a property notices it (the
pairs are under "mutants" in `PROJECT.json`).

### MoveAll

The file system is three functions: `dest`, `stash` (per temp directory) and
`source`. `pc` is the place in `commit`: `check` (about to call `dest.exists()`),
`stash` and `install` (about to rename), `restore` (the failing move's own
stash) and `undo` (the loop of `rollback`). `cur` is the loop's move, `kept`
the moves whose `Applied.stash` is `Some`. Every rename is two actions, its
success and its failure; an operating system can refuse any rename, so a
failure is always possible, and a success needs the file to be there. `Crash`
can strike between any two system calls and forgets everything but the disk;
`Build` then starts another `MoveAll`, perhaps with the same temp directory.
A destination can be `Absent`, hold contents, or be a symbolic link whose
target does not exist (`Links`): `Path::exists` says no to it, and `rename`
moves or replaces it nevertheless.

`orig` and `logged` are history: the destinations when the commit began, and
those whose restore failed and was logged. `View` is what the caller of
`AtomicInstall` sees: the originals while `commit` runs, the disk afterwards.

Left out: two processes that commit to the same destinations at once (the code
makes no promise about that), and copies across file systems (the code does not
try: `MoveAll` uses `rename` only).

### Selection

A release is a version and its assets; an asset is the set of tokens that its
file name contains (`target`, `arch`, `os`, an identifier). The state is what the
source has (`document`), which kind of source it is, a configuration and the
answer to one question; `Become` is the program after the update, so that a
behaviour is a program that updates itself repeatedly from one listing. A manifest
leaves out what does not parse (`ParseManifest`), a user's source may list it.
`UpdateTo` is an update to a pinned version. A version is four numbers; build
metadata are left out, and `pre` numbers the pre-releases of a version in their
order. `Junk` is a string that does not parse.

The code passes vectors of releases from one function to the next, filtered and
sorted. The model passes the places of the document that are still in such a vector:
every filter keeps the order of the listing, so the set of places says all, and the
first of a vector is the release at the least place (`FirstAt`). The two sorts are
stable, and only the front of a sorted vector is looked at: `Front`.

### Update

Each updater is a call of `update_extended` (or its async twin), in one process.
`pc` follows the source: `list`, `resolve` (asset, name, confirmation), `probe`,
`get` (the download request), `body` (the stream), then the tail that
`finish_update_owned` runs: `verify`, `extract`, `hook`, `replace`, and for a copy
across file systems `copying` and `swap`. A file is a function from its parts to
their contents, so that a file that is cut short, or made of two, can be told
from a whole one. `archive` and `exe` are in the call's own TempDir; the install
path and `<install path>.self_update.tmp` are shared and are names of inodes,
since a writer keeps its inode when the name moves.

* `Publish` is the maintainers: an asset is uploaded again under its name, a
  release is withdrawn or appears.
* `RequestFails` with `MayRetry` is `retry`: establishing a request is tried
  the configuration's `retries` more times, a broken stream is not.
* `BodyEnds` may come early, since the loops of `download_to` and
  `download_to_async` take the end of the stream for the end of the file.
* The gates compare the downloaded file with the checksum the program pins, the
  digest that came with the listing (`want.digest`), and the signatures. A file
  passes a digest or a signature check only when it is the whole archive that
  was digested or signed.
* `Extracted` is `extract_file`: a whole archive yields its executable, one that
  is cut short fails (an archive that is cut behind the executable yields the
  same executable, which is not told apart); a plain asset is copied, as much as
  there is of it.
* `Replace` is one rename: `self_replace` renames a copy with a name of its own
  onto the executable, and `rename_or_copy` renames the extracted file. Across
  file systems `OpenTmp`, `CopyPart`, `CopyDone` and `SwapTmp` are `fs::copy` and the
  rename that follows it.
* `Cancel` is an async caller that drops its future. Before the tail is spawned
  everything stops; after that the tail runs to its end and its result is lost.
* `Crash` kills the process at any point. The `TempDir` is then left on disk,
  and nothing reads it again.

An updater's configuration (`Configs`) is what the builders set: pinned
checksum, digest check, keys, hook, pinned tag, strategy, async, probe, retries,
whether the install path is the running executable (`self`), and whether the
TempDir is on another file system than the install path (`cross`). A behaviour
starts with one of `Fleets`, which says who is configured how.

The listing is one step here; what it may contain when it is a walk of many
requests is what `NothingMissed` of `Listing` says. File systems behave as POSIX
says; on Windows `self_replace` takes other steps, which are not modelled.

### Builder and Requests

`Builder` is an object with fields (`b`), a history of the setter calls (`calls`) and
what the last `build()` returned (`built`). A site says which builder it is (`kind`:
a release list, an updater, a `ManifestSource`, a `Download` made by hand), of
which backend, in a crate built with reqwest or ureq, and whether a required field
is left out. A menu is the set of arguments that a behaviour may give to each
setter: values that the code tells apart, such as a header that is no header, a
certificate that is malformed in a form that only one library notices, a token that
no header can carry. `BuildClient` makes a client for a transport from the certificates when
there are some and none was injected there. `Check` and `BuildError` keep the order
in which the code finds mistakes.

The properties are stated over `calls` and never over `b`: `BuiltAsAsked` says what
the configuration has to be, from the last call of each setter, and
`MistakesSurface` exactly when `build` fails. Setters that store a value which nothing
else reads or derives are left out.

`Requests` adds one request of what was built. `SendCredential` and
`DownloadCredential` are the two code paths that decide on the Authorization header;
both are gated by `AuthAllowedFor`. `Refused`, `TimedOut`, `Wake` and `Answered` are
`retry` around `client.get`; `BodyRead`, `BodyLost` and `BodyTimedOut` come after it.
A server may say nothing for ever, before its response or inside its body, so only
a timeout ends such a request: `TimeoutApplies` says which clients take it.
Delays double in an integer that saturates at `MaxMillis`, which stands for 2^64-1;
`Doubled` is the fold of the code, one doubling for each attempt, and `BackoffExact`
says what comes of it without counting attempts: the first delay is the base, each
other is twice the one before, both at most the configured maximum.

### Pages, Listing and ObjectStore

`Pages` is the driver. `Ask` is what `send` does before its first attempt: it decides
on the credential. `Answered` and `RequestFails` are `client.get` under `retry`; the
body comes after that and is not retried (`BodyFails`: it breaks off or is larger
than the cap). `Keep` appends the items of a parsed page and asks for the next one
or ends. The server's answer is taken when it answers, and parsed later, so that
the listing may change in between. A host stands for a host and a scheme;
`Trusted` are those that `auth_allowed_for` accepts. `authorized` follows the host of
each request by the one assignment of `Ask`, as in `send`, and no property restates it;
`CredentialAgrees` of `Requests` says what the decision is, for every address. What a server has and what a page
lists are sets of numbers, and the order of a page is that of the numbers
(`Ascending`, `Descending`): forges and buckets list in one order only, and a parser
that leaves items out does not change the order of the others.

`Listing` writes each backend's calls as a plan: which page is asked first (0 is an
endpoint for one release), and what is taken. A release is the number of its
creation; forges list newest first and cut their pages by place. `kind` is what the
parser makes of a release: newer, older, rolling (no version, or without the
prefix), malformed. `orderly` servers name the page that follows, others
the same page for ever.
`ObjectStore` lists keys in their order, each page after the last key of the one
before; `Grouped` is `add_to_releases_list` over a page: the releases in the order of
their first keys, each with its assets, the last key first, since an asset is put in front. The three calls
are operators on the result; of the stable sort of `SortNewer` only the front is used.

### Program

A program is installed as `app`, `link` leads to it, `temp` is where
`Move::replace_using_temp` puts the old binary. A binary is the number of its
installation. Each process has the version it runs, the path it was started by, its
updater's install path and its place in a Move of its own. `CurrentExe` is what the
system says: on Linux the name that the running file has now, or nothing useful once
it has none; elsewhere the path of the start. `Target` is `install_binary`: the
running program, under whichever name, is replaced by `self_replace`, which writes
through links; any other path is moved over. A failing rename of `Move::to_dest`
(`MovePlaceFails`) is followed by the rename back (`MoveUndo`), which puts back
whatever is at `temp` by then. A process may end at any step. `fresh`, `undone` and
`refused` are history. A whole update is one step here; its inside is `Update`.

### Extraction

An asset is what it is called (`ext`), the kind that `Extract::archive` was given, if
any (`kind`), and what it really is: which zip archive, if it is one, and what its bytes
are compressed with, if they are (`codec`, one that the crate knows or not).
`DetectArchive` maps an extension and the crate's features to a kind; `Taken` is what
`extract_into` goes by, which asks it only if no kind was given. So a file can be taken
for what it is not: one that is no zip archive does not open (`Opens`), nor does a layer
whose decoder the build lacks; a stream that is not of the layer's codec breaks off in the
copy or, for xz, before it (`Garbled`); and a layer that the kind does not name stays: a
`.bz2`, or a `.gz` that was given as `Plain(None)`, is copied as it is. That no build
copies the bytes of a `.gz` or `.xz` that was left to `detect_archive` is one guard of
that function, which the model has and no property restates. A tree maps each name to a directory, a file, a link or nothing; an
archive is a sequence of entries, and `NextEntry` extracts one the way the zip branch
does: parents are made, and must be real directories; a link replaces a file or
link of its name, and its target must stay inside; a file is written through whatever
its path leads to. `EntryFails` stops at any entry and leaves what a failure or a
killed process leaves there. `RepeatsEndAlike` compares the tree of the attempt that
comes to its end with `Fresh`, what one extraction makes of an empty directory. A failed
extraction may be followed by any other into the
same directory, of the same archive or of one with another layout. Unpacking a tar is
the tar crate's; the model says which assets go there and nothing of what it writes.

Archives are taken to be packed from a tree (`WellPacked`): one entry per name, and
whatever has entries below it is a directory. A name has at most two components, a
directory entry one, and a path is followed through four links, as on a system
whose limit is four where Linux has forty: a longer chain leads nowhere, which is
an error in the model as it is there.

`LedAstray` names what makes `Ok` say too much. `File::create` writes through a link of
the file's name, and `create_dir_all` takes a link to a directory for the
directory. The second does no harm unless the same archive goes on to replace a
link: `cur` was a link over `v2` to `v1`, the new archive has a directory `cur` and
a link `v2` to elsewhere, and when it is unpacked, `cur` dangles. `MCExtraction`
has two archives that do this (the last two), and `ExtractedAsArchived` fails
without that part of `LedAstray`.

### CheckGuard

Processes share a stamp file. `ReadStamp` and `Compare` are the file read and the
clock read of `should_check`, between which others act; `TakeTime`, `Create` and
`Persist` are the system calls of `record_check`. The clock runs in ticks, several
to a second, and can be set to any value. A clock before 1970, which the code
reads as 0, is not modelled.

## Runs

| run | configuration | shows |
|---|---|---|
| `move_all` | `MCMoveAll.cfg`: 3 moves on 2 destinations (the first and the last share one), 2 temp directories, 1 link, all 36 initial disks; 763 k states | all properties of `MoveAll`, the inductive invariant, and that it implements `AtomicInstall` |
| `selection` | `MCSelection.cfg`: all listings of at most 3 releases out of 7 versions and 2 sets of assets, from both kinds of source, 3 current versions and one that does not parse, 2 strategies, 3 pinned versions, with and without identifier; 934 k states | the choice does not depend on order or junk, the calls agree, and updates only move forward |
| `update` | `MCUpdate.cfg`: one updater of each of 4 configurations with a retry, and 3 pairs on one install path; 2 calls, 1 server change, files of 2 parts; 210 k states | the gates, the retries, the return, and that it implements `SafeUpdate` |
| `requests` | `MCRequests.cfg`: 25 sites over all backends and both libraries, up to 4 setter calls from 6 menus with builds in between, 6 URLs, delays that saturate at 7; 936 k states | the built configuration, the mistakes, the credential, the backoff, and that a timeout ends a request |
| `listing` | `MCListing.cfg`: the five plans that the calls of the four backends come to, at most 4 releases of 4 kinds, 1 deletion, 2 to a page, a cap of 2 pages, 2 hosts; 2.5 M states | nothing missed, rolling tags, the newest; and the call returns, also from a server that answers with the same page for ever |
| `object_store` | `MCObjectStore.cfg`: 5 keys, 3 releases of 2 names and 2 versions, 2 keys to a page, 2 pages, 1 edit; 2.3 M states | each key once, merging, the calls agree |
| `program` | `MCProgram.cfg`: 2 processes, 3 versions, both kinds of system; 551 k states | there is always a binary, an update reaches every name, a restart is never stale |
| `extract` | `MCExtraction.cfg`: 8 zip archives on 7 names, 14 other assets, of which 7 have a kind set by the user, 4 sets of features; 547 k states | Ok means extracted, attempts can be repeated, and repeated ones end with the same tree |
| `check_guard` | `MCCheckGuard.cfg`: 2 processes, 2 ticks to a second, an interval of 2.5 seconds, 6 seconds, the clock is set once; 222 k states | the stamp is whole, nobody is locked out, the throttle is exact to a second |
| `update_shared` | `MCUpdateShared.cfg`: 2 updaters, across file systems | finding: the shared temporary name |
| `update_plain` | `MCUpdatePlain.cfg`: a plain asset that is named like the binary | finding: it is truncated |
| `restart` | `MCRestart.cfg`: 1 process on Linux | finding: the restart after an update fails |

Bounds, and why they are enough.

* A rollback of `MoveAll` treats a move by what it displaced and by whether another
  move has its destination: three moves of which two share one give every
  combination of an earlier, a failing and a later move, and the proofs cover
  every N.
* A listing of three releases has a best one, a second and a junk one in every
  order; the seven versions are one junk, one pre-release, two that differ in their
  build metadata, and neighbours in each component, on both sides of 1.0.
* A file of two parts is the smallest that can be cut short or mixed. One retry
  separates the first attempt, the last and one too many. One server change
  separates what was listed from what is downloaded; two calls are a program
  that updates and updates again, or crashes and is started again, or two at once.
  `Inodes` has one more than there are names and descriptors (`InodesAssumption`).
* In `requests` a setter interacts with at most three others (a token, the user's
  header and the hosts; a client, its sibling and the certificates), so four
  calls are one setter twice and each of those it meets. Each menu holds the
  setters that meet each other. `MaxMillis` is 7, so that 3 doubles twice before
  it saturates, on both sides of the two maxima. Setter calls and menus are bounded
  for TLC only: the proofs have no bound.
* Four releases, two to a page, are two full pages, with an item that a creation
  moves from one to the other and one that a deletion moves out of sight; the walk
  is the same from the second page on, and a third page is beyond the cap of two.
  Retries change nothing but the time at which a page is answered, so `listing` has
  none. Five keys are three pages with a cap of two.
* Two processes of `program` are one whose Move is undone and one that installs
  meanwhile; three versions are the first, the one that is put back and the one that
  is overwritten. The proofs cover any number.
* The archives of `extract` hold each pair that meets: a link under the name of a
  file and the reverse, a link to a directory that an entry is written through, a
  directory that becomes a link, a link to a link, a target outside. Any sequence of
  them is extracted over one another, without a bound.
* Two processes are every pair of a reader and a writer of the stamp, and an
  interval of five ticks has a part that is less than a second.

`CHECK_DEADLOCK FALSE` stands where the bounds (`MaxCalls`, `MaxVersion`, `Runs`,
`Edits`), or an answer that was given, end the behaviour.

### Fairness

`MoveAll` assumes weak fairness of the steps of `commit`: it is straight-line code
that waits for nothing but system calls, which return. `Update` assumes weak
fairness of each updater's own steps: a request is answered or fails, a system call
returns, and a user who is asked answers. `Listing` assumes that a request is
answered or fails and that the driver goes on. Both leave out the server that is
silent for ever; `Requests` has it, and assumes only that the client's own timers
fire (`TimedOut`, `BodyTimedOut`) and that a sleep ends (`Wake`), nothing of the
server: `TimedRequestsEnd` is about the requests that have a timeout. `CheckGuard`,
`ObjectStore`, `Program`, `Extraction` and `Selection` state safety only and assume
nothing. Nothing is assumed of `Crash`, `Cancel`, `Publish`, or of calls being made. A
stream may deliver any number of parts and then ends or fails. A failure is one
of the steps, so fairness never promises that an update succeeds, only that a
call ends.

## Findings

Each of these has a run whose counterexample shows it.

1. `lib.rs:1590`: two updaters that copy across file systems share
   `<dest>.self_update.tmp`; one opens and truncates what the other renames into
   place (`BinaryWhole`).
2. `lib.rs:1371`: a plain asset named like `bin_path_in_archive` is truncated by
   its own extraction, and an empty executable is installed (`PlainIsCopied`).
3. `restart.rs:67`: after an update of the running program, Linux no longer has a
   name for the running file, so the path that `restart` asks for is not there and
   the restart fails, where `restart.rs:30` says that it launches the updated
   binary (`RestartRunsUpdated`). `RestartNeverStale` holds: a restart that does
   succeed runs the right one.

More places where the code and a text about it differ were met while modelling.
No run is spent on them; the modules follow the code.

* `lib.rs:1693`: a destination that is a dangling symbolic link is overwritten
  without a stash; rolling back removes the new file and does not restore the
  link, where `specs/ref-update-pipeline.md:244` promises the prior contents.
  What a *reader* finds there is the same as before, nothing, which is what
  `RestoredUnlessLogged` states and the proofs show.
* `macros.rs:380`: `is_update_available` returns the first newer release of the
  listing and calls it the newest (`macros.rs:369`); `CallsAgree` states what holds,
  that it has one exactly when there is an update.
* `update.rs:1050`: `current_version` takes any string; with one that does not parse, `update`
  finds every release not newer and says that it is up to date, while
  `Releases::is_update_available` (`update.rs:472`) fails, as its comment says. `CallsAgree`
  states both.
* `update.rs:993`: a listing in which nothing parses is "up to date", where
  `update.rs:955` says that it is an error.
* `s3.rs:1601`: keys are grouped page by page, so a release whose keys are on two pages
  is two releases, each with a part of the assets, where
  `specs/ref-s3-backend.md:231` says that they are merged; `MergedWithinPage` states
  what holds.
* `github.rs:546` and its three siblings: the scan for an update walks on after a
  release that is not newer, where `specs/release-scan-pagination.md:41` says that
  it stops. The code's way is the one that `NothingMissed` needs.
* `check_interval.rs:98`: an interval below a second is cut to none.
* `check_interval.rs:114`: `record_check` fails when the directory of the stamp is
  missing, where the comment at line 65 says that it is created.
* `macros.rs` documents `request_header` as a header "sent on every request"; a
  user's Authorization header goes only to hosts that `auth_allowed_for` accepts,
  and for s3, manifest and custom there is none unless `allow_auth_host` names it.
* The documentation of `.timeout` says that there is none by default; a fresh blocking
  reqwest client has its own, of 30 seconds.
* `lib.rs:1288` says of entries with one name that the last one wins; a file entry that
  meets an earlier link is written through it and leaves the link
  (`LedAstray` excludes that case).
* `lib.rs:1211`: a directory entry that meets a link to a directory is taken to be
  there, and a later entry may replace a link on the way; `extract_into` says Ok and the
  directory is gone (`LedAstray`).
* `lib.rs:1098`: the refusal of a layer without its decoder in `get_archive_reader` is
  called unreachable, since `detect_archive` comes first; it is reached with a kind that
  `Extract::archive` was given (`Opens`), and is needed there.
* `extract_into` writes a plain asset under its file stem, where its documentation
  says that the name stays.
* `backends/manifest.rs:271`: the async path reads the manifest without the size cap
  that `read_body` has for the blocking one.
* `backends/custom.rs:236` says that `.retries()` has no effect there; the download
  of the asset does retry.

## Proofs

Eight modules hold proofs. Each theorem is proved for every value of the constants
that satisfies the named assumptions of the module; TLC evaluates these on every
run of it.

### MoveAll proved

`MoveAllProofs` proves about `MoveAll`, for every number of moves, every set of
destinations with any moves sharing one, all contents and links, and all temp
directories: `TypeOK`, `AllInstalled` and `RestoredUnlessLogged` (in one theorem,
`AllOrNothing`), `OriginalKept`, `AtMostOneHole`, `CommitsOnce`, and that `MoveAll`
implements `AtomicInstall`. The assumptions are those of the module: N is positive,
`Dest` and `New` are functions of the moves, and contents, links and `Absent` are
distinct.

None of these is inductive. `RestoredUnlessLogged` speaks of a commit that has
returned; to get there one must know what the stashes hold while it runs. `IInv`
says so in parts: `ForwardInv` (before a failure, what is below the loop's move
is installed, what is above is untouched, and the only hole is the current
move's), `OpenInv` (of the moves to one destination that have not been undone,
the first one holds the original, in its stash or by having found nothing, so
undoing them newest first ends with the original), `UndoInv` (what has been undone
reads as it did), `CrashInv` (where the originals are, whenever the process is
killed) and `ControlInv`. Each action gets a step, and the parts an action
disturbs get a step each below it. TLC checks `IInv` as an invariant of `move_all`.

### Update proved

`UpdateProofs`, for any number of updaters, calls and changes of the server, any
releases, assets and configurations, and files of any size: `TypeOK` and
`OneResponse`; and under two conditions also `BinaryVetted`,
`InstallsWhatWasListed` and the refinement of `SafeUpdate` (`Refinement`). The
conditions are what the first two findings break, and the theorems name them
as hypotheses:

* `OneCopier`: in no fleet do two updaters copy across file systems, so that the one
  temporary name beside the install path is never shared;
* `NamesApart`: no plain asset has the name it is extracted to.

The run `update` satisfies both.

`IInv` is `TypeOK`, that the server serves a release's asset under that
release (`Served`), and for each updater `Local`: what its call holds at the place
where it is (`Knows`). Read from the end backwards it is the argument: what is about to be
installed is what the extraction can yield of the downloaded file (`Yields`) and has
passed the hook (`Hooked`); the file passed the gates (`Passed`) and is a beginning of one
response (`Received`), which is an asset of the wanted release (`Responding`), which is
newer than the running program or pinned (`Chosen`). `Local` speaks of one updater's
locals, so the steps of others cannot disturb it (`OthersSame`), whatever they do to
the server or the disk. `VettedExecutable` concludes that the executable is one that
`Vet` lists: either a gate has seen that the file is whole, or nothing would and
the archive format is plain.

The disk needs an invariant of its own, `DiskOK`: what is in the temporary file is the
first parts of the copier's executable, or all of it, and the temporary name never names
the installed inode. It is inductive only with `OneCopier`. `StepDisk` gives both that it is
kept and that a step changes what is installed only by installing.

The assumptions are those of the module; `InodesAssumption` says that there is always a
free inode. `Size`, `Runs` and `Edits` are any numbers.

### CheckGuard proved

`StampIsWhole`, `NobodyLockedOut` and `Throttled`: for any number of processes, any
tick, interval and horizon, and a clock that is set to any time. The properties
speak of one answer, which compares two times that were cut to seconds at
different steps; the invariant's `Cuts` says of each of them which time it is the cut
of: the stamp (the last check's), what a reader has read (the stamp's when it read)
and what a writer is about to persist. The rest is arithmetic, in lemmas about
whole seconds (`Floor`, `FloorMonotone`, `FloorWhole`).

### Program proved

`BinaryIsKept`, `UpdateReaches` and `RestartIsNeverStale`, for any number of processes
and versions. `IInv` says what the names can be (`DirOK`, with the binary always at
`app` or at `temp`); that versions are in the order of installation and no two names
hold one file (`Versions`); and why a restart cannot find an old binary, which is a
different reason on each system. Where the system says the running file's name
(`Unlinked`), the file that `update()` replaced has lost its last name, so it is not
found at all. Where it says the path of the start (`Led`), that path leads to what was
installed or something later, unless a Move has put an older binary back.

### Requests proved

`BuildsWhatWasAsked`, `NoMistakeIsLost` and `CredentialsAgree`, for any menus, any
number of setter calls in any order, any sites and URLs. `IInv` says that each field
is the function of the history that the properties take it for, in one part for
each group of setters: `NamesKept` (with the flag `auto`, which says that the path in the
archive still follows the name), `TogglesKept`, `ClientsKept`, `HeadersKept` (except
that a `Download` can have its headers replaced), `AuthKept`; that what was built was
built from these very fields (`BuiltOK`); that a call of a setter has a last one
(`HistoryOK`); and that an updater was given a name unless its site leaves it out
(`SiteOK`). A call disturbs one part and keeps the others, which is one lemma
(`CallKeeps`); a request leaves the builder alone (`RequestStep`).
The assumptions are that `None` is no argument (`NoneAssumption`), that toggles are
Booleans (`TogglesAssumption`), that a site leaves out only what its build asks for
(`SitesAssumption`), and that a URL has a host (`UrlsAssumption`).

`BackoffDoubles` is `BackoffExact`: for any base, maximum and number of retries, the
delays begin with the base, double, stop at the maximum and never wrap. Nothing in it
depends on a bound, so the proof has to know what the recursive function `Doubled`
computes, and first that a function satisfies its recursion at all: approximations
that satisfy it up to n (`Upto`) exist for every n (`UptoExists`) and agree where
both are defined (`UptoAgree`), so their diagonal satisfies it everywhere (`DoubledIs`).
`RequestKept` says of a request under way that its delays are those of the attempts so far.
The assumption is `TimingAssumption`: durations are milliseconds below `MaxMillis`,
and a number of retries is a number.

### Induction

The library's induction rules take a predicate as an argument, which these provers
cannot instantiate. They can use that `<` is well-founded on the numbers, a fact about
sets: every set of numbers that is not empty has a least element (`Least`), and so a set that has 0 and,
with n, n + 1, has every number (`Induction`). Where a proof needs an
induction, it names the set of numbers for which the claim is true: `Orderable`
(every set below n can be listed in order), `Sortable` (a listing of n places has a
front), `Topped` (numbers in n places have a greatest), the sizes for which `Upto` exists.

### Selection proved

For any listing of any length, in any order, with any junk and ties in it, any current
version, strategy, pin and identifier: `ChosenIsNewest`, `AssetForThisPlatform`,
`CallsAgree` and, as a property of steps, `OnlyForward`. Under them lie two theorems
about the comparisons of `version.rs`: what is newer than what is a strict total order
(`GreaterIsStrict`), pre-releases and build metadata included, and what is compatible is newer (`CompatibleIsNewer`).

`IInv` says that the answer to a question is what the function asked computes from the
listing as it stands (`AnswerOK`); it is kept since the listing never changes and
`Become` forgets the answer. The work is in the functions: that a stable sort has a
front, that this front is a greatest version and the earliest of its equals
(`FirstNewestIs`), and that the `CHOOSE` with which the property names the
newest version is not empty (`NewestIs`), which is what the total order is needed for.
`OnlyForward` follows from the invariant: what `Become` becomes was answered to
`Update`, which answers with something newer, or to `UpdateTo`.
The assumptions are `ListingsAssumption` (a listing is a sequence of releases, and `None`
is not one of them) and `CurrentsAssumption` (the running version is a version or a
string that does not parse: the setter takes any).

### Listing proved

`PagesProofs` has the theorems about `Listing` and about `ObjectStore`. Both count places
in a listing in order, and share the lemmas about least elements and sets in order.

`TypeCorrect`, `WalkIsComplete` (`NothingMissed`),
`RollingTagsAreSkipped` and `LatestIsNewest`, for every size of a page, cap of pages,
number of releases and retries, and any creations and deletions
between two pages.

`NothingMissed` speaks of a walk that has ended. While it runs, `Complete` says where
what is still missing must be: a release that was there when the walk began and is
wanted is in what was kept, or stands behind the pages that were read. A creation
moves releases to later places and never to an earlier page, so the walk may meet a
release again but cannot pass one by; a deletion can make it do so, which is why the property
excludes deletions. `InOrder` says that what was kept is strictly descending while
nothing is created, and is above all that stands behind the pages read; `KindsTaken` that a listing for
an update holds nothing older; `FirstPage` that a call for the newest release has asked
for the first page alone. Under them are lemmas about counting: the place of a
release descends as releases get newer (`CountAbove`, `Positions`), and each page begins where
the one before it ends (`PagesFollow`). TLC found it
kept with the constants of `MCListing.cfg` before it was proved.
The assumptions are the sizes (`SizeAssumption`, `MaxPagesAssumption`,
`RetriesAssumption`), that trusted hosts are hosts, and that `Nowhere` is not a page.

### ObjectStore proved

`EveryKeyOnce` (`KeysOnce`), `OnePageMerges` (`MergedWithinPage`) and `CallsAgreeAlways`
(`CallsAgree`), for any keys, releases, size and number of pages, and any number
of edits. `BucketInv` has: each asset belongs to the release it is filed under (`Own`); no key is at
two places (`Once`); every key that was filed lies before the
continuation token (`Passed`), which is why a later page cannot file it again; every
key that was there throughout and lies before the token was filed (`AllPlaced`); and
the releases of one page differ (`Merged`). `GroupedIs` says what grouping one page
gives, for any page: every key of the page in exactly one place, under its release. `CallsAgree`
needs no invariant but the types: of any finite listing of numbers there is a greatest one
(`EveryTopped`). The assumptions are those of the module: versions are numbers, since only
their order matters to this backend (0 stands for one that does not parse), and there
is a host.

### Extraction proved

`RepeatsSafely` (`ExtractsAgain`), `RetriesEndAlike` (`RepeatsEndAlike`) and
`ExtractedIsArchived` (`ExtractedAsArchived`), for any names, any archives of any length
with any links in them, any assets and builds, and any sequence of extractions, each
broken off anywhere.

`IInv` says of the tree that whatever is there is in a real directory (`Parented`):
nothing removes a directory, since a link does not replace one. While the only asset so
far is one archive, all that is there comes from its entries, the links that were there
when the extraction began as well (`Own`), so nothing is in the way of an entry
(`NothingInTheWay`), and `ExtractsAgain` follows. For
`ExtractedAsArchived`, `Unpacked` says that the entries so far stand (`Stands`) and
that every link was there when the extraction began or is that of one of them
(`LinksKnown`). `Stands` is stronger than the property: a file is at its own
name and not somewhere behind a link, and a directory entry that met no link is a directory
at its own name. `RepeatsEndAlike` is where the two meet: the links of its own archive lead
no extraction astray, so at the end every entry stands; what has entries below it is a
directory (`Parented`), and by `Own` there is nothing else.

What has to be shown is that an entry takes none of those before it away
(`NextUnpacked`). Files and links have names of their own; a directory may be reached
through a chain of links, and an entry could turn the chain. `DirsStay` says that a
change of what is no link cannot: a chain that reaches the changed name, or a name
below it, ends there, and so did not end in a directory. A link that is replaced was there
before the extraction, and then `LedAstray` says that no directory entry depends on one.
The second part of `LedAstray` came from this proof: without it the invariant is not
inductive, and TLC found the extraction that shows why.

The assumptions are about names (`NamesAssumption`), archives (`ArchivesAssumption`,
with `WellPacked`) and the kinds that can be set (`AssetsAssumption`), as described above. TLC found `IInv` kept with the constants of
`MCExtraction.cfg` before it was proved.

### Only model-checked

* Liveness: `CommitReturns`, `UpdateReturns`, `WalkReturns`, `TimedRequestsEnd`. It needs
  fairness and what is enabled, which are out of this prover's reach.

All the other properties that the passing runs check are stated by theorems.

What the theorems do not cover: the bounds of the model itself (a listing that is one step in
`Update`, the menus of setters, the depth of names and links in `Extraction`), for which
see the modules and "Not modelled".

## Plan

What would come next:

1. Names of any depth in `Extraction`, and a number of links as a constant.
2. `extract_into` of a tar, once the part of the tar crate that matters is
   written down, and two extractions into one directory at once.

## Not modelled

* JSON and XML of the backends, URLs and their escaping, request signing, hashing,
  signature arithmetic, archive and compression formats, messages, progress display
  and error texts: conversions of data without state, better tested than
  model-checked. They are most of what the map does not name; of the lines of
  the source files, the larger part are their unit tests.
* Setters that store one value which nothing derives or checks.
* The tar crate's unpacking; TLS and proxies; streams inside the HTTP libraries.
* The expiry of a presigned URL (`s3.rs:1650`): no clock there. The download then fails.
* Windows: `self_replace` and `restart` take other steps there.
* Two processes in `MoveAll::commit` on the same destinations, about which the code
  promises nothing.
