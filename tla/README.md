# fuse-google-drive: verification

TLA+ models of fuse-google-drive, a FUSE file system that shows a Google Drive
account as one read-only directory, with the TLC configurations that check them
and TLAPS proofs of what matters most. Lines are of the files under `src/`.

## 1. The system

One process. `main` (gd_fuse_operations.c) calls `gdi_init`, which authorises
the user, lists the drive and builds an index; `fuse_main` then runs the
handlers, by default in several threads; when it returns, `gdi_destroy` releases
everything. There is one shared structure, `gdi_state`, with a linked list of
`gd_fs_entry_t`; nothing is locked.

| component | its state | operations | what makes it correct |
|---|---|---|---|
| file cache (`gd_open`, `gd_read`, `gdi_load`, `gdi_check_update`, `gdi_read`, `str_swap`) | per entry: `md5`, `size`, `cached`, `cache.str`, `cache.len`; per open: a `request_t` | open = check the md5, download, swap; read = bound, length, copy | a read stays inside the cached body; nothing dangles when bodies are swapped under readers; an open shows what came of a content the server had during it, or changes nothing; updates are seen in the end |
| cleanup stack (stack.c, functional_stack.c) | growing array, `size`, `top` | init, push, pop, resize, destroy | no slot outside the array; every accepted cleanup runs once, last in first out |
| HTTP request (curl_interface.c) | `response.headers`, `response.body`, `flags.header`, the URI | init, set URI, request with its callback, clear, destroy | headers and body are split exactly, nothing of an earlier answer is left |
| listing (`gdi_get_file_list`, `xml_parse_file_list`, `gd_fs_entry_from_xml`, gd_cache.c) | the linked list, `num_files`, the hash table | fetch the pages, append entries, index, look up | every file of every page that arrived, once, and found under its name |
| escaping (`filenameencode`, `str_urlencode_str`) | a buffer and two indices | count, allocate, copy | no write outside; exact and reversible |
| configuration and code (`load_file`, the loop of `gdi_init`) | a buffer and two indices | read, strip; type | no write outside; the file without newlines, the first line without blanks |
| session (`main`, `gdi_init`, `curl_post_callback`, `create_oauth_header`, `gdi_destroy`) | two cleanup stacks, tokens, curl | acquire, register, exchange the code, mount, release | what was registered is released once on every way out, in an order its users survive |
| string buffers (str.c) | `str`, `len`, `reserved` | resize, concat, swap, destroy | no store leaves its block, no block has two owners, a failed allocation costs the piece and nothing else |
| mounted drive (gd_fuse_operations.c, `gdi_destroy`) | the table `gd_oper`, the list, the index | `getattr`, `readdir`, `open`, `release`, unmount | a known name stays found, no null entry is opened, every entry is freed, once |
| first-run help (`gdi_load_clientsecrets`, `print_api_info`) | directories | mkdir, mkdir of the parent, rmdir | removes only what it created, tells of what it created |

How they interact: the handlers and the listing each own a `request_t`; curl
calls `ci_callback_controller` for each piece of an answer, which appends to the
request; `gdi_load` swaps the request's body with the one of the entry;
`gdi_init` and `ci_init` push their cleanups on stacks; the kernel sends a
lookup before each open and read, in any order, on any worker thread.

What is hard: worker threads racing on one entry between plain loads and stores;
answers that are cut, refused or empty while the code ignores
what `ci_request` returns; a server that changes files at any time, also back;
allocations that fail where nobody looks; a dozen exits of `gdi_init`; buffers
sized by one loop and filled by another. `PROJECT.json` lists these
hazards at their lines.

## 2. Modules and the code

| module | stands for | state and steps |
|---|---|---|
| `FileCache` | the file cache | one step for each access to a field of a shared entry. `pc` is the position of a worker in `gdi_load` (`check`, `fetch`, `swap`, `both`/`str`/`len`, `finish`) or `gdi_read` (`bound`, `length`, `base`, `copy`). The two stores of `str_swap` come in either order, since they are plain; the loads of `gdi_read` stay in source order. `heap` holds bodies with their length, `req` the worker's `response.body`, of the update check (`check`, `compare`) and of the download, and the `tmp` of `str_swap`; a body whose last pointer a step drops is leaked and its name used again. A copy outside a buffer crashes or returns something else |
| `CloseToOpen` | what the user of a file is promised | no cache, buffer, request or stored length: a file shows one body, only an open changes it, to what a download of a version the server had may leave (`Received`: whole, cut, an error page), and an open that changes nothing has a stated reason; refined by `FileCache` |
| `CleanupStack` | stack.c and functional_stack.c | `store`, `reserved`, `size`, `top` as in the code, every allocation may fail; `fstack_init` has no return statement, so its caller sees either outcome |
| `LifoStack` | what a cleanup stack promises | refined by `CleanupStack`, used by `Session` |
| `Transfer` | one `request_t` over several requests | `Callback` is one call of `ci_callback_controller`; a connection may break after any piece, and any piece may be lost to a failing `realloc` (history `lost`) |
| `Buffers` | str.c under `Transfer`, `ci_create_header`, the swap of `gdi_load` and the release of an entry | `strs`: block, length and capacity of the two strings of the response, of an entry's cache, and of the header list (as if it were one); `heap`: the sizes of the blocks. One step conjoins a step of `Transfer` with what it does to the strings |
| `Text` | what the conversions compute | operators `Encode`, `StripPath` |
| `Listing` | the directory | `INSTANCE Transfer` as its request; one action per node of a page and per entry indexed. A child of an entry without its text, a link without `href`, a page without a body and an entry without a title end in `crashed`; a failing `malloc` of an entry in `starved` |
| `Drive` | `main` from `gdi_init` to `gdi_destroy`, over `Listing` | `grip` is what the kernel holds of the name a user works with: nothing, an inode, an open file. One user is enough, for lookups only read; what workers race for is `FileCache`'s |
| `CharLoops` | the four loops that move characters into a buffer | `from` and `to` are the indices they read and write at, `buf` the buffer; a store outside it ends in `overrun` |
| `FirstRun` | what follows a failed load of the client's secret, after `CharLoops` | `dirs` are the directories that exist, `theirs` those this process did not create; `full_path` lacks its null character, so it names `~/.config` or something below it (`target`); other programs create directories at any time |
| `Session` | the life of the process | `inUse`, `estack`, `gstack`; `INSTANCE LifoStack` for both stacks; one action per acquisition, failure and release. `Dropped` is what the code acquires and never releases, among it the first block of `complete_authuri` (`first_uri`), whose cleanup is registered at gd_interface.c:350 and which `str_init` at 477 drops |
| `MC...` | instances for TLC | |
| `...Proofs` | theorems; `TextProofs` lemmas about texts and recursion | |

Undefined behaviour is a choice: the result of `fstack_init`; `free()` of a
struct member, which aborts or goes on; bytes of a `malloc` that `fread` did not
fill; a `memcpy` past the end. Definitions commented "Faulty" are not used by
any action: each is a plausible mistake in the definition next to it, used to see
that a property notices.

## 3. Runs

Each run is `tlc -config <run>.cfg <module>`.

| run | bounds | what it shows |
|---|---|---|
| `fc_seq` | 1 worker, 2 files (with and without md5), 4 buffers, 2 contents, one of them empty, all failures, cut downloads, a server that goes back, 4 read requests (inside, across the end, past it, of no bytes) | `FileCache` implements `CloseToOpen`; the types; the cache coherent; reads inside the body; no two entries share a body; the bodies that leak are the answer of each update check and the body that an update replaces |
| `fc_conc` | 2 workers, 1 file, 4 buffers, all failures | no pointer dangles, and nobody else holds a body that is not yet in its entry |
| `fc_live` | 2 workers, 1 file, whole downloads, checks that may fail or crash the program, a server that never goes back | every open returns unless the process dies; a file opened again and again converges to the server's last content and its length |
| `fc_v_reverted` (violation) | 1 worker, 1 file, server may go back | see 5 |
| `fc_v_size` (violation) | 1 worker, 1 file whose contents grow | see 5 |
| `fc_v_torn` (violation) | 2 workers, 1 file whose contents shrink | see 5 |
| `cs_lifo` | 5 cleanups, 2 slots growing by 2 | the array never overruns, forgets nothing, implements `LifoStack` |
| `tr_split` | 2 URIs, answers of 3 to 6 pieces of 0 to 2 bytes, connections that break, any `realloc` failing, 4 blocks, one entry | the split is exact over repeated requests; every string stays in its block and is as long as what was stored in it; strings that may grow know their capacity |
| `ls_list` | module `Drive`: 3 pages in 6 shapes (empty pages, links first, a page skipped, a link without `rel`), 3 files, titles with slashes and percent signs or the same title, malformed entries and links, error pages, answers with two blocks of headers, broken connections, failing allocations; 5 names, one of which no file has | the list is made of whole pages, of all of them if they arrived; names lead to their files; mounting crashes only over an answer without a body or a node that lacks what is taken from it; once mounted no name leads to a null entry; all entries are freed; `gdi_init` and `gdi_destroy` end |
| `ch_loops` | strings of up to 3 of 5 characters and the escapes of them, inputs of up to 5 characters, an array of 3 + 1 for the code (45 + 1 in the program) and a minimum of 2 (5); every set of 5 directories that is closed under parents, `HOME` set or not, `XDG_CONFIG_HOME` set or not | no loop leaves its buffer; escaping is exact and reversible; the file and the code are what they should be; the first-run help is tidy |
| `se_life` | all resources of the program, all failures and replies | no cleanup runs twice; a mount has what it needs; what is still in use at the end is exactly what is known to be lost |
| `se_v_unmount` (violation) | no failure | see 5 |

Why the bounds are enough. Files interact only through the heap and a worker
works on one entry at a time, so races need one file and two workers, and aliasing
between entries two files: both at once are beyond TLC's time, so `Ownership` is checked in `fc_conc` with two workers on one file (its first conjunct, about two entries, says nothing there) and in `fc_seq` with one worker on two files, and proved for any number of both; four buffers let every `malloc` succeed in the checked
instances, and names of leaked buffers are reused. `SizeT = 16` stands for
2^64: what counts is that a negative difference becomes larger than any size.
Contents are versions with distinct md5s and lengths; two of them already differ
in every respect. A stack of 2 slots grows twice with 5 cleanups. Every position of
an empty page and of the last entry occurs with 3 pages. `fc_conc` leaves the
histories out of its view and takes symmetric workers and buffers; no run with a
liveness property uses symmetry.

Fairness. `FileCache!FairSpec`: each worker goes on with its open or
its read; this is the kernel's scheduling and, for the steps that wait for an answer,
that a request is answered or its connection breaks: curl gets no timeout, so this is assumed of the network, and on a connection that hangs `OpensReturn` is false. `Drive!FairSpec`: the same for the single thread of
`gdi_init`, and that `gdi_destroy` goes on. Nothing is assumed of users, of the server's changes or of
unmounting, and `Converges` is about files that keep being opened.

Conditions that matter; without them the property fails, by what the code does:
coherence, refinement, `LeaksExplained` and bounds of reads need one worker (two first opens at once lose one of
their bodies). The refinement needs nothing else, since `CloseToOpen` promises no more than the code gives: `gdi_load`
ignores how a download ended, so a cut body or an error page may be shown after an open that returned 0, and
after a change back to the listed content or for a file without md5 an open shows
the body of an earlier one. That an open shows the server's content in spite of this is what `Converges` says, under whole downloads
and a server that never goes back. `SplitExact` needs answers with one block of headers (behind a proxy, the
answer to CONNECT ends the section, and the real headers become part of
the body) and is about transfers of which every piece could be stored (the callback does
not look at what `str_char_concat` returns); `Listing` takes no piece of a page to be lost,
since a page with a hole may still be well-formed XML and then mean anything;
`CapacityHonest` is about the strings of a request that may still receive: `str_swap` leaves
an entry's cache and the body of a finished request with each other's capacity, and only
that neither is appended to again keeps this harmless;
`ListingExact` gives all files only if pages arrive (a failed page looks like the last one),
and `ListingEnds` needs links that do not lead in a circle;
`EveryFileFound` gives the name of several files to the first (`hsearch` leaves a
key that is there alone); `CodeIsFirstLine` needs a newline (EOF is stored as a
character until the array is full). `SafeOnceMounted`
rests on the kernel opening only names it looked up, and is about names only: an update check that brings no body
takes a mounted drive down (`FileCache!CheckCrash`, after which `strstr` runs on a null pointer). `ListingExact` also needs
the allocations of single fields (gd_cache.c:246-248) to succeed; that of the entry may fail.
`LoadsFile` allows, behind the text, one byte of what `malloc` left for each byte the file lost since its size was taken. `FirstRunTidy` is about directories that
nobody else removes. One more is visible in the model and has no property: the comment at
gd_cache.c:91 says `length+count*3` where the size is `length+count*2`.

## 4. Proofs

`tlapm <module>Proofs.tla`. All of them hold for every value of the constants
that the module's named assumption allows; what a theorem assumes besides is in its
`ASSUME`. In every module the theorem follows from an inductive invariant,
preserved by each action, that the run of the module was used to test first.

- `TextProofs`: the lemmas about data. Induction is stated on a set of
  numbers (a set without the least number it misses is all of them, from
  `NatLessThanWellFounded`), and from it that recursively defined functions
  exist and are unique; then that `FlattenSeq` appends, what `Encode` does to a longer text, that it
  is injective if the percent sign is escaped (`EncodeInjective`), and that `StripPath` gives a name
  without a slash back (`StripOfName`).
- `FileCacheProofs`. `TypeCorrect`. `NothingDangles` and `BodiesOwned`, for any
  number of workers: `NoDangling` alone is not inductive, since `SwapStr` publishes
  the `tmp` of a request and `Unmount` frees what entries point to; the invariant
  `MemoryInv` adds the type, that idle workers hold nothing, and `Ownership`: entries
  do not share bodies and an unpublished body has one holder. `CacheIsCoherent` and `OneWorkerReads`, if
  all threads are equal (`OneWorker`): `CoherentInv` adds `CacheCoherent` and what the worker knows in
  the middle of a swap or a read, from which each copy is in bounds, in particular
  that the subtraction never wraps. With two workers both are false (`fc_v_torn`).
- `CloseToOpenProofs`, with one worker (`OneWorker`) and no other condition. `CacheImplementsCloseToOpen`, the
  refinement, for files with and without md5, contents and requests of any size, cut downloads, error pages, checks that fail
  or crash the program, and a server that goes back. `ContentInv` says that what a worker downloaded is in
  `Received` of a version seen since the open began, what an open that will change nothing has established, and that
  what a reader is about to copy is what it asked for; each step is then an
  abstract step or a stutter. `LossesExplained` from `LeakInv`: a body is replaced only in an entry that
  was cached, and what a request holds besides its answer is in the entry.
- `CleanupStackProofs`. The invariant says where `top` is (`Shape`: at `size`, or
  one slot up when the stack was emptied by the pop that leaves `top` alone) and
  that held, run and lost cleanups account for all accepted ones. From it
  follow `StackNeverOverruns`, `StackForgetsNothing` and `StackIsLifo`, the refinement
  of `LifoStack`, step by step.
- `BuffersProofs`. Of `Transfer`: `TransferTypeCorrect`, and `SplitsExactly` under `Conforming`: each
  answer has one block of headers that an empty line ends. The invariant names the
  position of the split; a piece that could not be stored sets `lost` for the rest of the
  transfer. `tr_split`'s answers
  conform. The two are stated of `BufferSpec`, which is composed
  of steps of `Transfer`. Of `Buffers`:
  `StringsAlwaysFit` and `CapacityStaysHonest` from `BufferInv`, which adds to the two properties that
  every block in use belongs to a string and that the strings of a request are empty before `ci_init` overwrites
  them. `StringsHoldContent` adds `Contents`: each string is as long as what `Transfer` says was stored in it. `EnoughBlocks`
  (four) is no limit of the program: there are four strings, and a failing `malloc` is a choice of
  the model of its own.
- `DriveProofs`. `ListInv`: the entries are linked in the order of their
  allocation, and what readdir walks from the head on is all of them (`ChainIsWhole`). `CountInv`: `numFiles` counts
  them, so the table of four slots for each is never full (`RoomInTable`). `IndexInv`: the
  table leads from the names passed so far to their first entries. `StageInv`: what the
  stages of `main` have done. From these `MountedIsSafe`, `FreesTheWholeList` and
  `IndexIsExact`. `NamesInv` adds that every entry comes from a node of the server and, from
  it, `DriveTypeCorrect`, `ListedNamesResolve` and `FilesAreFound`, which need that encoded names have
  no slash and that two titles never get one name. `ListedIsExact` and `CrashesHaveCauses`, for feeds of any number of
  pages, in a circle or not: `AskInv` says that a body holds nothing but pieces of the answer to the page asked
  for, so a whole page in it is that one (`BodyIsAsked`); `PageInv` that `uri` is the page after the `read` pages that arrived whole, that
  the entries are theirs and, in the middle of a page, those of the nodes passed so far (`Partway`), with the last
  link of these in `next`; `SourceInv` that each entry was made of a node of a page read.  `FeedAssumption` says what a feed is; that what has the content
  of a file has its title is because the address of a content
  holds the identifier of the document. `ListingAssumption` names the characters of an escape
  only because the prover does not know that they are strings.
- `FirstRunProofs`. `LoopsStayInside` from `LoopInv`: the loop that copies is two positions
  further for each character it escaped, and `size` is how many of them the text has. `EncodesEveryText` from `EncodeInv`: the buffer up to
  `to` is the encoding of the text up to `from`; `EncodingIsReversible` with `EncodeInjective`. `LoadsWithoutNewlines` from `LoadInv`: up to `to` the buffer holds
  the file without its newlines up to `from` and then, once `from` is past the text, at most as many bytes that `malloc` left as positions passed; ahead of `from` is what was read, then what `malloc` left;
  `TextFilesAssumption` says that configuration files are texts and hold no null character, which would end the
  loop early. `CodeIsTheLine` from `CodeInv`: the array holds what was typed of the line without its blanks, and the
  filter of a part of the line begins that of the line.
  `HelpStaysTidy` from `TidyInv`: what this process
  created is, at each of its steps, nothing, one known directory, or two.
- `SessionProofs`, for every failure and reply: `SessionTypeCorrect`, `SessionReleasesOnce`, `SessionKeepsNeeded`,
  `SessionLeavesNothing`. `Rank` is the order in which `gdi_init` acquires and
  `Progress` how far it has come: nothing on a stack or released has a higher rank, so nothing is
  pushed twice (`Once`); `Accounted` says where each resource in use will be
  released; `Kept` what a mount may rely on; `Lost` that nothing dropped has a cleanup
  on a stack and that on the way to a mount and out of it all that was dropped stays, so that what is left at the end is exactly that.

Only model-checked: liveness (`OpensReturn`, `Converges`, `ListingEnds`), which with fairness and
ENABLED is out of the prover's reach. `ListingEnds` also needs links that do not lead in a circle. The
other properties of the passing runs are theorems, for all values of the constants or, where this is
said above, under a condition that the run meets as well.

## 5. Divergences

Four runs check what the repository says and find it violated; the counterexamples:

- `fc_v_reverted`: a file goes from its listed content A to B, is opened, and goes
  back to A; the next check compares with the md5 of the listing, says "current" and the open
  serves B (README.md:9, "should detect file updates").
- `fc_v_size`: the listing gives a file its size, an update brings a longer content, and `gd_getattr` goes on telling the
  old size (README.md:11, "filesize is correct").
- `fc_v_torn`: a read takes the length of the old content and the buffer of the
  new, shorter one, and copies past its end (README.md:9, "read() works").
- `se_v_unmount`: unmounting passes two members of a struct on `main`'s stack to
  `free()`.

## 6. Not modelled, and the plan

Not modelled: the stubs of gd_fuse_operations.c (`gd_readlink`, `gd_write`, `gd_statfs`, ...): they are not in
`gd_oper`, so nothing calls them; the text and the parsed document of an update check; a failing allocation of a single field
of an entry; libxml2, json-c and
curl beyond how `src/` uses them, curl's options, `author` and
`lastModifiedBy` of an entry (read by nothing), the text `print_api_info` prints,
functions nothing calls (`fstack_resize`, `stack_peek`,
`add_encoded_uri`, `remove_newlines`, ...), the build files. An access token that
expires while the drive is mounted is in `FileCache` as refused requests, which may come at any
time. The tables of unsafe characters are cut to those the runs use.

The plan, in its order; all of it is done.

1. `FileCache` with `CloseToOpen`: the racing part and the purpose of the program.
2. `CleanupStack` with `LifoStack`. 3. `Transfer`. 4. `Listing` over `Transfer`.
5. `CharLoops`. 6. `Session` over `LifoStack`.
7. `Buffers` under `Transfer`. 8. `Drive` over `Listing`; `FirstRun` after `CharLoops`.
9. Proofs: every safety and action property of the passing runs and both refinements are theorems. The conditions left on them are
   those of section 3.
