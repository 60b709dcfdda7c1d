# Micawber: specifications

TLA+ specifications of [Micawber](../src/README.md), a Git-native headless CMS
core written in Go, with the TLC configurations that check them and the proofs
TLAPS checks. `PROJECT.json` ties every definition to the lines of `src/` it
models, every run to its properties and every hazard to what covers it.

To check a run, or a proof:

    tlc -config git_implements_store.cfg MCGitRepository.tla
    tlapm GitRepository_proofs.tla

## 1. The system

Micawber is a library of four packages. No package keeps a process of its own:
the concurrency is that of the callers' goroutines, of other processes on the
same repository or directory, and of people at a shell.

    caller --> core.ContentRepository --> git.Repository --> git subprocesses
                                              |                    |
                                              v                    v
                                          markdown            branch ref, objects
    caller --> core.AssetStore ---------> localfs.Store ----> a directory

| Component | State it keeps | Operations | What is hard in it | What makes it correct |
|---|---|---|---|---|
| `git.Repository`, write path (`git/repository.go`, `tree.go`) | the branch ref; per `*Repository` one channel of capacity one, its queue of writers | `Put` (create, update), `Delete`, all through `apply` | several writers, several processes and plain `git` on one branch; a bounded retry; cancellation at any of seven points; commands that fail or are killed | each write is a compare-and-swap on its document, the branch never loses a commit, replies tell the truth, the queue is given back, every call returns |
| `git.Repository`, read path (`repository.go`, `history.go`) | none | `Get`, `List`, `History`, `GetRevision` | two or three git commands of one call, each of which resolves a branch that moves and is merged; a content root that hides some of what git reports | an answer is of one instant of the call; a history begins with the document as it is; a revision once reported stays readable; a revision of another path is refused |
| git runner and parsers (`exec.go`, `object.go`) | none | `run`, `catFile`, `parseLog`, `parseTree` | a context that ends while a command runs | what the command did and what is reported about it agree |
| `localfs.Store` (`store.go`, `root.go`) | a directory; whether it is closed | `Put`, `Get`, `Stat`, `Delete`, `Close` | every system call interleaves with other callers and with an operator; failed writes, killed processes, power cuts | readers see whole objects, failed Puts never show, acknowledged ones survive, Deletes take objects only |
| `markdown` (`parse.go`, `serialize.go`, the codecs) | none | `Parse`, `Document.Bytes`, `Format` | five slots of bytes that are concatenated on trust; files that other tools wrote; edits over several rounds | unedited is verbatim; what was written reads back; an edit moves nothing it did not name |
| `core` | none | values, validation, the two contracts | nothing runs concurrently; a path is valid in itself and in the place it is joined to, and neither implies the other | the contracts are what the adapters implement; a path never leaves its collection |

The git adapter calls `markdown` to parse what it reads and to serialize what it
writes into the shape of what is stored. `localfs` and `git` do not know of each
other. A revision is a git blob id, that is, a function of the stored bytes: the
same bytes again are the same revision again, which is why the compare-and-swap
on documents needs thought.

## 2. The modules

| Module | Models | Notes |
|---|---|---|
| `Documents` | stored documents as *text in a shape*, revisions, the calls that write | shared by all modules about git |
| `GitTrees` | trees, `cat-file`, `update-index --index-info` | external: modelled from how `src/git` uses git |
| `GitRepository` | `Put`, `Delete`, `apply`, the three plans, the queue, faults, plain git | the core of the project |
| `ContentStore` | `core.ContentRepository`: each call one atomic decision | abstract: no branch, commit or retry |
| `GitRepositoryRefinement` | the mapping that shows the former implements the latter | |
| `ContentPaths` | content paths and collections of `core`: `Join`, `Rel`, what is refused | over segments |
| `GitReads` | `Get`, `List`, `History`, `GetRevision` under a content root, against a branch that moves and is merged | uses `FastForwardOnly` as its picture of the writers |
| `AssetStore` | `localfs.Store`, a system call at a time | |
| `AssetMap` | `core.AssetStore`: each call one atomic step on a map | abstract: no directory, file or rename |
| `AssetStoreRefinement` | the mapping that shows the former implements the latter | |
| `TomlBlocks` | the lexer that finds the keys of a TOML block, and the encoder that writes it in their order | marks stand for bytes |
| `Markdown` | `Parse`, `Bytes`, `Format`, the codecs, and the caller's cycle of get, edit, put | |
| `MC*` | the instances TLC checks | |
| `GitRepository_proofs`, `GitRefinement_proofs` | the theorems about the write path and its contract | section 6 |
| `GitReads_proofs` | the theorems about the read path | |
| `AssetStore_proofs`, `AssetRefinement_proofs` | the theorems about the asset store and its contract | |
| `Markdown_proofs`, `MarkdownReadBack_proofs` | the theorems about the Markdown layer | |
| `TomlBlocks_proofs` | the theorems about the TOML lexer and the order it recovers | tlapm needs some ten minutes |

Definitions whose comment begins with "Slip" are never used by a specification.
They are the plausible mistakes that show each property can fail. The inductive
invariants stand at the end of the module they are about, so that TLC can check
what the proofs rest on: add `IInv`, `AInv`, `ReadsInv` or `MInv` to the
`INVARIANTS` of a run.

### GitRepository

A commit is content-addressed, its parent included, so it is modelled by what
its id determines: the sequence of changes from the first commit to it. `ref`
holds one such sequence, empty while the branch is unborn. Comparing two commit
ids is comparing two sequences, which is exactly what `update-ref` does when it
is given an old value.

| Action | Code | |
|---|---|---|
| `Begin` | `Put`, `Delete` up to `apply` (`repository.go:351-365`, `436`, `455`) | a call; content that breaks `core`'s rules is refused at once |
| `TakeTurn` | `apply`'s `select` (`466`) | the send on `r.writes` |
| `ResolveHead` | `head` at the top of the loop (`479`) | sets `parent` |
| `MakePlan` | `plan` (`487`), with `PlanCreate`, `PlanUpdate`, `PlanDelete` | decides against `parent`, however old by now |
| `WriteTree`, `CommitTree` | `writeTree`, `commitTree` (`tree.go`) | |
| `UpdateRef` | `publish` (`tree.go:148`) | moves `ref` only from `parent` |
| `Published`, `Rejected`, `Backoff` | what follows the publish in the loop (`499-516`) | |
| `Abort`, `Cancel` | the context, wherever the loop looks at it | |
| `GitFails`, and the disjuncts of `UpdateRef` under `Faults` | git commands that exit with errors of their own, are refused, or are killed after they took effect | |
| `GitCommits` | `git commit` by anyone else | external |

`turn` is the channel, `attempt` the loop counter, `parent`, `edits`, `tree` and
`commit` the loop's locals, `rev` what the call will return. `nth` and `began`
count a caller's calls and remember the length of the branch when one began, so
that properties can speak of the commits of a call.

### GitReads

One git command is one action, and each resolves the branch for itself: `Log`
and `ReadBlobs` of `History` are two instants, and so are `ListTree` and the
`ListHead` that explains its failure. `known` is what a reader has been told, so
that "a revision once reported" can be stated.

`commits` is the graph of all commits, numbered in the order of their dates, and
`tips` the commits the branch has stood at. Writers of this library commit on the
branch (`BranchMoves`), and others may commit beside it and merge
(`CommitBeside`, `Merge`); either way the branch moves to a descendant, which is
what `FastForwardOnly`, proved of the write path, says. `Changed` is the history
that `git log -- <path>` prints, simplification included: a merge that left the
path as one parent has it is followed to that parent alone. `ChangedUpTo` is a
recursive function from the oldest commit to the newest, `Changed` its value at
the tip, and `NewestFirst` the order in which git prints it up to the limit.

`root` is the content root. `repoPath` joins what a caller asks for to it and
`contentPath` maps what git reports back, with `Join` and `Rel` of
`ContentPaths`; `IsPathspec` is the refusal of operands that begin with a dash.
A path is a sequence of segments, and of a segment the model knows only the
classes the rules ask about.

### AssetStore

One system call is one action: `MkdirAll`, `CreateTemp`, one turn of `io.Copy`
(`CopyBuffer`, `EndCopy`), `Sync` (stat, fsync and close of a private file),
`Rename`, `SyncDir`, `RemoveTemp`; `Lstat`, `Open` and one `Read` after another;
`Stat`; `Check` and `Remove`. `names` is the directory tree as processes see it,
`disk` what a power cut would leave of it, `synced` the files whose bytes are on
the platter. `Writeback` lets the kernel write an entry back whenever it likes,
and `PowerCut` loses the rest. A file is identified by the call that wrote it,
and its bytes by the file they were meant for, so a mixture of two objects is
visible as one.

`AssetMap` is what `core/store.go` promises of this. `AssetStoreRefinement` gives
the instant of each call: the rename for `Put`, the removal for `Delete`, the
look for `Stat` and for refusals, the open for `Get`. What is at a key are the
whole bytes of one stored object or `Garbled`, which the map knows nothing of.
Somebody else changes the map only as the operator of the instance may
(`Others <- Placed`), so in `assets_one_key`, where he places nothing, an
overwrite that shows as an absence for one step is a step the map does not have.

### TomlBlocks

The author writes a block one line at a time, each a line that TOML allows
where it stands (section 5 says which are left out), and the model keeps beside
the text what TOML says the lines mean: the order of the top-level keys and the
kind of each value. `tomlTopLevelKeys` sees the text alone, mark by mark, with
the same skips as the code. `SetField` and `RemoveField` are edits of a caller;
`Encode` orders the fields, writes them as go-toml does and reads the result
back, where a line below a header belongs to that table. What an author may put
into a string, a gap or a comment is stated as TOML's grammar has it (`IsScalar`,
`IsGap`), not as the lexer reads it.

### Markdown

A file is a sequence of *marks*, pieces of text that the scanner, a decoder or an
encoder tells apart. Concatenating bytes is concatenating marks, so text that
ends without a terminator does end up on the line of what follows it. `Scan`,
`Parse`, `Bytes` and `SerializeInto` are the functions of the same names. The
state machine around them is the caller's: `Get`, any edits of fields, body and
format, then `Update`, again and again on what was written. Documents, the view
package git has of all this, is the abstraction "text in a shape".

## 3. The runs

Twelve runs. The states are those of a complete search.

| Run | Instance | Shows | States |
|---|---|---|---|
| `git_implements_store` | three writers in two processes and plain git, three paths, one of them a directory of another; unborn or with documents that are deleted and restored; one writer may be cancelled | the queue, the compare-and-swap, truthful replies, retries caused from outside only; every behaviour is one of `ContentStore` | 405 k |
| `git_faults` | two callers of one `Repository` and plain git on one document, damaged bytes, refused content, every fault, up to three attempts, with fairness | no commit is lost and none does what was not asked, whatever fails; every call returns | 558 k |
| `git_nested_paths` | one create below a path that is a document | **violation**, finding 1 | |
| `git_reads` | a reader with two calls, under either content root; three commits and a merge; documents replaced by directories and submodules, damaged, removed; names that only git accepts | answers are of one instant, a history begins at the tip, revisions stay readable until a merge | 760 k |
| `git_limited_history` | `History` with limit 1 | **violation**, finding 2 | |
| `git_merged_history` | a merge that takes the other side's version of a document | **violation**, finding 3 | |
| `assets_one_key` | three callers on one key, short, long and broken streams, faults, kills, a power cut | whole objects, durable Puts, no trace of failed ones; every behaviour is one of `AssetMap` | 509 k |
| `assets_prefix` | a key and the directory it lies in, Close, an operator | the directory stays a tree; replies are of one instant | 1.5 M |
| `markdown_cycle` | 25 files, well formed, odd and damaged, up to three edits over repeated cycles | the five byte-preservation properties | 28 k |
| `markdown_reads_back` | a file that ends with its closing delimiter | **violation**, finding 4 | |
| `toml_blocks` | every block of the author's grammar of up to three lines and 15 marks, and repeated edits of it | the lexer agrees with the decoder, edits keep the order and read back | 229 k |
| `toml_inline_lists` | the same, shorter, with the lists on which `isTOMLTable` and go-toml differ | **violation**, finding 5 | |

`git_implements_store` runs without faults. `RepliesMatchTheBranch` cannot hold
when `update-ref` moves the ref and is then killed, since the code has no way to
know; `git_faults` asks what must hold even so. `ImplementsContentStore` is asked
without faults because a failed command is an ordinary "given up" of the abstract
store, which its proof (section 6) shows for every fault. `ImplementsAssetMap` is
asked of keys that lie side by side: where one is a directory of another, two
Deletes can be told that they removed one object (section 4), and the map allows
that only once.

### Properties worth knowing about

* `CommitsAreCompareAndSwaps` relates every commit a call has put on the branch
  to the tree it was put on, not to the tree the call first saw. A stale plan, a
  reused tree or a revision that came back break it.
* `RepliesMatchTheBranch` is about lost and repeated updates: success is one
  commit of the revision returned, or bytes that were stored already.
* `RetriesComeFromOutside` says why the queue is there. A publish is lost only
  to a commit from another process or from plain git.
* `ImplementsContentStore` is the contract. A refusal is decided when `head`
  resolves the branch, a success when `update-ref` moves it.
* `ImplementsAssetMap` is the contract of assets, and says what a list of
  separate invariants does not: that the instants of all calls, put in one order,
  are those of a map. `kept` in `AssetMap` bounds what a power cut may bring back.
* `RepliesAreOfOneInstant` (assets) and `HistoryIsOfOneInstant`,
  `ListIsOfOneInstant` (git) say the same of reads: there was one moment
  during the call when the answer was the truth.
* `HistoryBeginsAtTheTip` holds in the face of merges and limits, and is why a
  caller can take the first revision for the one to write against;
  `UnmergedRevisionsStayReadable` is as much as is true of the later ones.
* `LexerFindsTheAuthoredOrder` compares two readings of one text that share no
  definition: the lexer's, and what the author's lines meant.
* `AcknowledgedPutsAreDurable` compares what a power cut would leave at a key
  with everything the key has held since the acknowledged object.
* `ReadsBackInItsOwnShape`, `MetadataStaysPut` and `AuthoredOrderSurvives` are
  action properties of the edit cycle. The conditions `FitsTheShape` and
  `FitsTheLimits` of the first leave out the edits a stored shape cannot carry;
  finding 4 is what happens to those.

### Bounds, and why they are enough

| Bound | Value | Why |
|---|---|---|
| `Writers`, `Processes` | 3 in 2 | two that share a queue, one from outside |
| `MaxAttempts` | 2, or 3 | the code has 5 (`repository.go:426`). Two show a retry and an exhaustion; the third attempt of `git_faults` shows a retry of a retry. The proofs hold for every value |
| `MaxCalls` | 1; 2 in `assets_prefix` | a writer that returns leaves its turn to the others of its process; in `assets_prefix` the second call meets what the first left |
| `MaxGitCommits` | 2 | what the branch starts with, and the restore of a document that a writer deleted, so that a revision comes back (ABA) |
| `Texts`, `Shapes` | 2 or 3, 2 and "damaged" | equal or different is all that is compared |
| `MaxCommits`, `MaxMerges`, `MaxReads` | 3, 1, 2 | a commit on each side of a merge, and a removal; the second call uses what the first reported |
| `MaxContentPath` | 3 segments | a name that fits alone and not under the content root |
| `MaxLines`, `MaxMarks` | 3, 15; 3, 8 for the violation | a string or a list, a header and a line below it; longer strings only repeat what may stand in these |
| `MaxLength` | 1 or 2 buffers | one short, exact, and one too long |
| `MaxCuts`, `MaxPlaced` | 1, 1 | one is enough to lose what was not flushed, or to swap an entry between two calls |
| `MaxEdits` | 3 | an edit, its undoing, and another |
| `MaxFrontMatterBytes`, `-Lines` | 10 marks, 4 lines | the files of `MCMarkdown` and their edits lie on both sides |

Callers and keys are few and unlike one another (who shares a process with
whom, what lies below what), so no symmetry is declared.

Deadlock is checked in every run. The explicit stuttering of `AllReturned` and
`AllAnswered` is enabled only when every call has returned, so a state in which
somebody waits and nobody can move is reported. In `Markdown` a file can always
be read, or replaced by a document put together by hand, and in `TomlBlocks` a
field can always be set.

### Fairness

Only `git_faults` assumes any: weak fairness of `Progress(w)` for each writer,
which is to say that the Go scheduler runs a goroutine that can run, that git
commands end, and that `waitBeforeRetry`'s timer fires. Nothing fair is assumed of
callers, of cancellation, of faults or of plain git. Weak fairness of `TakeTurn`
alone would not do for many callers that return again and again: Go's channel
hands a token to its longest waiter, and here the bound on calls stands for
that.

## 4. What the runs found

1. **A create below a document removes it** (`git_nested_paths`). `planCreate`
   asks whether the exact path is taken; `update-index` then drops the document
   that is now a directory. `repository.go:379-380` says a create must not write
   over anything at all. `NamedDocumentOnly` proves that this is the only way for
   a write to change a document it does not name.
2. **A limited history can be empty** (`git_limited_history`). `History(p, 1)` of a
   deleted document passes the limit to `git log`, whose one commit is the
   removal, and skips it.
3. **A reported revision can be refused after a merge** (`git_merged_history`).
   `GetRevision` looks for a revision in `git log -- <path>`, which leaves out the
   side of a merge that did not decide the path. The commit is in the history of
   the branch all the same. `core/history.go:9-10` says that a reported revision
   can be passed to `GetRevision`.
4. **An update can write a file that cannot be read** (`markdown_reads_back`). A
   closing delimiter at the end of the file has no terminator, and
   `terminateBlock` looks after the block only: a body is glued to it. The same
   property fails when an update changes or drops the front matter, because
   `Bytes` keeps the stored delimiters (`serialize.go:40-42`).
5. **A list that is written on a line can be put below a table**
   (`toml_inline_lists`). `isTOMLTable` goes down the first elements of a list, at
   any depth, and takes it for tables when it ends at one (`toml.go:80-81`).
   go-toml writes under headers only a list all of whose own elements are tables.
   The value TLC shows is `[[{x = 1}]]`, whose only element is a list; `[{x = 1}, 1]`
   is another. Such a field is put after the tables but written on a line, which
   then belongs to the table above it. `toml.go:43-45` says that this order is
   what keeps such lines legal. The two agree once `isTOMLTable` asks of a list
   what `UnderHeader` does: that it is not empty and each of its own elements is
   a table.

Smaller disagreements met on the way. Each is reachable in a model named here
and has no run of its own:

* An `update-ref` that is refused for another reason than a moved ref (a
  stranded `.lock`, a hook) is retried to the bound, and the error then says
  that the branch moved (`repository.go:516`; `git_faults`).
* `List` and `History` on an unborn branch that gets its first commit between
  the failed command and the `head` that would explain it return git's error
  (`repository.go:226`, `history.go:66`; `GitReads`, `ListHead`, `LogHead`).
* A create replaces a submodule, which `cat-file` reports as missing
  (`repository.go:379-381`; `GitTrees`, `CatFile`).
* A path that begins with a dash can be stored, read and listed under the root,
  but its history is refused as an operand (`exec.go:200`; `GitReads`,
  `Refusal`).
* `List` of a collection that has the name of a document lists that document
  (`repository.go:217`; `GitReads`, `Matches`).
* Two Deletes can be told that they removed one object: a Put makes a directory
  of the name between the other Delete's look and its removal, and `Remove` takes
  the empty directory (`store.go:362`, against `localfs/doc.go:127`; `AssetStore`,
  `Remove`; `DeletesTakeDistinctObjects` and `ImplementsAssetMap` are therefore
  checked where keys lie side by side).
* `Put` can fail with `ErrNotFound` when a Delete takes the directory it has just
  made (`store.go:171`; `AssetStore`, `CreateTemp`).
* `Get` follows a symbolic link that takes the place of the object between its
  look and its open, against `localfs/doc.go:176` (`AssetStore`, `Opened`).
* A Put that is under way when the Store is closed cannot remove its temporary
  file, against `store.go:149` (`RemoveTemp`; `OnlyKilledPutsLeaveFiles` is
  therefore checked where nobody closes the Store).
* `mkdirAll` flushes no directory and `syncDir` only the innermost, so an
  acknowledged object in a directory its own Put made is not durable
  (`root.go:229`, `doc.go:231`; `AcknowledgedPutsAreDurable` is checked for keys
  whose directory was there).
* `Bytes` checks no limit, so an edit can write a block that `Parse` refuses
  (`parse.go:158`; `FitsTheLimits`).

## 5. What the models leave out

| Left out | Why |
|---|---|
| symbolic links and file modes in git trees | the code reads the mode in one place, to filter a listing; everything else asks for an object |
| the author, date and message of a revision | copied out of one command's output |
| framing of `cat-file`, `ls-tree` and `log` output | byte parsers with no state; unit tests and fuzzing reach them |
| the git environment (`exec.go`), the texts of errors | a fixed list; wording |
| the rest of `git.Open`, `localfs.Open` | run once, before there is state |
| the text forms of `core` values; `localfs` keys and media types | functions of one string that nothing else in the store depends on |
| directories in directories | a key lies in the store's directory or in one directory below it, so that a `MkdirAll` of several levels is one step, and nobody comes between two of its levels |
| TOML the author does not write: `[a.x]` with a `[a]` after it, dotted keys inside a table, headers of more than two parts, `[[a]]` for a third element, a line feed in a name by an escape | `TomlBlocks` has the rest of the grammar around keys; the lexer takes each of these through the same functions as what is there |
| FIFOs and devices in a store | the package documents that window itself |
| the entries of nested values, comments and indentation in YAML and JSON front matter; dates and numbers | `style` stands for what a YAML node carries |

## 6. What is proved

All theorems are for every value of the constants that satisfies the named
assumptions of the modules: any number of writers, readers, processes,
documents, keys, attempts and calls, any trees, files and limits. TLC evaluates
the assumptions on each run. What a theorem assumes beyond them is in its
statement and in the last column here. The conditions rule out what the code does
not promise: nested creates and prefixes (findings of section 4), an `update-ref`
that fails or is killed where the code cannot know it, a Store closed under a
running call, a directory whose flush fails (`syncDir` is best effort), and an
operator who puts a link, or one object a second time, where objects are kept.

| Theorem | States | Provided that |
|---|---|---|
| **`GitRepository_proofs`** | | |
| `Invariance`, `TypeCorrect` | `[]IInv`, `[]TypeOK`, the bound of the retry loop included | |
| `TurnsExclusive` | `[]TurnsAreExclusive` | |
| `FastForward` | `FastForwardOnly` | |
| `PlansCarriedOut`, `CompareAndSwap` | `[]PInv`, `[]CommitsAreCompareAndSwaps`, with every fault | |
| `TreesWellFormed` | `[]WInv`: no name is an entry and a directory at once | |
| `NamedDocumentOnly` | `[]OnlyNamedDocumentChanges` | no create lies below the path of another document (finding 1) |
| `TrueReplies` | `[]RepliesMatchTheBranch` | `update-ref` is not killed after it moved the ref |
| `LossesComeFromOutside` | `[]RetriesComeFromOutside` | `update-ref` fails for no other reason than a moved ref |
| **`GitRefinement_proofs`** | | |
| `ContentStoreImplemented` | `ImplementsContentStore`, with every fault | no create lies below the path of another document |
| **`GitReads_proofs`** | | |
| `InvariantHolds`, `TypeCorrect` | `[]ReadsInv`, `[]TypeOK` | |
| `HistoriesAreOfOneInstant` | `[]HistoryIsOfOneInstant` | |
| `HistoriesBeginAtTheTip` | `[]HistoryBeginsAtTheTip`, with merges and limits | |
| `ListingsAreOfOneInstant` | `[]ListIsOfOneInstant`, under any content root | |
| `RevisionsStayReadable` | `[]UnmergedRevisionsStayReadable` | the property itself ends at a merge (finding 3) |
| `RevisionsStayInThePath` | `[]GetRevisionStaysInThePath` | |
| **`AssetStore_proofs`** | | |
| `InvariantHolds`, `TypeCorrect` | `[]AInv`, `[]TypeOK` | |
| `TreeStaysATree` | `[]NamesFormATree` | |
| `ObjectsAreWhole` | `[]PublishedObjectsAreWhole` | |
| `PutsReturnTheirOwnRefs` | `[]PutReturnsItsOwnRef` | |
| `FailedPutsAreNeverSeen` | `[]FailedPutsLeaveTheKeyAlone` | |
| `KilledPutsLeaveFilesAlone` | `[]OnlyKilledPutsLeaveFiles` | nobody closes the Store |
| `OneDeletePerObject` | `[]DeletesTakeDistinctObjects` | keys lie side by side, the operator only removes |
| `AcknowledgedPutsSurvive` | `[]AcknowledgedPutsAreDurable` | keys lie side by side, nobody closes the Store, the flush of the directory does not fail |
| `AnswersHoldAtOneInstant` | `RepliesAreOfOneInstant` | nobody places a symbolic link |
| **`AssetRefinement_proofs`** | | |
| `AssetMapImplemented` | `ImplementsAssetMap` | keys lie side by side, only objects are placed |
| **`Markdown_proofs`** | | |
| `UneditedVerbatim` | `UneditedIsVerbatim` for any sequence of marks and any limits | |
| `TypeCorrect`, `AlwaysVerbatim` | `[]TypeOK`, `[]UneditedIsVerbatim`, through any edits and rewrites | |
| `MetadataStays` | `MetadataStaysPut` | |
| **`MarkdownReadBack_proofs`** | | |
| `OwnShapeReadsBack` | `ReadsBackInItsOwnShape`, in YAML, TOML and JSON | the property asks for a shape and limits that the content fits |
| `TerminatorsKept` | `TerminatorsSurvive` | |
| `AuthoredOrderKept` | `AuthoredOrderSurvives`, for any number of keys | |
| **`TomlBlocks_proofs`** | | |
| `TypesAreKept` | `[]TypeOK` | |
| `LexerIsRight` | `[]LexerFindsTheAuthoredOrder`, for blocks of any length | |
| `OrderIsKept` | `EditsKeepTheAuthoredOrder`, for any number of keys | |
| `WrittenReadBack` | `[]WrittenBlocksReadBack` | `isTOMLTable` says of every value given how go-toml writes it (finding 5) |

### The write path

Each layer is an inductive invariant that leans on the ones before.

* `IInv`. `TypeOK` is not inductive: a call's arguments must be known while it is
  under way, and `FastForwardOnly` needs `CommitsExtendTheirParent`, that what is
  about to be published is one change on top of the very parent `update-ref` is
  told to expect.
* `PInv`. Whatever a call stages, commits and has published is its plan made
  against that parent (`CarriesOut`). `update-ref` compares the parent with the
  branch, so the plan was made for the tree the commit lands on. The
  compare-and-swap then follows from two lemmas about the plans alone.
  `CallsAreNumbered` keeps a new call from inheriting the commits of an old one,
  which is why the branch may hold none of them at the start (the assumption on
  `InitialBranches`).
* `WInv`. Trees on the branch are git's: no name is an entry and a directory at once.
  What a plan is told of a path, and what `update-index` drops, depend on it.
* `RInv`. A call has nothing on the branch until its `update-ref` succeeds, and
  one commit of the planned revision from then on. This is where the fault
  "killed" must be excluded.
* `OInv`. While an attempt is under way nobody of the caller's own process
  publishes, because it holds the turn; so everything the branch has gained on
  the attempt's parent came from outside. Losses are counted against those
  commits: each lost publish has one that no earlier attempt had seen.

For `ContentStoreImplemented` the initial states map to initial states, and every
step to a step or to none: a refusal at the `head` it was decided against, a
success at the `update-ref` that moves the ref, and whatever plain git does to a
step of the outside world. An `update-ref` that is killed after it moved the ref
is such a step too, since the call will never own it.

### The read path

`ReadsInv` has four parts. `GraphInv`: a commit is made on earlier ones and the
branch moves to descendants. `KnownInv`: what a caller has been told was at that
path in the history of the branch. `CallInv`: each operation runs its own
commands. `LogInv`, the heart of it: what `git log` printed for a call under way
is the log of one instant of that call.

Commits by others only add to the graph (`Grows`), and a graph that grows does
not change what was said of its old commits: ancestors, versions and entries
stay (`AncestorsRemain`, `VersionsStay`, `EntryStays`). That carries every
answer across the steps of others. What remains is about `git log` alone: of a
history without merges it prints every commit that changed the document
(`ChangedOfLinear`), with merges it prints nothing that the history did not have
(`VersionsArePrinted`), and its first line still has the document as the tip has
it (`ChangedBeginsAtTip`). `ListingIsListedAt` does the same for listings below
a content root: the name a document is listed under is the only one that leads
back to it.

Induction over the commits would need a theorem with an operator for a
parameter. The proofs take the least counterexample instead (`LeastNumber`), and
show that the recursive function exists by `RecursionOnNumbers`, whose parameter
is a function.

### The asset store

`AInv` is one invariant for all callers at once.

* `WriterInv`: a temporary file is that of one call, holds only that call's
  bytes, has never been at a key, and is whole before it is flushed and flushed
  before it is renamed. This is the whole of `ObjectsAreWhole`.
* `ObjectInv`: a file that was ever at a key is whole and flushed, and if it
  belongs to a caller's latest call, that call is past its rename. A Put that
  reports a failure is not, hence `FailedPutsAreNeverSeen`.
* `KeyInv`: `held`, the history of a key, ends in what is there, and the disk has
  something of it. `ReaderInv`: what a reader has open was at a key.
* `FileInv`: the file of a call that is yet to come is empty, so that no call
  inherits bytes.
* `NamesFormATree`, which is a property and its own strengthening: with it, no
  `Remove` takes the directory a temporary file is in.

On top of it, one invariant for each theorem with a condition: `OrphanInv`,
`DeleteInv`, `DurableInv`, `InstantInv`, and `DecisionInv` for the refinement.
The conditions are needed where a second name is looked at: a key that is a
directory of another can change from object to directory between the two system
calls of a Delete.

### Markdown

`Scan` partitions a file into five slots (`ScanPartitions`), a block that was
parsed needs no re-encoding (`AuthoredBlock`) and no terminator
(`AuthoredBlockEnds`), and its layout is used as it is (`ShapeIsKept`). `Bytes`
then concatenates the same five slots. For a block that is kept below another
body, the first three slots are the same and the terminator comes after them
(`FrontAndRest`, `TerminatedBlock`): that is `MetadataStays`.

`MInv` adds to `TypeOK` that a caller's fields are finitely many and that the
block it carries is the stored file's. What an edit makes `Bytes` write is a file
again only if `OrderedKeys` exists: `Precedes` is a strict total order of the
keys (`KeysAreOrdered`), and a finite set with such an order can be listed in it
(`ListedInOrder`).

For what is read back, `Scan` is followed through the file that `Bytes` put
together. If the content can be carried by the shape, each of the five slots ends
where `Scan` looks for its end (`ScanOfFile`, `ScannedShape`): the opening
delimiter is the first line, nothing in the block closes it early, and the line
that closes it stands alone. So the block that is read is the block that was
written. It decodes to the fields it was written for, whether it was kept, left
empty or encoded again (`WrittenBlock`), because an encoder writes one entry per
key, in the order of `OrderedKeys`, each with the terminator of the delimiters
(`EncodedIsRewritten`, `TerminatedFile`). `TerminatorsKept` and
`AuthoredOrderKept` take the other direction. They are given that the file reads
as what was asked for, in whatever shape, and show that the closing delimiter
was then not glued to the last entry (`NotGlued`), so that what was read is what
the encoder wrote (`UpdatedBlock`).

### TOML blocks

The functions of the lexer call themselves on later positions, and those on
values call themselves on values that are nested less deep (`Rank`). Both satisfy
their equations by one theorem about recursive functions over a measure, whose
parameter is a function (`KeysEquation` is one of a dozen).

What the lexer does at a piece of text must not depend on the block the piece
stands in. A lemma therefore says it of every block and every position at which
the piece stands (`Holds`): a scalar is passed over, unless a quote follows it
that would make it another string (`ScalarSkipped`), and so are gaps, lists and
inline tables (`SpelledSkipped`, `InlineSkipped`), at every depth of brackets; a
key is read as its name in each of its spellings (`SpellingIsKey`); a line gives
the lexer its name, or nothing when a table is open (`LineReads`). Such lemmas
compose: two pieces that stand one after the other are read one after the
other. A line of the author and a field that the encoder writes are put together
from the same pieces.

`TypeOK` and the agreement of lexer and keys are not inductive: after a line is
appended, nothing is known of how the longer text is read. The invariant `IInv`
adds `BlockReads`: wherever the text of the block stands, it gives the lexer
names whose first occurrences are the keys, and the lexer knows whether a table
is open. For a block that was encoded this is an induction over the fields in
their order, with a set of numbers in place of a formula for a parameter: the
names that count are those of tables and of lines before all tables, which is
what `TopLevelOf` says of go-toml.

`OrderIsKept` needs from the lexer only that it finds the keys; the rest is about
`Kept`, which keeps the order of what it keeps. `WrittenReadBack` adds that every
field is a table to `tomlKeyOrder` exactly when the library writes it under a
header. Then all lines come before all tables and every name counts.
`toml_inline_lists` has values for which they differ, and the property fails.

What TOML itself allows is assumed of the constants and checked on each run: a
scalar ends where its quotes do (`IsScalar`), a gap between elements is blanks
and comments (`IsGap`), and names and comments hold no line feed.

### Only model-checked

* `EveryCallReturns`: liveness under fairness is beyond the prover.
* The five disagreements, which are counterexamples.

Every other property of the passing runs is stated by a theorem, some of them
under the conditions of the table.

## 7. Plan

Done: the write path with its contract, the read path with the content root and
merges, the asset store with its contract, the Markdown layer, the TOML lexer,
and the theorems above.

What is left to model is listed in section 5: it has no second instant and no
second actor in it, and its tests reach it.

What is left to prove is `EveryCallReturns`, which needs a prover for liveness,
and the theorems with a condition where the condition may be weakened: a Delete
under keys that are directories of one another, and a Store that is closed while
a flushed object is renamed.
