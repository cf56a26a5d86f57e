# A TLA+ verification of fuse-overlayfs

fuse-overlayfs shows a stack of directories, the *layers*, as one file system:
layer 0 (the upper layer) is written, the others (the lower layers) are only
read. This directory holds TLA+ models of its core, TLC configurations that
check them on small instances, and TLAPS proofs of what matters most. Paths
below are relative to the repository (`src/` in `PROJECT.json`'s paths).

## The system

| component | state | operations | interacts with | hard behaviour |
|---|---|---|---|---|
| node cache and layers (`overlay.rs`, `node.rs`, `whiteout.rs`, `copyup.rs`) | `NodeArena`: nodes with `layer_idx`, `last_layer_idx`, children, whiteouts, loaded flag; the upper layer on disk | lookup, opendir, create, mknod, mkdir, symlink, link, unlink, rmdir, rename, open for writing, setattr, the REFRESH_DIR ioctl | registers nodes in the inode table; puts temporaries in the work directory | two ways to find a name (one at a time, and by scanning a directory); negative answers from cached state; decisions on whiteouts from `last_layer_idx`; remounts |
| inode table (`node.rs`) | `table`, `fuse_map`, `next_fallback` | `register`, `inc_lookup`, `remove_node_id`, `forget` | every handler that replies an entry; the kernel's reference counts | recycled inode numbers, collisions, tombstones, partial forgets, listings older than the tree |
| open files and passthrough (`overlay.rs`) | `open_files`, `fh_to_ino`, `inode_backings`, `passthrough_enabled` | open, create, release | fuser's threads; the kernel's backing files | several locks taken one after another; a check repeated; failures at run time |
| work directory (`copyup.rs`, `overlay.rs`) | `wd_counter`; temporaries on disk | copy-up, mkdir, mknod, `hide_node`, `Drop for OvlNode` | publishes into the upper layer by rename | failing system calls, death between two system calls, leftovers of earlier processes |
| layers' access (`layer.rs`, `datasource.rs`, `direct.rs`, `sys/*`) | descriptors | stat, open, readdir | the operating system | none of its own |
| id mapping, extended attributes (`mapping.rs`, `xattr.rs`) | none | pure translations | stat and xattr replies | 32-bit arithmetic |
| configuration, process set-up (`config.rs`, `main.rs`) | none after start | parsing, mounting | | |

`OverlayFs.inner` is one read-write lock. Every handler that changes the tree or
the table holds it for writing from beginning to end, so such a handler is one
atomic step of a model. `open`, `create` and `release` also work on tables with
locks of their own, after giving `inner` up: there the steps between locks
interleave. Where the process can die, or a system call fail, in the middle of a
handler, the states between its system calls count too.

What makes each part correct:

* the mount behaves as one ordinary directory tree, now and after a remount, and
  the cache never says anything about a name that the layers do not;
* a FUSE number the kernel holds stays known, counted, and is never given to
  another file;
* the backing of an inode is counted exactly, shared by concurrent opens, and
  never a lower file for a handle that writes;
* a request by number reaches the file that the number was given out for;
* whatever copy-up publishes is the lower file, with its owner, mode and
  attributes; a crash or a failure in the middle of a handler loses nothing;
* what a change of owner, mode or attribute stores is what is shown afterwards,
  through id mapping and stat override.

## Modules

| module | models |
|---|---|
| `Maps` | `HashMap` insert and remove, used by all others |
| `InodeTable` | the table, each handler's use of it, and the kernel's references. Keys, paths and calls are arbitrary, so its results do not depend on the directory code |
| `AbstractFS` | what users are promised: one directory tree `fs` and the answer `reply` to the last call. No layers, whiteouts or cache |
| `OverlayTree` | one directory and its subdirectories: lower layers, upper layer `u`, `.wh.` files `w`, node cache `mem`, and the handlers. `FS == INSTANCE AbstractFS WITH fs <- Merged` is the refinement |
| `FileNumbers` | a directory's children map, the node arena, the inode table and the files on disk together: from a number to a file. Composes what `InodeTable` and `OverlayTree` model apart |
| `Attributes` | owner, mode and extended attributes of one file on an upper and a lower layer: id mapping, stat override, attribute names, copy-up |
| `Passthrough` | open, create and release by several threads, a step per lock |
| `WorkDir` | the temporaries of copy-up, create over a whiteout, mkdir and `hide_node`, a step per system call, with failures and restarts |
| `MapTheorems`, `InodeTableProofs`, `WorkDirProofs`, `PassthroughProofs`, `AttributesProofs`, `FileNumbersProofs`, `OverlayTreeProofs`, `FlatTreeProofs` | proofs |
| `MC*` | constants for TLC |

**InodeTable.** `arena` is the set of live nodes, `table`, `fuse_map` and
`next_fallback` the fields of the same names, `kernel[f]` the references the
kernel owes forgets for. `register` is its two outcomes `RegisterKnown` and
`RegisterFresh`; the collision loop is the declarative `FreshIno`. `AddChild`
stands for all handlers that make a node; `MoveProbed` for a rename whose lookup
of the destination after the disk rename finds the moved file itself.
`ReaddirplusUnheld` is the entry that was counted and then did not fit in the
reply. Three constants say what the kernel and users do: `PartialForget`,
`Readdirplus`, `StaleListing`.

**OverlayTree.** A layer is a function from paths to what is there: nothing, a
char-device whiteout, a directory, an opaque directory, or a file named by its
content. Handlers are composed of operators on the mutable state
(`do_lookup_file`, `reload_dir`, `get_node_up`, `hide_node`, ...), named as in
the code. `Stack` and `Merged` say what a set of layers means, from the disk
alone; they are the yardstick and use nothing of the code's operators but the
three that describe what is on a layer. A behaviour has a *setup*, which never
changes: what the lower layers hold, `last_layer_idx` of the directory (0 for
the mount's root, the lowest layer's index for a directory merged from all
layers), whether char devices can be made and RENAME_WHITEOUT works, and which
calls users make on which paths. `MCOverlayTree` defines the sets of setups that
the runs start from. Sequences of calls are unbounded; the name sets bound the
state space.

There is one node for a path, and REFRESH_DIR breaks that: it clears the
directory's children map (`overlay.rs:3684`), but the old nodes stay in the arena
and in the inode table, and `register` refuses the new ones as duplicates
(`node.rs:370-378`). From then on calls by number (write, setattr, link, and calls
in a directory) go to the old node and calls by name to the new one. So
`RefreshAssumption` has refresh only in setups whose calls name files
(`ByName`: lookup, opendir, create, mknod, symlink, unlink, rmdir) and whose lower
layers have no directories: there only the new node is used, and one for a path is
what the code has. `FileNumbers` has both nodes.

A handler is one step, and its system calls are the sequences of states that it
hands to `Through`: `before` are the states up to its last call that can fail,
`after` the ones behind it. Where the setup has `crash`, the step may end in any
of them with the memory of a new mount; where it has `fail`, in one of `before`
with EIO. `fail` stands for a call that needs space: making, renaming or linking
an entry. Removals do not fail in the model. That `rename` ignores a failure of
`create_whiteout` is an outcome of its own in `FinishRename`.

**FileNumbers.** One directory, merged from the upper and one lower layer, with
files only. `dir` is its `DirState`, `arena` the nodes, `table` and `fuse_map`
the inode table without its counts (an entry lives until the kernel forgets its
number), `dent` and `held` the names and numbers the kernel has. A node keeps the
key it was made with, so a copied-up file is found under its lower inode. A lookup
by name takes the key from the lowest layer that has the name (`LazyNode`,
`overlay.rs:1014-1018`), a scan from the first one: after a remount an upper file
over a lower one has the lower inode's number if it is looked up first, and its
hard links another one. The kernel drops a dentry at any time (`Evict`) and then
forgets the number (`Forget`), also while the name is there.
`lookup_node_id` may return any live node of an entry, because the code takes the
first of a hash set. Inodes of the upper layer are used again when they are free.
A number is any that is not in `fuse_map` where the code hashes; which one is the
business of `InodeTable`, and no property here depends on it. Node ids are the
name that a node was made for and a number. A behaviour has a *use*: the lower
layer, the calls made, and the names that renames go to. `Careful` describes the
uses in which a number does lead to its file.

**Attributes.** `disk[0]` and `disk[1]` are the file on the upper and on the lower
layer, with owner, group, mode, kind and attributes. An attribute name is a
sequence of pieces, split after the prefixes the code looks for, so that encoding
a name is prepending a piece; `Words` are the pieces without meaning. Ids are
`Width` bits wide and `Shift` wraps, as `+` on `u32` does in a release build. A
mode is a set of bits; only whether the server can open the file to read matters
to the code. The setup holds the mount's options, the override attributes of the
layers' roots, and whether the server may change owners. An override attribute can
have fields that are not numbers and a type that is none. `override_mode`, which
getattr uses, rejects such an attribute as a whole; `parse_override_fields`, which
setattr uses (`Current`), ignores the type and falls back to the inode for each
bad field alone.

**Passthrough.** `pc[t]` is what a thread does next: `maybe` (is passthrough on?),
`check` (the first look into `inode_backings`), `backing` (the kernel registers the
file), `recheck` (the second look), `insert` (into `open_files`), `record` (into
`fh_to_ino`), `plain`; for a release `release` (out of `fh_to_ino`), `uncount` (in
`inode_backings`), `close`. The labels are also the locks: a thread at `insert`
still has `inode_backings`, a release at `uncount` has `fh_to_ino` while it asks for
`inode_backings` (the guard of the `if let` in `overlay.rs:2791` lives to the end of
its block), and steps that take a lock wait until nobody has it. `open_files` is
only ever locked within a step. `create` is one step: it holds `inner`, nobody can
name the file before its reply, and who has one of the tables asks for no `inner`.

**WorkDir.** A file's data says for each block whose data it is. `OpenTemp` has
the outcomes of `O_CREAT|O_WRONLY`: a new file, a leftover file as it is, or an
error for a leftover directory. `CreateOver` is create of a name that a whiteout
hides, whose temporary is opened with the user's flags: without O_TRUNC and O_EXCL a
leftover becomes the new file (`overlay.rs:3139`). `gone` are the lower files that
were removed: they stay hidden here, made again or not (`root_unlink` shows where
the code does not keep them so). `Restart` can come at any time; `first` only
records that none has come yet, so that one run can state both what holds always
and what holds on a work directory that was empty at the start.

Operators whose comment begins with "Mutant" are deliberate bugs. They are used
only to show that each property can be violated; `PROJECT.json` pairs each
property of a passing run with one.

## Runs

Passing runs:

| run | checks | instance |
|---|---|---|
| `inodes` | `TypeOK`, `ReverseMapExact`, `HeldIsMapped`, `CountCoversKernel`, `HeldNeverReassigned` | 2 keys that collide, 3 numbers so that the fallback counter wraps, 3 nodes, 2 references |
| `inodes_any` | `ReverseMapExact` with every misbehaviour of the environment on | 4 keys on 2 devices |
| `file_numbers` | `TypeOK`, `NumberMeansName`, `OnlyCalledChange` | 2 names, 2 lower and 3 upper inodes, 4 numbers, 3 nodes for a name |
| `tree` | `TypeOK`, `CacheIsTrue`, `AbsenceIsTrue`, `ActsAsOneTree`: files with either kind of whiteout, in a merged directory and in the root; hard links; subdirectories; renames; REFRESH_DIR among calls by name; all calls over empty lower layers | 2 names with 1 name under each, 2 lower layers with files, directories and whiteouts |
| `tree_faults` | `CacheIsTrue`, `AbsenceIsTrue`, `AllOrNothing`, `OnlyNamedChange`, `RenameKeepsSource`, with crashes, failures and without RENAME_WHITEOUT | the same names, fewer lower layers |
| `attributes` | `TypeOK`, `ChangeIsShown`, `OthersKept`, `XattrsKept`, `MarksAreOurs`, `ListMatchesGet` | ids of 3 bits, no range, two, or one that passes the largest id; every pair of override modes; files, directories, symlinks and fifos |
| `passthrough` | `TypeOK`, `CountsOpens`, `SameBacking`, `Answered`, with refused backings and the locks | 2 threads, a lower and a new file, 3 handles |
| `workdir` | `TypeOK`, `NeverTruncated`, `SessionExact`, `NameIsFresh` | files of 1 and 2 blocks, a directory, 3 temporaries per process, creates over whiteouts with no flag, O_TRUNC and O_EXCL, failures and restarts |

Bounds. Two lower layers are the smallest stack with a layer between the first and
the last; two names are the smallest set with a rename. In the inode table three
nodes allow a key to die, be recycled and be met by a collision; one more key or
node only adds independent copies. Two threads race an open with an open and an
open with a release; three handles let a release come between the two checks of an
open while another handle stays. A work directory needs a leftover and one
operation that meets it: two temporaries, three with a directory among them. In
`file_numbers` two names are enough for a link, a rename onto a name and an inode
that passes from one name to the other; 3 upper inodes leave one free for every
call, with 4 numbers one stays for the next call while three are held or are
tombstones, and a name's third node is one that REFRESH_DIR made. There names and
inodes are symmetric: nothing in the module or its uses singles one out, and it
has no liveness property. In `attributes` 3 bits hold two ranges, an id outside of
both and the largest id, which `chown` takes for "leave as it is".

Violation runs. Each checks one statement of a comment or a test that the code
does not keep; the findings in `PROJECT.json` quote it.

| run | what happens |
|---|---|
| `root_unlink` | `rm f; touch f; rm f` in the root, `f` on a lower layer: the lower `f` is back |
| `opaque_lookup` | lookup in an opaque directory that was unloaded finds a lower file |
| `passthrough_lower` | a handle for writing is backed by the lower file |
| `workdir_stale` | a leftover's tail is published behind a shorter file |

The scope of a passing run is its set of setups. What the sets leave out is
mostly what the code does not get right. Besides the runs above, these were seen
while the model was built, and adding the combination to a set of setups (or
setting the constant, or dropping the named condition) makes TLC show them.

Names and crashes (`OverlayTree`):

* in the root, `rm -r d; mkdir d` gives a directory that is not opaque: after a
  remount the lower files are in it (`mkdir`, `overlay.rs:2032`);
* renaming a file made again over a whiteout shows the lower file under the old
  name (`overlay.rs:2483`);
* with `.wh.` whiteouts, a file renamed to a removed name stays hidden
  (`overlay.rs:2348`);
* RENAME_NOREPLACE to a removed name is EEXIST because of the whiteout, and
  RENAME_EXCHANGE with a file of a lower layer is ENOENT (`overlay.rs:2368`);
* without RENAME_WHITEOUT a name of a merged directory cannot be removed
  (`overlay.rs:1279`);
* a crash between `renameat` and the source's whiteout, or a whiteout that
  cannot be made, brings the lower file back under the old name
  (`overlay.rs:2485`); a crash in `mkdir` or `link` can show the lower file that
  a whiteout hid (`overlay.rs:2086`, `overlay.rs:2554`);
* with `.wh.` whiteouts, a crash of `unlink` before its `renameat` leaves the
  file on the upper layer with a whiteout beside it; `link` to that name then
  removes the whiteout and answers EEXIST, and the file is back;
* with three lower layers, a `.wh.` file for a directory between two layers that
  have it does not end the scan (`overlay.rs:809`).

Numbers (`InodeTable`, `FileNumbers`):

* a partial forget removes a tombstone that is in use, and its number can be
  given out again (`PartialForget`, `node.rs:454`);
* a number that the kernel holds without a name leads to the file that got its
  inode (`overlay.rs:595`);
* a lower file with two names is one number: a write through one name may copy up
  the other (`copyup.rs:346`);
* a lower name renamed away and back: the copied-up file and the lower file have
  one key and so one number;
* after REFRESH_DIR the old nodes stay in the arena (`overlay.rs:3684`). After
  lookup a, REFRESH_DIR and a write of a by number the directory's node of a is
  still at the lower layer: lookup answers from the lower file, unlink copies it
  over the written one before it hides it, and once the dentry is evicted and the
  number forgotten the next number leads to the lower file. If a name is removed or
  renamed after a refresh, a change by number through the old node copies the lower
  file over the upper one. With a directory, what is made through the old node is
  missing from the new one, and rmdir by name finds it empty;
* READDIRPLUS hands the kernel the number of an entry removed since OPENDIR,
  which the table does not know (`StaleListing`), and counts entries that do not
  fit in the reply, so their count stays too high.

Attributes:

* replies to calls that make a file show the ids on disk, unmapped
  (`overlay.rs:472`);
* copies of directories get `mode | 0755` less the umask, copies and new nodes of
  special files lose the umask's bits, and symlinks are copied without attributes;
* `setattr` writes the override attribute again without its type field; a
  file the server cannot read gets the inode's owner instead of the overridden
  one; and with an attribute that has one bad field, as `0:0:644:bogus`, getattr
  shows the inode's owner and mode while setattr keeps the attribute's other fields,
  so that a chmod changes the owner shown (`ReadsBack` leaves both out);
* an override attribute on a lower file takes effect by copy-up when only the
  upper layer has that override mode, and loses it in the opposite case
  (`CarriesIds`); an override on symlinks and special files is written and never
  shown (`Overrides`);
* the mode `User` is detected by `user.fuseoverlayfs.override_stat` and reads
  `user.containers.override_stat`;
* `listxattr` answers ERANGE for the size it has just told when it filters names.

Open files:

* after a refused backing, handles with and without one are open at once, which
  is why `SameBacking` speaks of handles that have one (`overlay.rs:258`).

Work directory:

* besides `workdir_stale`, a create over a whiteout after a restart can open a
  leftover as its temporary, and the new file begins with the leftover's data
  (`overlay.rs:3140`; `SessionExact` is about the first process).

Fairness. Only `Passthrough` states liveness. A thread that has a request goes
on with it (`WF_vars(Serve(t))`): fuser's worker runs the handler to its end, and a
lock is waited for. Weak fairness is enough although others take the locks in
between, because `MaxFh` bounds how often they do (in the code the locks are
parking_lot's, which hand a lock to a waiter from time to time). That nobody waits
for ever is not for free: a release asks for `inode_backings` under `fh_to_ino`, and
an open that kept `inode_backings` while it asks for `fh_to_ino` would deadlock with
it, which is the mutant of `Answered`. Users need not make requests,
so there is no fairness on `Open`, `Create` and `Release`. Deadlock is not
checked in `passthrough`, where the bound on handles ends a behaviour; it is in
all other passing runs.

## Proofs

`InodeTableProofs` proves, for all sets of keys, all bounds and every mixing
function:

* `TypeCorrect`, `ReverseMapCorrect`: for any kernel. The inductive invariant is
  `TypeOK /\ ReverseMapExact`; an allocation takes a number outside `fuse_map`, so
  it cannot overwrite another entry's;
* `HeldIsMappedCorrect`, `CountCorrect`, `NeverReassigned`: assuming
  `~PartialForget` and `~StaleListing`. Both are needed: without the first a
  partial forget frees a number in use, and a stale listing hands out numbers that
  `fuse_map` does not have. `HeldNeverReassigned` is about every entry that comes
  to stand for another file (`Reassigned`): a new one, one with another number,
  and one none of whose nodes was there before, so a recycled inode that got its
  own old number back would break it too. The strengthening is that counts cover
  the kernel's references and that every held number is mapped: `forget` frees a
  number only when the count is used up, hence when the kernel has none left.

The steps are grouped by what they do to the table (an entry's count changes, an
entry is allocated, a number is released), one lemma each, so that the proof for
a handler only says which of these it is.

`WorkDirProofs` proves all four properties of the run for files of every length
and any number of operations, failures and restarts. `NeverTruncated` is not
inductive: `CopiedSoFar` adds that the temporary of a running copy begins with
the blocks copied so far, which holds of a leftover too because the copy starts
at block 1. For `SessionExact` and `NameIsFresh`, which speak of the first
process, `SessionInv` adds that its temporaries have names below `wd_counter`,
so the name that an operation takes is free, and that behind the blocks copied
the temporary is empty; that a file made by create over a whiteout is empty
(`Blank`) needs the same two facts.

`PassthroughProofs` proves `TypeOK`, `CountsOpens` and `SameBacking` for any
finite set of threads and any files. `CountsOpens` counts two sets that steps of
different threads change, the handles in `fh_to_ino` and the threads that have
counted themselves and are not there yet or not there any more, so every step
needs to know that it moves exactly one member: `Numbering` and `FreshHandles` say
that a handle's number is taken once and is in no table before its insert.
`BackedByEntry` says that whoever has a backing has the one of the inode's entry;
`SameBacking` is its consequence. `OpenExist` (an open file exists) is needed for
`create`, which may take an inode only while nobody counts on it.

`AttributesProofs` proves every property of its run, for ids of any width, any
mode bits and any set of mounts with the types the options are parsed into
(`IsSetup`; it also says that users' names are not the override attributes' and
do not carry the override prefix, as the properties do). The invariant
is `TypeOK /\ MarksAreOurs`; the work is in lemmas on the operators. `find_mapping`
there and back is the identity on ids that one range covers and no other range
reaches, also where `+` wraps; encoding a name and decoding it gives the name;
a copy has the attributes that users see. The provers know nothing about powers,
so `Wrap > 1` (`Wrap` is 2^Width) is an assumption next to `Width > 0`. The proof
of `OthersKept` (under `CarriesIds` and `ReadsBack`, the conditions on which it
holds) found a case that the run did not have: a server without
privileges over a lower layer with the privileged override attribute, which
`copy_xattr` skips when it may not be set, so that the owner shown changes with
the copy. `CarriesIds` now excludes it, and the run's setups include it.

`FileNumbersProofs` proves the three properties of its run for any names, inodes,
numbers and bounds, for the uses that are `Careful`: no REFRESH_DIR, every lower
file under one name, and renames only without lower files, or without `create` and
`link` and to names that are not below; dentries may be evicted and numbers
forgotten at any time. The run checks these uses and, beyond them, REFRESH_DIR
where nothing is copied up or removed; outside of them the list above says what
goes wrong. `Inv` holds between calls. Of the state that handlers share it says
`Good(s, {})`: the children of the directory and the nodes of the arena are the
same (`Children`); entries have only live nodes with their key and a number that
leads back (`Entries`); a node's layer is the one that shows its name and its key
is the inode there, or was before copy-up, or is that of the lower file it hides
(`Backed`); a lower inode is the key of one node, and where a rename took that
node away a whiteout hides the lower name (`Unique`, `Gone`); what the directory
takes for absent is absent (`TrulyAbsent`); in uses with renames a node over a
lower file knows it (`Below`), or no whiteout would be left; and where there are
renames and lower files no upper file has two names (`Mixed`, `Single`), or
`renameat` of one onto the other would move nothing and leave both. `Dentries`
adds that the kernel's names have nodes that are registered under the kernel's
numbers. In the middle of a rename the files have moved and the nodes have not:
`Good(s, {x, y})` is the same with two names excepted, and each operator has one
lemma about what it does to a good state, so the proof for a call follows the code
line by line. `OnlyCalledChange` follows from `Unique`: the one node of a number
that still reads the lower layer, and so would be copied up, is the name's own.

`OverlayTreeProofs` proves `OverlayTree`'s `TypeOK` for any names, any number of
layers, anything that lower layers can hold and any use, crashes and failures at
every system call included, so also for the setups that the passing runs leave
out. Besides types, `TypeOK` says that the cache is a tree of nodes under
directory nodes and the upper layer one of entries under directories: no handler
follows a node to a parent that is not there or makes an entry in what is no
directory. It is not inductive. What a handler needs of the state it finds is
`Sound`: a directory node on layer 0 is a directory on the upper layer; a file's
node has nothing in it on the upper layer and no whiteouts, so a file or a
whiteout can take its place; a node's whiteouts are names of that directory. All
states that a handler hands to `Through` are shown to be `Sound`, which is why a
crash or a failure between two of them needs no argument of its own. There is one
lemma for each operator that handlers are composed of and one for each handler;
the renames share `Relocate`, which says that a step may empty or fill two places
that are not in one another, each with the whole of what was somewhere else.

`FlatTreeProofs` proves the other properties of `OverlayTree` for mounts that are
`Flat`, for any names, contents and number of layers. In a flat mount the layers
hold files and whiteouts of both kinds; it is a directory merged from all layers,
or the root where no file is made; users look up, list, make, write, link, remove
and change files and remount, and make or rename no directory; they refresh where
files are called by name (`RefreshAssumption`). All of the
mounts in `FileSetups`, and those of `FaultSetups` where nothing is moved and no
directory made, are flat. Proved of them:

- `FlatCacheIsTrue`, `FlatAbsenceIsTrue`: what the cache has and what it takes to
  be absent is what the layers show;
- `FlatAllOrNothing`, `FlatOnlyNamedChange`: what a crash or a failure at any
  system call leaves;
- `FlatLookupShowsMerged`, `FlatRemovedIsGone`: the properties that the runs
  `opaque_lookup` and `root_unlink` refute, so what those show needs an opaque
  directory and a file made again in the root;
- `FlatActsAsOneTree`: if in addition nothing fails or crashes and removal does not
  stop at `EEXIST` (`Quiet`: a server that can make char devices has
  `RENAME_WHITEOUT`), the handlers implement `AbstractFS`.

What `Flat` leaves out is where the code does something else. In the root
(`last_layer_idx` 0) a file that was made again is taken to hide nothing. Without
`mknod`, `hide_node` writes the `.wh.` file before it moves the file away, so a
failure in between hides a file that was not removed; `link` removes the whiteout
before `linkat`, so a failure in between uncovers the lower file: flat mounts have
failures only with `mknod` and without `link`. For the same reason they have
crashes together with `link` only with `mknod`: a crash in `hide_node` would leave a
`.wh.` file beside the file, which `link` then removes and answers `EEXIST` for a
name that was not there.

The inductive invariant is `FlatInv`: `OverlayTree`'s own, and `Right`, which says
of each name what its entry on the upper layer can be (`DiskAt`), that its node is
at the first layer that has it (`NodeAt`), that a cached whiteout hides it
(`WhAt`), and that a loaded directory has all names of its layers (`LoadedAt`).
`DiskAt` is where the options come in: with `mknod` there are no `.wh.` files on the
upper layer, with `link` none beside a file, and in the root every file on the upper
layer has one below, without which `hide_node` would leave no whiteout. Paths have
at most two names, so the recursive `Stack` can be unfolded and `Merged` equals
`Shown`, the entry of the first layer that has one. A handler touches one name: the
lemmas on the operators say what happens at that name and `OnlyAt` that the others
keep what they were, so `Right` is shown for one name and kept for the rest. Every
handler then has one of a few effects on what is shown (`Effect`, `FlatEffect`), and
all the theorems follow from those effects without looking at handlers again.

The assumptions are the named `ASSUME`s on constants, evaluated by TLC in the
runs; `"none" \notin Content` in `SetupAssumption` says that no file's content is
the mark for no file. Only model-checked: the properties of `OverlayTree` other
than `TypeOK` on mounts with directories below, with renames or with the faults
that `Flat` leaves out, `RenameKeepsSource` among them, and `FileNumbers` in uses
that are not careful. Out of the prover's reach: liveness (`Answered`).

## Not modelled

Char devices 0/0 and names beginning with `.wh.` that users make themselves, which
the layers cannot tell from whiteouts; symlinks and special files in the tree as
kinds of their own (they go the way of files there; `Attributes` tells them
apart); a crash of the machine that loses or reorders what system calls have done
(nothing in the code orders writes to disk); failing removals; REFRESH_DIR with
calls by number in the tree (what it does then is in the list above);
`create_whiteout`'s fallback to a `.wh.` file after an mknod that is refused at
run time, and the flag `CAN_MKNOD` which that clears, so that `delete_whiteout` no
longer looks for devices (`whiteout.rs:113`, `whiteout.rs:176-179`; in the model
whether devices are made is fixed for a mount, as the environment variable fixes
it); the branches of `create_node_directory` for a name that the upper layer
already has (`copyup.rs:183-212`), which a right cache does not reach; errors of
`copy_xattr` other than EPERM and ENOTSUP, which end the copying of attributes and
which its callers ignore (`copyup.rs:66`, `copyup.rs:72`); the temporaries of
mknod, symlink and copies of symlinks and special files; times, sizes and
`truncate`; the option `disable_xattrs`; parsing of options and of attribute text;
path resolution (`sys/openat2.rs`) and the other system call wrappers; the data
path; start-up, signals and statistics. `PROJECT.json` lists the components with
reasons.

## Plan

The theorems of `FlatTreeProofs` with subdirectories and with renames: `Seen` and
`Right` for names two deep, where a name's layers are those its directory is merged
from, and `OnlyAt` for the whole of a tree that moves. Each needs the condition on
setups under which it holds: nothing opaque, and no rename of what was made again
(`DirSetups`). A tree model with two nodes for a path, in which REFRESH_DIR can go
with calls by number, so that what the list above says of it becomes a run.
