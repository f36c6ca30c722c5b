# A TLA+ verification of fsfs-emulator

fsfs-emulator keeps a small file system in one image file. A command line
program formats the image, mounts it, and creates, writes, reads, renames and
removes files in it. This directory holds TLA+ models of that code, the TLC
configurations that check them, and TLAPS proofs about them.

All paths below are relative to the repository.

## 1. The system

| Part | State it keeps | Operations | Talks to |
|---|---|---|---|
| `FileSystem` (`src/fsfs/file_system.*`) | super block `MB`, `inode_bitmap`, `data_bitmap`, one `Block`, one `Inode` object | `format`, `mount` (with `scan_blocks`), `unmount`, `create_file`, `remove_file`, `rename_file`, `write` (with `edit_data`), `read`, `get_file_length`, `get_file_name`, copies of the bitmaps | `Inode`, `BlockBitmap`, `Block` |
| `Inode` (`inode.*`) | `loaded_inode_n`, `inode`, `inode_buf`, `ptrs_to_allocate`: a one-entry cache of an inode | `load`, `commit`, `clear`, `alloc_new`, `add_data`, `ptr`, `meta` | `IndirectInode`, `Block`, the caller's data bitmap |
| `IndirectInode` (`indirect_inode.*`) | `indirect_block_n` (the chain, last block first), `indirect_ptrs_list` | `load`, `commit`, `clear`, `ptr`, `last_indirect_ptr` | `Block`, the data bitmap |
| `BlockBitmap` (`block_bitmap.*`) | rows of 64 bits, `n_blocks` | `resize`, `set_status`, `get_status`, `next_free` | - |
| `Block` (`block.*`) | `rwbuffer` with the last block read, its number `casched_block`; one mount of the disk | `read`, `write`, `resize`, address arithmetic | `Disk` |
| `Disk` (`disk-emulator/disk.*`) | the image's stream `disk_img` and `disk_img_size`, the block size, the mount count `mounted` | `open`, `create`, `read`, `write`, `mount`, `unmount` | the operating system |
| On-disk structures (`data_structs.hpp`) | `super_block`, `inode_block`, indirect blocks | - | - |
| CLI events (`cli-emulator/events.cpp`) | the locals of one command | one function per command; import and export loop over `write` and `read` in chunks; prompts | `Disk`, `FileSystem`, the user, files of the host |
| `OptParser` (`opt_parser.*`), `startup` (`main.cpp`) | `action_type`, `parsed_args` | `parse`, `main` | the events |

A call of `FileSystem` runs alone: there are no threads and no callbacks. What
makes this code hard is elsewhere.

- **A call is many block writes.** `write` stores the data blocks, then the
  indirect blocks, then the inode. It can throw, and the process can stop,
  between any two of them, and the image is all that is left.
- **Objects outlive calls.** `Inode` and `IndirectInode` are caches which `load`
  keeps when the number matches, and parts of which it keeps when it does not.
  The bitmaps are rebuilt by `mount` only. A call meets whatever earlier calls,
  also failed ones, left there.
- **Resources run out in the middle of a call**: a data block, an indirect block.
- **Block arithmetic**: first and last blocks, full last blocks, the boundary
  between direct and indirect pointers, full indirect blocks, rows of a bitmap.
- **The image is trusted.** A word of a block becomes a block number when the
  block is read as an indirect block. Once an image has become corrupt the
  program goes on working on it.
- **Failures leave counts and streams behind.** A mount that throws keeps the disk
  mounted; a transfer outside the image fails the stream, and all later ones do
  nothing and report success; `open` keeps an image it has refused.
- **A command is a process** of many calls, which may be killed at any of them,
  and prints what it believes to have done.

What makes the parts correct:

- `FileSystem`: no block belongs to two files or twice to one; the bitmaps cover
  what the image uses; a call changes only its own file and only as asked, also
  when it is cut off; each call ends.
- `Inode`, `IndirectInode`: between calls the object says of its inode what the
  image says; each step of a call finds the inode the call is about, content and
  number; nothing is left pending for the next commit; a list holds the pointers
  it is indexed for.
- `BlockBitmap`: it is a set of blocks, and the search finds its lowest free one.
- `Block`, `Disk`, the mounts: an inode or data block is what was last written to
  it, and no write touches another one; a cached block is the one on the disk; the
  mount count is what has been taken and not given back; the image is not exchanged
  under a file system.
- CLI: an import leaves a first part of the file, and the whole of it when it reports
  success; an export, a list and the statistics say what is on the image; a command
  line that begins as a harmless one stays one; each command ends.

## 2. The modules

| Module | Stands for |
|---|---|
| `Layout` | `data_structs.hpp` and the arithmetic of `Block`: inodes, blocks, pointers in a block, `bytes_to_blocks` |
| `Inode` | the `Inode` and `IndirectInode` objects: `LoadInode` and `LoadIndirect` are `load`, `CommitDirect`, `FillIndirect`, `ExtendChain` and `StoreIndirect` are `commit`, `Ptr` is `ptr` |
| `FileSystem` | the calls of the interface and the steps they take; `Next` is a call, a step of the running call, or a crash |
| `FileStore` | the abstract specification: file slots with words, one request at a time, with crashes |
| `Ownership` | what an image means (`Owned`, `Chain`, `FileWords`), the invariants over it, the refinement of `FileStore`, and the calling disciplines |
| `DirectFiles` | what holds of image, bitmaps, inode object and words at every step of a call, for files on direct pointers: the inductive invariants behind the properties of `Ownership` and the refinement |
| `Misuse` | the same without one part of a discipline each, and the statements of the repository that then fail |
| `BlockBitmap`, `BlockSet` | the bitmap on rows of bits, and the set it implements |
| `Disk` | the `Disk` class: stream, offsets in `int32_t`, mount count, `open`, `create`, the effect of `read` and `write` |
| `Block` | the `Block` class: `read` and `write` through the one-block cache, the address functions |
| `Volume` | a `FileSystem` object on a `Disk`: construction, `mount` with the super block, `unmount`, `format`, and the block transfers its calls consist of |
| `BlockDevice` | the abstract specification of `Volume`: an array of places, read and written |
| `OptParser` | one turn of the loop of `parse`, for one option |
| `Cli` | `main` and the events: `Launch` starts a process, `Parse` takes one option, `StartEvent` chooses the event; the other actions are the steps of one event between two calls of `FileSystem` |
| `Commands` | what holds of an event's variables, its call and the files at every step of a command: the inductive invariant behind the properties of `Cli` |
| `FileSystem_proofs` | the arithmetic of lengths and blocks; theorems about `FileSystem` and the `Inode` object |
| `DirectCalls_proofs`, `DirectFiles_proofs` | files on direct pointers: one lemma per action; the theorems |
| `Store_proofs` | the refinement of `FileStore` by files on direct pointers |
| `Cli_proofs` | theorems about the commands: one lemma per action of `Cli`, on top of the refinement of `FileStore` |
| `BlockBitmap_proofs` | theorems about `BlockBitmap` |
| `Volume_proofs`, `Device_proofs` | theorems about `Volume`: mounts, addresses, types and the cache; the refinement of `BlockDevice` |
| `MC*` | instances for TLC |

`FileSystem` extends `Inode`, which extends `Layout`; `Ownership` extends
`FileSystem` and instantiates `FileStore` with a refinement mapping; `DirectFiles` extends `Ownership`;
`BlockBitmap` instantiates `BlockSet`. `Cli` extends `Ownership` and `OptParser`: its
events call the actions of `FileSystem`, whose steps then run to their end. `Commands`
extends `Cli` and `DirectFiles`.
`Volume` extends `Block`, which extends `Disk`, and instantiates `BlockDevice`.

There are two layers. `FileSystem` and everything above it take one block write as
atomic and an address as a block number; `Volume` is where this comes from:
`ImplementsDevice` says that below the calls there is an array of inodes and data
blocks. What `Volume` transfers is left open there. Of what fails below, one thing is kept
above: a block the image has lost (`CutBlocks`) has a number, but each read and write of it
throws. What else a failing stream does is left to `Volume`.

### How state and steps correspond

Variables carry the names of the C++ members. `inodes` and `blocks` are the
image. `pc` is the place where the running call is, `call` its arguments and
locals, `result` how the last one ended (`ok`, `refused` for `fs_nullptr`,
`threw` for an exception). A step reads or writes at most one block of the image
wherever the order of the writes can be seen from outside; a call refused by its
first tests is one step.

- *Unit.* Data is counted in 32-bit words, the size of a pointer, instead of
  bytes. Words are not typed: data, pointers and links are all elements of
  `Words`, so that a data block recycled as an indirect block, or the reverse,
  shows its old content.
- *Memory outside a buffer.* A pointer past the end of `indirect_ptrs_list`, and
  the bytes behind the data of a caller, are any element of `HeapWords`. `commit`
  makes the list longer by the number of new pointers whatever it held; after a
  `disk_full` write it held too few, and the new ones are written, and read again to
  be stored, behind its end. What is then stored is any of `ListWords`: old words of
  the heap or a pointer that was written there. What such a write does to other
  objects of the heap is not modelled, except that the process may die (`Crash`).
- *Lost blocks.* `CutBlocks` is empty or the last block: the image has been cut
  since it was formatted, and its super block still counts it. `StoredNs` are the
  blocks that are there. The write of a new block that is lost throws after the block
  was marked and made pending (`file_system.cpp:187` to `:193`); the throws in the
  chain and in `commit` are those at the same places as for numbers off the disk.
  `format` divides a shorter image anew, into other numbers of inodes and blocks, so
  it is modelled for images that have kept their size only: `direct_files` and
  `chained_files` format, `any_calls` does not.
- *Names* are reduced to whether they pass the length test.
- *The bitmaps* of a `FileSystem` are sets of blocks. `BlockBitmap` shows that
  the class behaves as one.
- *Block writes* are atomic, and done when the step is done. The stream under
  `Disk` may hold the last one back; losing it is the same as an earlier crash.
- *Fragments.* `Disk`, `Block` and `Volume` count in fragments of 64 bytes, the size
  of an inode and of a super block. `Int32` fragments stand for 2 GiB, and offsets and
  sizes wrap around there.
- *Images.* An image is `missing`, `ragged` (its size is not a multiple of 1024) or
  `whole`. The stream on it is `good`, `failed` after a transfer outside the image, or
  `refused` when `open` has thrown for its size. The checksum and the magic number
  are reduced to a seal that only super blocks carry. `disk_img_size` before the first
  `open` is not initialised: any of `StaleSizes`.
- *Commands.* `step` is the place in the event, `local` its locals. One step of an
  event makes at most one call. The process ends with `EndProcess`: its objects
  go, the image stays. One image and one path are modelled; `-c` creates it in
  the size of the constants or leaves it unusable, and the block size given is the right one or
  missing. `before`, in `local`, is for the properties only. A process is killed only once its
  event has begun: while it parses it has touched nothing. Block sizes divide the chunk of an import
  and files stay on direct pointers (`SizeAssumption`); with other block sizes the finding
  `short_append` happens inside one import, and chained files have the findings of section 4.
- *Mount and format.* A mount that throws leaves no object to call
  (`pc = "off"`), as in the command line program. `mount` may also be called on an object
  that is already mounted: the bitmaps are reset, the inode object is kept. `format` works with
  an inode object of its own. Offsets and lengths are not negative.
- `set_data_blocks_status` sets the status of the first chain block twice, with
  the same value; the model does it once.
- `Init` is the image as `format` leaves it, with data blocks of zeros, and no
  process yet.

A definition with the comment *mutant* is a faulty variant of the one below it.
Nothing uses it: it is there to confirm that the properties notice such a fault.

## 3. What is checked

| Run | Question | Instance |
|---|---|---|
| `any_calls` | With no discipline at all, on an image that has lost a block and becomes corrupt: `TypeOK`, `NothingPending`, `LocalsInRange`, and `CallsEnd` | 1 file, 4 blocks of 2 words, the last one lost, 1 direct pointer, files of up to 9 words, at most 2 blocks pending before a write |
| `direct_files` | Files on direct pointers, a disk that gets full, crashes: `NoSharing`, `BitmapsSafe`, `NoLeak`, `ObjectCoherent`, `CallsHoldTheirInode`, `DirectInv`, `WordsTracked`, `ShortWriteMeansFull`, `ImplementsStore` | 2 files, 3 blocks of 2 words, 3 direct pointers, up to 9 words |
| `chained_files` | Files with indirect blocks, crashes: `NoSharing`, `BitmapsSafe`, `ObjectCoherent`, `CallsHoldTheirInode`, `ListCoversFile`, `ImplementsStore` | 2 files, 6 blocks of 3 words, 1 direct pointer, up to 12 words |
| `bitmap` | Any sequence of calls: `BitmapTypeOK`, `PaddingStaysSet`, `ImplementsSet` | rows of 3 bits, up to 7 blocks |
| `volume` | Disks made and dropped, images opened, created, truncated and of impossible size, mounts that fail, an image longer than an `int32_t` can say, transfers: `VolumeTypeOK`, `MountsAccounted`, `CacheCoherent`, `SuperBlockKept`, `ImageKept`, `ImplementsDevice` | images of 5 blocks of 2 fragments: 2 inodes, 2 data blocks; block sizes of 2, 4 and, not allowed, 3; up to 4 mounts |
| `cli` | Any sequence of 22 command lines, killed anywhere: `CliTypeOK`, `ImportIsPrefix`, `ImportIsWhole`, `ReportsAreTrue`, `CommandInv`, `ReadersOnlyRead`, `CallsAreCareful`, `CommandsEnd` | 2 files, 2 blocks of 3 words, chunks of 3 words, files of the host of 1 and 5 words |
| `edit_to_end`, `short_append`, `full_chain`, `stale_list`, `disk_full`, `remove_long_file` | Findings, section 4 | as above |

`NoSharing` is checked in every state, so also in every state in which a crash
leaves the image. `BitmapsSafe`, `NoLeak` and `ObjectCoherent` speak of the
states between calls. Together they are what makes the next call correct.
`ImplementsStore` is the whole promise: seen from its caller, and from whoever
mounts the image after a crash, a write first replaces words within the last
`offset` words and then appends the rest at once, a removal removes at once, and
nothing else changes; reads return what the file holds.

`NothingPending` says how a call may leave blocks for the next commit: of all its ends, by
an error, for want of blocks, on a corrupt chain, only by the write of a block that the image
lacks. Then the next commit of any inode takes the block over: on such an image files can
get blocks of others, which is why the properties of `Ownership` are checked on whole images
(`WholeImage`). `CallsHoldTheirInode` and `ListCoversFile` are about the inside of calls: that
the object is the inode of the call and not what an earlier one left there, and that `commit`
indexes its list within it. Both hold under the disciplines. Without them neither does: a
`load` that throws in the chain leaves another inode under the old number (`inode.cpp:50`), and
a full disk leaves a length beyond the pointers (`disk_full`). `any_calls` has both, and what it
shows is that the calls still end and keep their counters.

`ImportIsPrefix` holds in every state of an import, so also when it is killed;
`ImportIsWhole` and `ReportsAreTrue` compare what a command reports with what the
image means. `CallsAreCareful` connects `cli` with `direct_files`: the events make
only calls that the discipline allows, so what is shown there holds for them.
`ImplementsDevice` is the promise of `Volume`; `ImageKept` and
`MountsAccounted` are about what a test reaches only by making calls fail.

*Why the bounds are enough.* With one or two direct pointers and blocks of two
or three words, a file of two to four blocks crosses every boundary of the
layout: direct to indirect, a partly filled indirect block, a second one. Two
files are enough for sharing, since it involves two owners, and for a stale
object, since it caches one. `direct_files` fills the disk within three calls.
In `any_calls` an indirect block holds one pointer and its link, and the data
written contains block numbers and numbers that are none, so that corrupt chains
are reached in a few calls; one file is enough there as a file's blocks come
back in its own chain. Three blocks that are there fill up within two writes, and the
fourth, lost one is then met as a new block, and by corrupt links at once. Blocks that
stay pending add up over calls, so no write begins with more than `MaxPending`; `MaxLen`
bounds the length of the inode a write finds, in the object or on the image. The bitmap has sizes of less than a row, of whole rows,
and of one block more. In `volume` two inodes share a block and two data blocks do not, so that each
rounding of the address functions matters; one image has lost its last block, one all
but its super block, one is longer than `Int32`, so that its size is negative once it is open,
and the sizes of new images are fine, too small for
an inode, and past `Int32` both to a negative and to a smaller size. Transfers begin at the
first place of a block, one before its end, and a whole block before its end, which the code
refuses. The size before the first `open` may be negative. In `cli` a file
of five words takes two chunks and both blocks, so that imports meet a full disk. The
exploration of `volume` ignores the record of the last call (`VIEW`), which no guard reads.
`MaxMounts`, `InitialFiles`, `NewImages`, `CommandLines`, `HostFiles`,
`Payloads`, `Offsets`, `ReadLengths`, `MaxLen`, `MaxPending`, for `volume` also `StaleSizes`, `BlockSizes`,
`Numbers`, `Offsets`, `Data`, `Values` and `RawBlocks`, and, for the bitmap,
`Sizes`, `MaxBlock` and `Offsets` are the bounds on inputs.

*Deadlock* is not checked in the file system runs: no caller is obliged to call,
and a discipline may leave none of its calls possible. It is checked for the bitmap and
for `volume`, and not for `cli`, where the user may stop.

*Fairness.* `FairSpec` assumes weak fairness of `Step`, a step of the call that
runs. The program is sequential and waits for nobody, so a call that has begun
goes on. Calls and crashes are not fair. `CallsEnd` therefore says that the
loops over chains, pending blocks and inodes terminate, whatever the image holds.
`CliSpec` assumes the same of `FileSystemStep \/ EventStep`: the process runs until it
ends or waits at a prompt. Command lines, answers and `Kill` are not fair, so
`CommandsEnd` says that a command ends or waits for an answer.

### The disciplines

The code keeps the properties of `Ownership` only when its callers stay away
from certain calls. The disciplines say from which.

| Discipline | Keeps away from | What happens otherwise |
|---|---|---|
| `EditStaysInside` | an edit that spans blocks and ends in the last one | `edit_to_end` |
| `AppendFillsTail`; in `Cli`, `Appends` | an append shorter than the free part of the last block; the import of one | `short_append` |
| `ReadHasBlock` | a read at the end of a file that fills its blocks | it throws: the block at the offset is looked up even if nothing is to be read |
| `DirectOnly` | (in `direct_files`) files with indirect blocks | the next four |
| `LastPtrUnused` | filling an indirect block to its last pointer | `full_chain` |
| `RoomForAll` | a write for which the disk has no room | `disk_full` |
| `ListsFresh` | a first indirect block while the object holds another file's list | `stale_list` |
| `ShortChainsRemoved` | removing a file of several indirect blocks | `remove_long_file` |

`Careful` of `Volume` is the discipline below: no format under a mounted file system,
no more unmounts than mounts, a mount with the block size of the format, an open
that has not thrown, a new open after a transfer outside the image, and an image created
only before a `Disk` opens it, as the commands and the tests do (`Disk::create` is static:
it truncates the path whoever has it open). Without any
one of these parts `volume` fails: a cache or bitmaps of the old layout, a count that
reaches zero under a living `Block`, blocks at the wrong offsets, writes into a
stream that has failed, an image cut under a file system. One part is a limit of the model
and not of the callers: an image whose length an `int32_t` cannot hold may be opened, with the
size `open` makes of it (`disk.cpp:29`), and read past the file system, but its format and
mount are not modelled.

The disciplines of the file system are for images that have all their blocks (`WholeImage`).

`direct_files` assumes the first four, `chained_files` all but `DirectOnly`.
`NoLeak` is left out of `chained_files`: `scan_blocks` loads free inodes as well,
and their chain, left in the object, is marked used on behalf of the next inode
that has none; the block stays lost until the next mount.

## 4. Findings

Each is the counterexample of one run, in which a single part of a discipline is
dropped.

- `edit_to_end` (`file_system.cpp:130`): `edit_data` counts the blocks of the
  whole edit, the first included, and looks up one pointer for each after the
  first. An edit that ends in the last block looks up one that does not exist and
  throws, after its data has been written.
- `short_append` (`file_system.cpp:176`): the free part of the last block is
  filled whatever the length of the data, and the file grows by all of it. Seen from
  the command line: a file appended to another one (`-w` with `-n`) brings along what
  lies behind it in the event's buffer, and the command reports success. With a block size that
  does not divide the chunk of 4096 bytes the same happens within one import.
- `full_chain` (`indirect_inode.cpp:118`): the link of every full indirect block
  is followed, also of the last one, whose link was never written. The next
  commit puts its pointers into whatever block that word names.
- `stale_list` (`indirect_inode.cpp:97`): `load` of an inode without indirect
  block keeps the lists of the inode before. When the file outgrows its direct
  pointers, its pointers go to the other file's indirect block.
- `disk_full` (`file_system.cpp:198`): the length is raised before it is known
  whether there is a block for the pointers; without one the file is longer than
  its pointers.
- `remove_long_file` (`file_system.cpp:332`, `:70`): `mount` and `format` follow
  the chains of free inodes, whose blocks may hold other data by then.

Seen on the way, without a run of their own: a read at the end of a file
that fills its blocks throws (`file_system.cpp:231`); a mount marks the chain of
a removed file used (`file_system.cpp:332`); `next_free` from an offset other
than 0, which the program never uses, may return a used block or none at all
(`block_bitmap.cpp:109`); `rename_file` and `create_file` disagree on the longest
name (`file_system.cpp:297`). Below the calls: a mount that throws leaves one or two mounts
behind (`file_system.cpp:9`, `:19`), and `unmount` (`:47`) does not free the disk as long as the
object lives, as its `Block` has it mounted too; a disk of ten blocks or fewer is
formatted without inodes and cannot be mounted (`:55`); the block size of the super block
is never compared with that of the `Disk` (`:37`), nor its number of blocks with the
image; after a transfer outside the image (`disk.cpp:69`) reads return old bytes and
writes are lost, both without an error; `create` may wrap around to a smaller or to no
size (`disk.cpp:38`); an offset of minus a whole block names the block's first place and
is refused all the same (`block.cpp:37`, `:68`); a read that fails half-way through a block, on an image
cut there, leaves part of the new block in the cache under the number of the old one
(`block.cpp:23`), which `ImageAssumption` excludes: images lose whole blocks. In the commands: removing or renaming a file that is not
there, and an import onto a full disk, report success (`events.cpp:247`, `:261`, `:158`);
`-c` truncates the image before it tests the block size (`:290`).

## 5. What is proved

`FileSystem_proofs` shows of `Spec`, for every number of inodes
and blocks, every block size of at least two words, every number of direct
pointers, every set of inputs, and with or without the last block of the image:

- `TypeCorrect`: `TypeOK`. On any image, also a corrupt one, the bitmaps mark
  no block outside the disk, and whatever is committed is an inode.
- `PendingAfterCutOnly`: `NothingPending`. However a call ends, it leaves blocks to be
  committed to the next file only if one of them is a lost block.
- `WholeImagesLeaveNothing`: on an image that has all its blocks none is ever left.
- `CountersStayInRange`: `LocalsInRange`. `edit_data` never goes past the data or the
  window it may edit, and no call past the inodes. The list of pointers is not in it:
  `commit` does index it past its end, after a `disk_full` write.

*Assumptions:* `LayoutAssumption` (there is an inode, a data block, a direct
pointer; a block holds a pointer and a link; words include the block numbers and
Null; at most the last block is lost) and `InputAssumption` (inputs are sequences of
words and natural numbers). TLC evaluates both in the runs. No discipline is assumed:
the theorems hold of every sequence of calls. `MaxLen` and `MaxPending` are bounds, but any
natural numbers (`MaxPending` not 0).

*Argument.* None of them is inductive alone. `TypeOK` needs to know that the
locals index inside the sequences (a counter that is a difference stays natural)
and that `loaded_inode_n` is a number when the inode is written back; both
come from `LocalsInRange` and `NumberLoaded`. The latter says that a step that uses the
object finds it under the number of its call (and no more: what lies under the
number is the matter of `CallsHoldTheirInode`); it needs that a load which
is under way knows its inode and continues at a label after a load.
`NothingPending` needs the labels at which blocks may be pending. So the
inductive invariant is their conjunction, `Inv`. `InitInv` shows it
initially, one lemma per action shows that the action preserves it, `NextInv`
combines them, `SpecInv` adds the temporal step, and the theorems are
projections of it.

`Volume_proofs` shows of `Volume`, for every set of images, block sizes, sizes of new
images and transfers, and without a bound on the image or on the number of inodes:

- `MountsAreAccounted`: `MountsAccounted`, however mounts fail.
- `ImageIsKept`: `ImageKept`. The image that is open under a `FileSystem` is neither
  exchanged nor resized.
- `AddressesApart`: on a disk divided as `format` divides it, of any size, no two inodes
  or data blocks have the same place, none is on the super block and none off the disk;
  the lemma `FormatDivides` shows that `format` does divide it so.

*Assumptions:* `DiskAssumption` and `VolumeAssumption`, evaluated in `volume`, and
the discipline `Careful` (only its parts on `unmount` and `create` are used).

*Argument.* `MountInv` adds to the count that a `FileSystem` has a `Disk`, so that a
new `Disk` may start from zero, and that one that is gone has no mounts to undo.
`SizeInv` says that `disk_img_size` is the length of the open image as an `int32_t`. A living object
then has `mounted > 0`, so `open` refuses, and what changes the image at all changes it
in place (`StoredImage`, `Overwritten`).

`BlockBitmap_proofs` shows of `BlockBitmap`, for rows of any length and maps of any size:

- `BitmapTypeCorrect`: `BitmapTypeOK`.
- `PaddingIsKept`: `PaddingStaysSet`. The bits behind the map stay set, so that a search
  which compares whole rows does not end in them.
- `BitmapIsASet`: `ImplementsSet`. Every call is the call of the set of blocks, `next_free`
  with its lowest free block included. The mapping of a bit to its row and position is
  the lemma the steps rest on.

`DirectFiles_proofs` shows of `DirectSpec`, for any number of inodes, blocks and direct
pointers, any inputs, and a crash at every step:

- `DirectFilesTracked`: `DirectInv`, the inductive invariant below.
- `DirectFilesApart`: `NoSharing`, in every state, so after every crash.
- `DirectBitmapsSafe`, `DirectNoLeak`, `DirectObjectCoherent`: `BitmapsSafe`, `NoLeak` and
  `ObjectCoherent`, between calls.
- `DirectShortWrites`: `ShortWriteMeansFull`.
- `CallsUseTheirInode`: `CallsHoldTheirInode`. At every step of every call that uses the
  object, it is the inode of the call as it is on the image, content and number.

*Assumptions:* `LayoutAssumption`, `InputAssumption`, `WholeImage`, and the discipline of `DirectSpec`.

*Argument.* Between calls the bitmaps are those of the image; inside a call they are not,
and `NoSharing` depends on how far they are off. `DirectInv` says how far: `MarkedSlots` are
the pointers whose blocks are marked already (a mount) or still (a removal, whose inode is
written as free before its blocks are cleared: `Releasing`, `Holders`), and `Fresh` are the
blocks a write has taken and no inode names yet. `BlocksTracked` equates the bitmap
with these two, `PtrsApart` and `FreshApart` keep them disjoint, so that a block that is free
in the bitmap is nobody's. `ObjectTracks` and `BufferTracks` say what the inode and its
copy have to do with the inode on the image until the copy is written; `WriteTracks` has the
arithmetic: the length grows by what was stored, and a write stops at the end of the data or
for want of a free block. `StepsOfCalls` says which label belongs to which call. `DirectInv`
is inductive together with `Inv`, with one lemma per action, and `direct_files` checks it.

`Store_proofs` shows of `DirectSpec`, for any number of inodes, blocks and direct pointers, any
inputs, and a crash at every step:

- `DirectFilesImplementStore`: `ImplementsStore`, the promise of the whole file system. Each step
  of each call is a step of the request of `FileStore`, or changes nothing that its callers or a
  later mount can see.
- `DirectWordsTracked`: `WordsTracked`, the inductive invariant below.

*Assumptions:* those of `DirectFiles_proofs`.

*Argument.* A write spreads its words over old and new blocks and makes them part of the file by
one write of the inode, possibly many steps later; `FileStore` appends them at once. So it must be
known at the write of the inode that they are all in place. `WordsTracked` says so step by step:
`FileBlock` is block j of the file as it will be, taken from the inode, the pending pointers or the
copy about to be written; `EditedWords` and `AppendedWords` place each word of the data done so far in
these blocks. They need `EditAligned`, as behind its first block an edit goes on at the start of a block, and
`FreshApart` of `DirectInv`, as a new block must not be one that holds words already. `LookupsInside`
says that the pointers still to be looked up exist, so that no call throws: this is what
`EditStaysInside` and `ReadHasBlock` of the discipline come to in the middle of a call.
`RepliesPending` ties the reply to the end of the call, `FormattedSoFar` a format to the inodes it has
freed. That the files of other inodes stay is `PtrsApart`: a step changes the words of the inode
whose block it writes. `WordsOfOthers`, `OneFileChanges` and `Unseen` are the lemmas that turn this
into steps and stutters of `FileStore`; one lemma per action shows both that `WordsTracked` is
kept and which of the two the action is, and the longest are `WriteTailKept`, `StoreBlocksKept` and
`WritebackWriteKept`.

`Volume_proofs` also shows, for every set of images, block sizes and transfers:

- `VolumeTypeCorrect`: `VolumeTypeOK`. The size a `Disk` keeps is one an `int32_t` holds, however
  long the image, because `open` narrows it.
- `SuperBlockStays`: `SuperBlockKept`. A file system that is ready goes by the super block
  on the image, and no transfer writes over it.
- `CacheIsTheDisk`: `CacheCoherent`, through refused calls, reads of blocks that are missing as a
  whole, second mounts, formats and other images.

*Assumptions:* `DiskAssumption`, `VolumeAssumption`, `ImageAssumption` (an image with the seal was
formatted by this program and has lost whole blocks at most: one cut inside a block spoils the
cache, section 4) and the discipline `Careful`.

*Argument.* The cache is coherent because a write goes to the disk before the next read, at the
place the cache remembers. That needs the offset not to wrap around, hence `n_blocks * block_size <
Int32` for what a super block claims; it needs `MB` to be the super block on the
image, hence that no inode or data block lies on block 0 and that a mount that throws leaves
no file system ready; and it needs a read to fail as a whole or not at all, hence the whole blocks.
`VolumeInv` is the conjunction: `MountInv`, `SizeInv`, `ImageInv` (the super block and `SoundImage`
for the open image, the size in the range of `int32_t`) and `CacheInv`, which has the length of a
mounted image below `Int32`.

`Device_proofs` shows the refinement:

- `VolumeIsADevice`: `ImplementsDevice`. Each step of `Volume` is a read, a write, a refusal
  or a format of `BlockDevice`, or leaves its places as they are.

*Argument.* From `VolumeInv`. The places of a formatted image are apart, and each lies at one
fragment behind the super block; a transfer that the address functions accept lies at the
consecutive places of its inode or block; a read through a coherent cache returns them, and a
write changes them and no other. `FormatDevice` is the longest part: the fragments that `format`
resets are exactly the inodes of the new layout, and if the new layout has the places of
the old one, both have the same geometry and the data has stayed.

`Cli_proofs` shows of `CliSpec`, for every set of command lines and files of the host, any number of
inodes and blocks, any sizes of block and chunk, and a process killed at any step of an event:

- `CliTypesKept`: `CliTypeOK`.
- `ImportsAppendPrefix`: `ImportIsPrefix`. However an import ends, its file has the words of before
  and then a first part of the file of the host.
- `ImportsAreWhole`: `ImportIsWhole`. Success means that all of it is there, or that the disk is full.
- `CommandsReportTruly`: `ReportsAreTrue`, of exports, lists, statistics and removals.
- `CommandsAreCareful`: `CallsAreCareful`. The commands are callers of the kind `DirectSpec` assumes.
- `OnlyWritersWrite`: `ReadersOnlyRead`.
- `CommandsKeepFiles`: `NoSharing`, `BitmapsSafe`, `NoLeak` and `ObjectCoherent` hold of the program as a
  whole, not only of `DirectSpec`.
- `CommandsTracked`: `CommandInv`, the inductive invariant below.

*Assumptions:* `LayoutAssumption`, `InputAssumption`, `CliAssumption` (chunks are not empty, files of the
host are words, `-n` has a number), `SizeAssumption` (blocks divide the chunk, files stay on direct
pointers), and that the user appends as `Appends` says. TLC evaluates the four in `cli`.

*Argument.* The inductive invariant is `Working`: `DirectInv` and `WordsTracked` for the calls, and
`CommandInv` for the events. The two need each other: a command knows what its call has done only
because a call is one request of `FileStore`, which is so only while calls are careful; and that its next
call is careful (an export reads no block behind the last one, a chunk does not follow a block left half
full) is known only from what the command has done so far. So each action of an event is shown to call
carefully from `CommandInv` (`StepsCareful`), each step of a careful call to be a step or a
stutter of `FileStore` (`StepServes`, from `Store_proofs`), and `CommandInv` to be kept by
steps of the call (`CallWorks`), of events (`EventWorks`), of the user and by `Kill`. In `CommandInv`,
`StoredSoFar` relates the file to `Handed`, the words given to `write` before the running call; a
short chunk is possible only when `Full`, after which the later chunks add nothing, so that what is there
stays a prefix even though the event goes on. `TailFits` and the multiple of the chunk in `ImportTracked` keep
the appends aligned. `ChunkWritten` carries the short count through the last steps of a write, between
the inode and the reply. `Listed` counts the inodes a list has passed. `ParsedSoFar` and `TakenBack`
follow the options one by one, and are why a command line that begins as a harmless one stays one.
The words of a file are sequences joined and cut again; `JoinsAssociate`, `PartOfPart`
and `MoreStored` are the facts about them, and `RestOfBlock`, `ChunkIs` and `ChunkKeepsRest` those on chunks and
blocks.

*Only model-checked:* liveness (`CallsEnd`, `CommandsEnd`), which needs fairness, and the properties of
`chained_files`, `ImplementsStore` and `ListCoversFile` among them, where the chain of an inode is
found by walking it.

## 6. What is not modelled, and the plan

Left out:

- `Logger` and `Timer`, which no other source file uses; what the commands print, and
  the help text.
- *Names* beyond the test of their length. A name that `rename_file` accepts is taken
  to fit its field, which the code does not make sure of.
- *The checksum* beyond that a super block has the right one: an image is either
  sealed or not.
- *Several images*, and a wrong block size in the commands; `Volume` has both.
- *The host*: images are truncated by whole blocks, in `Volume` by one or down to the super block,
  between two opens only, in `FileSystem` by the last one before anything is called; files of the host can be read once opened; an option has its argument.
- *The buffer of the stream*: a process that is killed may lose its last
  write, which is the same as being killed before it. `-b 0`, with which the program
  divides by zero, is not given.
- *The unit tests*, except for what they state (section 4).

Plan for what comes next: the chained files, for which `DirectInv` and `WordsTracked` need the
chain of the object to be the chain of the image; with them `SizeAssumption` need no longer keep the
commands to direct pointers. What the inode object may hold under its number after a load that has
failed (`inode.cpp:50`), as an invariant of its own: no property covers it now. What `format` makes of
an image that has been cut.
