-------------------------------- MODULE Cli ---------------------------------
(***************************************************************************)
(* The program as its user sees it: main() parses a command line and runs  *)
(* one event, in a process of its own that opens the image, mounts it,     *)
(* makes calls of FileSystem one after another and ends.  The process may  *)
(* be killed between any two steps (Kill).                                 *)
(*                                                                         *)
(* The image is always of the size of the constants: the commands that     *)
(* create one give that size or none.                                      *)
(***************************************************************************)
EXTENDS Ownership, OptParser

CONSTANTS
  CommandLines,   \* the command lines a user may give
  HostFiles,      \* the contents of the files of the host, by name
  LongNames,      \* the names that rename_file does not take
  ChunkSize,      \* chunk_size, in words
  DiskBlock,      \* the -b argument that fits the image
  DiskBlocks      \* the -s argument that fits the image

(* Words come in chunks, files from the host; -n has a number (atoi).      *)
ASSUME CliAssumption ==
  /\ ChunkSize \in Nat \ {0}
  /\ DiskBlock # -1 /\ DiskBlocks # -1
  /\ \A f \in DOMAIN HostFiles : HostFiles[f] \in Seq(Words)
  /\ \A l \in CommandLines :
       /\ l \in Seq({l[k] : k \in DOMAIN l})
       /\ \A k \in DOMAIN l : l[k][1] = "n" => l[k][2] \in Int

(* The commands are modelled for block sizes that divide the chunk, and    *)
(* for files on direct pointers.                                           *)
ASSUME SizeAssumption ==
  /\ ChunkSize % BlockSize = 0
  /\ BytesToBlocks(MaxLen) <= NDirect

VARIABLES
  disk,     \* the image file: "missing", "unusable", "blank" or "formatted"
  line,     \* the command line of the process, or of the last one
  cmd,      \* what the parser has made of it: action_type and parsed_args
  step,     \* where its event is; "none" when there is no process
  local,    \* the event's variables
  report    \* what it has told the user in the end

cliVars == <<disk, line, cmd, step, local, report>>
allVars == <<vars, cliVars>>

(* inode_n is write_inode_n, host what is in the file of the host, n the   *)
(* words or inodes done so far, size what there is to do, out what the     *)
(* user gets.  before is for the properties: the file before an import.    *)
NoLocal == [inode_n |-> Null, host |-> <<>>, n |-> 0, size |-> 0,
            out |-> <<>>, before |-> <<>>]

CliInit ==
  /\ Init
  /\ disk = "missing" /\ line = <<>> /\ cmd = NotSeen /\ step = "none"
  /\ local = NoLocal /\ report = "none"

-----------------------------------------------------------------------------
(* The end of the process: its objects go, the image stays.                *)
ObjectsStay == UNCHANGED vars                                   \* mutant
EndProcess  == Crash \/ (pc = "off" /\ UNCHANGED vars)

Finish(r) ==
  /\ EndProcess
  /\ step' = "none" /\ report' = r
  /\ UNCHANGED <<disk, line, cmd, local>>

Goto(s) == step' = s /\ UNCHANGED <<disk, line, cmd, report>>

(* main() parses the command line, whose options come one by one; local.n *)
(* counts them.                                                            *)
Launch(l) ==
  /\ step = "none"
  /\ line' = l /\ cmd' = NotSeen /\ local' = NoLocal
  /\ step' = "parse" /\ report' = "none"
  /\ UNCHANGED <<vars, disk>>

Parse ==
  /\ step = "parse" /\ local.n < Len(line)
  /\ cmd' = ParseOption(cmd, line[local.n + 1])
  /\ local' = [local EXCEPT !.n = @ + 1]
  /\ UNCHANGED <<vars, disk, line, step, report>>

(* With no action, or when the parsing failed, the help is shown.          *)
FirstSteps == [DISPLAY_STATS |-> "open", DISPLAY_FILES |-> "open",
               WRITE_DATA |-> "open", READ_DATA |-> "open",
               DELETE_FILE |-> "open", RENAME_FILE |-> "open",
               FORMAT_DISK |-> "confirm", CREATE_DISK |-> "create"]

StartEvent ==
  /\ step = "parse" /\ local.n = Len(line)
  /\ \/ cmd.action_type \notin DOMAIN FirstSteps /\ Finish("help")
     \/ /\ cmd.action_type \in DOMAIN FirstSteps
        /\ Goto(FirstSteps[cmd.action_type])
        /\ local' = NoLocal
        /\ UNCHANGED vars

(* What the events begin with: Disk takes the block size, opens the image, *)
(* and FileSystem mounts it.  Without a super block mount throws.          *)
OpenDisk ==
  /\ step = "open"
  /\ \/ /\ cmd.block_size = DiskBlock /\ disk = "formatted"
        /\ MountCall
        /\ Goto("mounted") /\ UNCHANGED local
     \/ /\ cmd.block_size # DiskBlock \/ disk # "formatted"
        /\ Finish("error")

(* A call that throws ends the event, also the mount.                      *)
Calls == {"mounted", "exists", "import", "named", "sized", "list",
          "export", "exported", "export_size", "last", "formatting"}

CallThrew ==
  /\ step \in Calls /\ pc \in {"off", "idle"} /\ result.how = "threw"
  /\ Finish("error")

Ready(s) == step = s /\ pc = "idle" /\ result.how # "threw"

(* For an inode number outside the bitmap BlockBitmap::get_status throws,   *)
(* in the event itself or in the call it makes.                            *)
BadInode(n) == n \notin InodeNs /\ Answer(Threw) /\ UNCHANGED cliVars

-----------------------------------------------------------------------------
(* event_display_stats and event_display_files.                            *)
Stats ==
  /\ Ready("mounted") /\ cmd.action_type = "DISPLAY_STATS"
  /\ \/ /\ cmd.file_inode = -1
        /\ EndProcess
        /\ step' = "none" /\ report' = "done"
        /\ local' = [local EXCEPT !.out = <<Cardinality(inode_bitmap),
                                            Cardinality(data_bitmap)>>]
        /\ UNCHANGED <<disk, line, cmd>>
     \/ cmd.file_inode # -1 /\ BadInode(cmd.file_inode)
     \/ cmd.file_inode \in InodeNs \ inode_bitmap /\ Finish("done")
     \/ /\ cmd.file_inode \in inode_bitmap
        /\ LookupCall("name", cmd.file_inode)
        /\ Goto("named")
        /\ local' = [local EXCEPT !.n = cmd.file_inode, !.size = cmd.file_inode + 1]

Files ==
  /\ Ready("mounted") /\ cmd.action_type = "DISPLAY_FILES"
  /\ Goto("list")
  /\ local' = [local EXCEPT !.size = NInodes]
  /\ UNCHANGED vars

SameInode == local.n                                            \* mutant
NextInode == local.n + 1

ListNext ==
  /\ Ready("list")
  /\ \/ local.n = local.size /\ Finish("done")
     \/ /\ local.n < local.size /\ local.n \notin inode_bitmap
        /\ Goto("list")
        /\ local' = [local EXCEPT !.n = NextInode]
        /\ UNCHANGED vars
     \/ /\ local.n < local.size /\ local.n \in inode_bitmap
        /\ LookupCall("name", local.n)
        /\ Goto("named") /\ UNCHANGED local

ListName ==
  /\ Ready("named")
  /\ LookupCall("length", local.n)
  /\ Goto("sized") /\ UNCHANGED local

ListLength ==
  /\ Ready("sized")
  /\ Goto("list")
  /\ local' = [local EXCEPT !.out = Append(@, <<local.n, result.n>>), !.n = @ + 1]
  /\ UNCHANGED vars

-----------------------------------------------------------------------------
(* event_write_data: the file of the host is opened first.  A new file is  *)
(* created; to append to one that is there, the user has to agree.         *)
ImportOpen ==
  LET opened == [local EXCEPT
                   !.inode_n = cmd.file_inode,
                   !.host = HostFiles[cmd.in_file_name],
                   !.before = IF cmd.file_inode \in UsedInodes
                              THEN FileWords(cmd.file_inode) ELSE <<>>]
  IN  /\ Ready("mounted") /\ cmd.action_type = "WRITE_DATA"
      /\ \/ cmd.in_file_name \notin DOMAIN HostFiles /\ Finish("error")
         \/ /\ cmd.in_file_name \in DOMAIN HostFiles
            /\ \/ cmd.file_inode # -1 /\ BadInode(cmd.file_inode)
               \/ /\ cmd.file_inode = -1
                  /\ CreateFile(FALSE)
                  /\ Goto("import")
                  /\ local' = [opened EXCEPT !.inode_n = result'.n]
               \/ /\ cmd.file_inode \in InodeNs
                  /\ LookupCall("length", cmd.file_inode)
                  /\ Goto("exists") /\ local' = opened

ImportExists ==
  /\ Ready("exists")
  /\ IF result.how = "ok" THEN Goto("ask") ELSE Goto("import")
  /\ UNCHANGED <<vars, local>>

ImportAnswer(yes) ==
  /\ step = "ask"
  /\ \/ yes /\ Goto("import") /\ UNCHANGED <<vars, local>>
     \/ ~yes /\ Finish("declined")

(* Chunk by chunk the file is appended; that a chunk is written short is   *)
(* not noticed, only that write() has returned -1.                         *)
FromStart  == 0                                                 \* mutant
ReadFrom   == local.n
SmallChunk == Smaller(ChunkSize - 1, Len(local.host) - local.n)  \* mutant
NextChunk  == Smaller(ChunkSize, Len(local.host) - local.n)

ImportChunk ==
  LET n == NextChunk
  IN  /\ Ready("import") /\ local.n < Len(local.host)
      /\ \/ BadInode(local.inode_n)
         \/ local.n > 0 /\ result.how = "refused" /\ Finish("error")
         \/ /\ local.inode_n \in InodeNs
            /\ local.n > 0 => result.how = "ok"
            /\ WriteCall(local.inode_n, 0,
                         SubSeq(local.host, ReadFrom + 1, ReadFrom + n))
            /\ Goto("import")
            /\ local' = [local EXCEPT !.n = @ + n]

ImportDone ==
  /\ Ready("import") /\ local.n = Len(local.host)
  /\ \/ local.n > 0 /\ result.how = "refused" /\ Finish("error")
     \/ (local.n > 0 => result.how = "ok") /\ Finish("done")

-----------------------------------------------------------------------------
(* event_read_data.  The file of the host may not be created.              *)
ExportOpen ==
  /\ Ready("mounted") /\ cmd.action_type = "READ_DATA"
  /\ \/ BadInode(cmd.file_inode)
     \/ /\ cmd.file_inode \in InodeNs
        /\ LookupCall("length", cmd.file_inode)
        /\ Goto("export_size") /\ UNCHANGED local

ExportSize ==
  /\ Ready("export_size")
  /\ \/ result.how = "refused" /\ Finish("absent")
     \/ /\ result.how = "ok"
        /\ LookupCall("name", cmd.file_inode)
        /\ Goto("export")
        /\ local' = [local EXCEPT !.size = result.n]

ExportFromEnd == local.size - local.n - 1                       \* mutant
ExportOffset  == local.n

ExportChunk ==
  LET n == Smaller(ChunkSize, local.size - local.n)
  IN  /\ Ready("export")
      /\ \/ local.n = 0 /\ Finish("error")
         \/ local.n = local.size /\ Finish("done")
         \/ /\ local.n < local.size
            /\ ReadCall(cmd.file_inode, ExportOffset, n)
            /\ Goto("exported")
            /\ local' = [local EXCEPT !.n = @ + n]

ExportWrite ==
  /\ Ready("exported")
  /\ \/ result.how = "refused" /\ Finish("error")
     \/ /\ result.how = "ok"
        /\ Goto("export")
        /\ local' = [local EXCEPT !.out = @ \o result.data]
        /\ UNCHANGED vars

-----------------------------------------------------------------------------
(* event_delete_file and event_rename_file report success whatever the     *)
(* call returns.  Without a name, rename_file reads through a null pointer.*)
Delete ==
  /\ Ready("mounted") /\ cmd.action_type = "DELETE_FILE"
  /\ \/ BadInode(cmd.file_inode)
     \/ /\ cmd.file_inode \in InodeNs
        /\ RemoveCall(cmd.file_inode)
        /\ Goto("last") /\ UNCHANGED local

Rename ==
  /\ Ready("mounted") /\ cmd.action_type = "RENAME_FILE"
  /\ \/ BadInode(cmd.file_inode)
     \/ cmd.file_inode \in inode_bitmap /\ cmd.in_file_name = NoName /\ Finish("none")
     \/ /\ cmd.file_inode \in InodeNs
        /\ cmd.file_inode \in inode_bitmap => cmd.in_file_name # NoName
        /\ RenameCall(cmd.file_inode, cmd.in_file_name \in LongNames)
        /\ Goto("last") /\ UNCHANGED local

LastCall == Ready("last") /\ Finish("done")

-----------------------------------------------------------------------------
(* event_format_disk, once the user agrees, and event_create_disk, which   *)
(* truncates the image before anything is tested: without a size, or       *)
(* without a block size, nothing usable is left of it.                     *)
FormatAnswer(yes) ==
  /\ step = "confirm"
  /\ \/ yes /\ Goto("format") /\ UNCHANGED <<vars, local>>
     \/ ~yes /\ Finish("declined")

CreateDisk ==
  /\ step = "create"
  /\ inodes' = [n \in InodeNs |-> ZeroInode]
  /\ blocks' = [b \in DataNs |-> ZeroBlock]
  /\ disk' = IF cmd.block_size = DiskBlock /\ cmd.length = DiskBlocks THEN "blank"
             ELSE "unusable"
  /\ step' = "format"
  /\ UNCHANGED <<bitmaps, object, pc, call, result, line, cmd, local, report>>

(* FileSystem::format writes the super block first.                        *)
FormatDisk ==
  /\ step = "format"
  /\ \/ /\ cmd.block_size = DiskBlock /\ disk \in {"blank", "formatted"}
        /\ FormatCall
        /\ disk' = "formatted" /\ step' = "formatting"
        /\ UNCHANGED <<line, cmd, report, local>>
     \/ /\ cmd.block_size # DiskBlock \/ disk \in {"missing", "unusable"}
        /\ Finish("error")

FormatDone ==
  /\ step = "formatting" /\ pc = "off" /\ result.how = "ok"
  /\ Finish("done")

-----------------------------------------------------------------------------
FileSystemStep == Step /\ UNCHANGED cliVars

(* The process may be killed at any time, also at a prompt; while it parses *)
(* it has done nothing yet.                                                *)
Kill == step \notin {"none", "parse"} /\ Finish("none")

EventStep ==
  \/ Parse \/ StartEvent \/ OpenDisk \/ CallThrew
  \/ Stats \/ Files \/ ListNext \/ ListName \/ ListLength
  \/ ImportOpen \/ ImportExists \/ ImportChunk \/ ImportDone
  \/ ExportOpen \/ ExportSize \/ ExportChunk \/ ExportWrite
  \/ Delete \/ Rename \/ LastCall
  \/ CreateDisk \/ FormatDisk \/ FormatDone

UserStep ==
  \/ \E l \in CommandLines : Launch(l)
  \/ \E yes \in BOOLEAN : ImportAnswer(yes) \/ FormatAnswer(yes)

CliNext == FileSystemStep \/ EventStep \/ UserStep \/ Kill

(* The user appends only what fills the last block of the file up, down to *)
(* its last chunk (see AppendFillsTail).                                   *)
LastChunk == ((Len(local.host) - 1) % ChunkSize) + 1
Appends   ==
  step = "ask" /\ step' = "import" =>
    LET len == inodes[local.inode_n].file_len
    IN  \/ local.host = <<>>
        \/ LastChunk >= BytesToBlocks(len) * BlockSize - len

CliSpec == CliInit /\ [][CliNext /\ Appends]_allVars
               /\ WF_allVars(FileSystemStep \/ EventStep)

(* The same for a user who appends what he likes.                          *)
AnyAppendSpec == CliInit /\ [][CliNext]_allVars

-----------------------------------------------------------------------------
CliTypeOK ==
  /\ disk \in {"missing", "unusable", "blank", "formatted"}
  /\ line \in CommandLines \cup {<<>>}
  /\ step \in Calls \cup {"none", "parse", "open", "ask", "confirm", "create", "format"}
  /\ DOMAIN local = DOMAIN NoLocal
  /\ local.inode_n \in Int /\ local.n \in Nat /\ local.size \in Nat
  /\ local.host \in Seq(Words) /\ local.before \in Seq(Words)
  /\ report \in {"none", "help", "error", "declined", "absent", "done"}
  /\ step = "none" => pc = "off"

(* At every step of an import, and so after it was killed or has failed on *)
(* the way, the file is what it was before, followed by a first part of    *)
(* the file of the host: chunks go in in their order, none twice.          *)
Importing == cmd.action_type = "WRITE_DATA" /\ local.inode_n \in UsedInodes

ImportIsPrefix ==
  Importing =>
    \E k \in 0 .. Len(local.host) :
      FileWords(local.inode_n) = local.before \o SubSeq(local.host, 1, k)

(* An import that reports success has stored the whole file, unless the    *)
(* disk is full (which the event does not notice).                         *)
ImportIsWhole ==
  Importing /\ report = "done" =>
    \/ FileWords(local.inode_n) = local.before \o local.host
    \/ OwnedBlocks = DataNs

(* What the other events report as done is so on the image: the exported   *)
(* words are the file, the list names every file with its length, the      *)
(* numbers of used inodes and blocks are right, a deleted file is gone.    *)
ReportsAreTrue ==
  report = "done" =>
    /\ cmd.action_type = "READ_DATA" =>
         cmd.file_inode \in UsedInodes /\ local.out = FileWords(cmd.file_inode)
    /\ cmd.action_type = "DISPLAY_FILES" =>
         /\ Len(local.out) = Cardinality(UsedInodes)
         /\ \A m \in UsedInodes :
              \E k \in DOMAIN local.out : local.out[k] = <<m, inodes[m].file_len>>
    /\ cmd.action_type = "DISPLAY_STATS" /\ cmd.file_inode = -1 =>
         local.out = <<Cardinality(UsedInodes), Cardinality(OwnedBlocks)>>
    /\ cmd.action_type = "DELETE_FILE" => cmd.file_inode \notin UsedInodes

(* Whatever other options follow, a command line that begins with -h, -r,  *)
(* -x or -l leaves the image as it is, unless an unknown option takes that *)
(* action back.                                                            *)
Letter(k) == line[k][1]
Unknown   == {k \in DOMAIN line : Letter(k) \notin DOMAIN Actions \cup DOMAIN Args}
ReadersOnlyRead ==
  [][image' # image =>
       \E k \in DOMAIN line :
         /\ Letter(k) \in {"w", "d", "q", "f", "c"}
         /\ \A j \in 1 .. k - 1 : Letter(j) \in {"h", "r", "x", "l"} =>
              \E m \in Unknown : j < m /\ m < k]_allVars

(* The events make only calls of FileSystem that the discipline of         *)
(* Ownership allows, so that what DirectSpec guarantees holds for them.    *)
CallsAreCareful == [][Careful /\ DirectOnly]_vars

(* A command ends, or waits for the user's answer.                         *)
Waiting     == step \in {"none", "ask", "confirm"}
CommandsEnd == ~Waiting ~> Waiting
=============================================================================
