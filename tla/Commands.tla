------------------------------ MODULE Commands ------------------------------
(***************************************************************************)
(* Why the commands of Cli do what they report: what is true at every step *)
(* of an event, also while its call of FileSystem runs, of the event's     *)
(* variables, of the request it has made, and of the files on the image.   *)
(***************************************************************************)
EXTENDS Cli, DirectFiles

(* The calls that an event may be waiting for, by where it goes on.        *)
CallsOf == [mounted |-> {"mount"}, exists |-> {"length"}, import |-> {"write"},
            list |-> {}, named |-> {"name"}, sized |-> {"length"},
            export_size |-> {"length"}, export |-> {"name"}, exported |-> {"read"},
            last |-> {"remove", "rename"}, formatting |-> {"format"}]

(* There is an object only while an event works with it, a call only while *)
(* the event waits for it, and a report only when the event is over.  An   *)
(* object that is gone, or formats, has no inode loaded.                   *)
StepsOfEvents ==
  /\ step \in Calls => call.op \in CallsOf[step] \cup {"none"}
  /\ step \notin Calls => call.op = "none"
  /\ step \notin Calls \cup {"ask"} => pc = "off"
  /\ step = "ask" => pc = "idle"
  /\ pc \in {"off", "format"} => loaded_inode_n = Null
  /\ report # "none" => step = "none"
  /\ step \in {"open", "mounted", "confirm", "create", "format", "formatting"} =>
       local = NoLocal
  /\ step = "parse" => local = [NoLocal EXCEPT !.n = local.n] /\ local.n <= Len(line)

ActionsOf == [list |-> {"DISPLAY_STATS", "DISPLAY_FILES"},
              named |-> {"DISPLAY_STATS", "DISPLAY_FILES"},
              sized |-> {"DISPLAY_STATS", "DISPLAY_FILES"},
              exists |-> {"WRITE_DATA"}, ask |-> {"WRITE_DATA"},
              import |-> {"WRITE_DATA"},
              export_size |-> {"READ_DATA"}, export |-> {"READ_DATA"},
              exported |-> {"READ_DATA"},
              last |-> {"DELETE_FILE", "RENAME_FILE"},
              confirm |-> {"FORMAT_DISK"}, create |-> {"CREATE_DISK"},
              format |-> {"FORMAT_DISK", "CREATE_DISK"},
              formatting |-> {"FORMAT_DISK", "CREATE_DISK"}]

EventsOfActions == step \in DOMAIN ActionsOf => cmd.action_type \in ActionsOf[step]

(* What the parser has made of the options so far: an action is that of an *)
(* option before which every other one was taken back by an unknown one.   *)
NParsed == IF step = "parse" THEN local.n ELSE Len(line)

TakenBack(k) ==
  \A j \in 1 .. k : Letter(j) \in DOMAIN Actions =>
    \E m \in Unknown : j < m /\ m <= k

ParsedSoFar ==
  /\ DOMAIN cmd = DOMAIN NotSeen
  /\ cmd.file_inode \in Int
  /\ \/ /\ cmd.action_type = "INVALID_PARSING"
        /\ step \in {"parse", "none"}
        /\ TakenBack(NParsed)
     \/ \E k \in 1 .. NParsed : /\ Letter(k) \in DOMAIN Actions
                                /\ cmd.action_type = Actions[Letter(k)]
                                /\ TakenBack(k - 1)

-----------------------------------------------------------------------------
(* An import: before the running call, Handed words were given to write(). *)
(* They are in the file, unless the disk was full; then the last block of  *)
(* the file is full too, and what is written since adds nothing.           *)
Handed == IF call.op = "write" THEN local.n - Len(call.data) ELSE local.n

Full == /\ FreeBlocks = {}
        /\ inodes[local.inode_n].file_len % BlockSize = 0
        /\ call.op = "write" => call.n_written = 0

TailFits ==
  LET used == inodes[local.inode_n].file_len % BlockSize
  IN  used = 0 \/ BlockSize - used <= LastChunk

StoredSoFar ==
  Importing =>
    \E k \in 0 .. Len(local.host) :
      /\ FileWords(local.inode_n) = local.before \o SubSeq(local.host, 1, k)
      /\ step \in {"exists", "ask"} => k = 0
      /\ step = "import" => k = Handed \/ (k < Handed /\ Full)

ChunkWritten ==
  call.op = "write" =>
    /\ call.inode_n = local.inode_n /\ call.offset = 0 /\ call.n_edited = 0
    /\ Len(call.data) <= local.n
    /\ call.data = SubSeq(local.host, local.n - Len(call.data) + 1, local.n)
    /\ Len(call.data) = ChunkSize \/ local.n = Len(local.host)
    /\ pc # "edit_rest"
    /\ pc \in {"commit", "writeback"} =>
         \/ call.n_written = Len(call.data)
         \/ (inode.file_len + call.n_written) % BlockSize = 0

ImportTracked ==
  /\ step \in {"exists", "ask"} => local.n = 0
  /\ step = "exists" /\ call.op = "length" => call.inode_n = local.inode_n
  /\ step = "exists" /\ call.op = "none" /\ result.how # "ok" => ~Importing
  /\ step = "import" =>
       /\ local.n <= Len(local.host)
       /\ local.n = Len(local.host) \/ local.n % ChunkSize = 0
       /\ Importing /\ local.n < Len(local.host) => TailFits
       /\ ChunkWritten
  /\ StoredSoFar

-----------------------------------------------------------------------------
(* An export has got the first words of its file, a list the used inodes   *)
(* before the next one, and a removal that has ended has removed its file. *)
ExportTracked ==
  LET f == cmd.file_inode
  IN  /\ step = "export_size" =>
           /\ local = NoLocal
           /\ call.op = "length" => call.inode_n = f
           /\ call.op = "none" /\ result.how = "ok" =>
                f \in UsedInodes /\ result.n = inodes[f].file_len
      /\ step \in {"export", "exported"} =>
           /\ f \in UsedInodes
           /\ local.size = inodes[f].file_len /\ local.n <= local.size
           /\ Len(local.out) <= local.n
           /\ local.out = SubSeq(FileWords(f), 1, Len(local.out))
      /\ step = "export" => Len(local.out) = local.n
      /\ step = "exported" =>
           /\ call.op = "read" => /\ call.inode_n = f
                                  /\ call.offset = Len(local.out)
                                  /\ call.length = local.n - Len(local.out)
           /\ call.op = "none" /\ result.how = "ok" =>
                result.data = SubSeq(FileWords(f), Len(local.out) + 1, local.n)

Listed(n) ==
  /\ local.out \in Seq(InodeNs \X Nat)
  /\ Len(local.out) = Cardinality({m \in UsedInodes : m < n})
  /\ \A m \in UsedInodes : m < n =>
       \E k \in DOMAIN local.out : local.out[k] = <<m, inodes[m].file_len>>

ListTracked ==
  step \in {"list", "named", "sized"} =>
    /\ cmd.action_type = "DISPLAY_STATS" => cmd.file_inode # -1
    /\ cmd.action_type = "DISPLAY_FILES" =>
         /\ local.size = NInodes /\ local.n <= NInodes
         /\ Listed(local.n)
         /\ step \in {"named", "sized"} => local.n \in UsedInodes
         /\ step = "sized" =>
              /\ call.op = "length" => call.inode_n = local.n
              /\ call.op = "none" => result.n = inodes[local.n].file_len

RemoveTracked ==
  step = "last" /\ cmd.action_type = "DELETE_FILE" =>
    /\ call.op # "none" => call.op = "remove" /\ call.inode_n = cmd.file_inode
    /\ call.op = "none" /\ result.how # "threw" => cmd.file_inode \notin UsedInodes

CommandInv ==
  /\ CliTypeOK /\ StepsOfEvents /\ EventsOfActions /\ ParsedSoFar
  /\ ImportTracked /\ ExportTracked /\ ListTracked /\ RemoveTracked
  /\ ImportIsWhole /\ ReportsAreTrue
=============================================================================
