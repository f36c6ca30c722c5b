----------------------------- MODULE FileStore ------------------------------
(***************************************************************************)
(* What the file system promises its caller: a fixed set of file slots,    *)
(* each absent or holding a sequence of words, and one request at a time.  *)
(* There are no blocks, pointers, bitmaps or caches here.  A request may   *)
(* be cut off by a crash between any two steps, and then the files are     *)
(* what the steps so far have made of them: a write first replaces words   *)
(* within the last offset words of its file, and appends the rest in one   *)
(* step; no request touches another file than its own.                     *)
(***************************************************************************)
EXTENDS Integers, Sequences

CONSTANTS
  Files,    \* the file slots
  Words     \* what a file is made of

VARIABLES
  files,      \* the contents of each slot
  request,    \* the request being served, or "idle", or "off"
  reply       \* how the last request ended

storeVars == <<request, reply, files>>

Absent   == [present |-> FALSE, words |-> <<>>]
File(ws) == [present |-> TRUE, words |-> ws]

NoRequest(op) == [op |-> op, n |-> 0, offset |-> 0, length |-> 0, data |-> <<>>]
OfFiles  == {"write", "read", "remove", "rename", "length", "name"}
Requests == [op : OfFiles \cup {"mount", "format"}, n : Files, offset : Nat,
             length : Nat, data : Seq(Words)]

StoreInit ==
  /\ files = [n \in Files |-> Absent]
  /\ request = NoRequest("off")
  /\ reply = [how |-> "none", n |-> 0, data |-> <<>>]

Replies(how, n, data) == reply' = [how |-> how, n |-> n, data |-> data]
Ends(op)              == request' = NoRequest(op)

(* A request for a file arrives; one for an absent file is refused.        *)
Ask ==
  /\ request.op \in {"idle", "off"}
  /\ request' \in Requests
  /\ IF request'.op \in OfFiles
     THEN request.op = "idle" /\ files[request'.n].present
     ELSE request.op = "idle" => request'.op = "mount"
  /\ Replies("none", 0, <<>>)
  /\ UNCHANGED files

(* A request answered at once: nothing to do, an absent file, a bad name.  *)
AnswerAtOnce ==
  /\ request.op = "idle"
  /\ \/ Replies("ok", 0, <<>>)
     \/ Replies("refused", -1, <<>>)
  /\ UNCHANGED <<request, files>>

Create ==
  /\ request.op = "idle"
  /\ UNCHANGED request
  /\ \E n \in Files :
       /\ Replies("ok", n, <<>>)
       /\ ~files[n].present
       /\ \A m \in Files : m < n => files[m].present
       /\ files' = [files EXCEPT ![n] = File(<<>>)]

-----------------------------------------------------------------------------
(* The file of the request, and the window of it that a write replaces.    *)
Mine     == files[request.n].words
Start    == Len(Mine) - request.offset
NReplace == IF Len(request.data) <= request.offset THEN Len(request.data)
            ELSE request.offset
Replaced == SubSeq(Mine, Start + 1, Start + NReplace) =
              SubSeq(request.data, 1, NReplace)

ReplaceSome ==
  /\ request.op = "write" /\ Start >= 0
  /\ UNCHANGED <<request, reply>>
  /\ \E from \in 1 .. NReplace : \E to \in from .. NReplace :
       files' = [files EXCEPT ![request.n] = File(
                   [k \in 1 .. Len(Mine) |->
                      IF k - Start \in from .. to THEN request.data[k - Start]
                      ELSE Mine[k]])]

WriteReply ==
  /\ request.op = "write" /\ Start >= 0 /\ Replaced
  /\ Ends("idle")
  /\ \E n \in NReplace .. Len(request.data) :
       /\ files' = [files EXCEPT ![request.n] =
                      File(Mine \o SubSeq(request.data, NReplace + 1, n))]
       /\ Replies("ok", n, <<>>)

(* A write or a read that starts outside its file is refused.              *)
RefuseOffset ==
  /\ request.op \in {"write", "read"} /\ request.offset > Len(Mine)
  /\ Ends("idle")
  /\ Replies("refused", -1, <<>>)
  /\ UNCHANGED files

ReadReply ==
  LET n == IF request.offset + request.length <= Len(Mine) THEN request.length
           ELSE Len(Mine) - request.offset
  IN  /\ request.op = "read" /\ request.offset <= Len(Mine)
      /\ Ends("idle")
      /\ Replies("ok", n, SubSeq(Mine, request.offset + 1, request.offset + n))
      /\ UNCHANGED files

LengthReply ==
  /\ request.op = "length"
  /\ Ends("idle")
  /\ Replies("ok", Len(Mine), <<>>)
  /\ UNCHANGED files

RenameReply ==
  /\ request.op \in {"rename", "name"}
  /\ Ends("idle")
  /\ Replies("ok", request.n, <<>>)
  /\ UNCHANGED files

-----------------------------------------------------------------------------
Unlink ==
  /\ request.op = "remove" /\ files[request.n].present
  /\ UNCHANGED <<request, reply>>
  /\ files' = [files EXCEPT ![request.n] = Absent]

RemoveReply ==
  /\ request.op = "remove" /\ ~files[request.n].present
  /\ Ends("idle")
  /\ Replies("ok", request.n, <<>>)
  /\ UNCHANGED files

FormatOne ==
  /\ request.op = "format"
  /\ UNCHANGED <<request, reply>>
  /\ \E n \in Files : files' = [files EXCEPT ![n] = Absent]

FormatReply ==
  /\ request.op = "format" /\ \A n \in Files : ~files[n].present
  /\ Ends("off")
  /\ Replies("ok", 0, <<>>)
  /\ UNCHANGED files

MountReply ==
  /\ request.op = "mount"
  /\ Ends("idle")
  /\ Replies("ok", 0, <<>>)
  /\ UNCHANGED files

Stop ==
  /\ Replies("none", 0, <<>>)
  /\ Ends("off")
  /\ UNCHANGED files

StoreNext ==
  \/ Ask \/ AnswerAtOnce \/ Create
  \/ ReplaceSome \/ WriteReply \/ RefuseOffset
  \/ ReadReply \/ LengthReply \/ RenameReply
  \/ Unlink \/ RemoveReply \/ FormatOne \/ FormatReply \/ MountReply \/ Stop

StoreSpec == StoreInit /\ [][StoreNext]_storeVars
=============================================================================
