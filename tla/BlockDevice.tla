----------------------------- MODULE BlockDevice ----------------------------
(***************************************************************************)
(* What the disk, the block cache and the mounts together promise to the   *)
(* file system above: an array of places, of which a call reads or writes  *)
(* a few next to each other.  The places are <<kind, n, k>>: fragment k of *)
(* inode or data block n.  There is no cache, image or mount count here.   *)
(***************************************************************************)
EXTENDS Integers, Sequences

VARIABLES
  places,   \* what is where
  width,    \* fragments in a data block: offsets below 0 count from its end
  call      \* the last call, with its arguments and how it has ended

From     == IF call'.at >= 0 THEN call'.at ELSE width + call'.at
Place(k) == <<call'.kind, call'.n, k>>

Ended(op, how) == call'.op = op /\ call'.how = how

Read ==
  /\ Ended("read", "ok")
  /\ UNCHANGED <<places, width>>
  /\ \A j \in DOMAIN call'.data :
       /\ Place(From + j - 1) \in DOMAIN places
       /\ call'.data[j] = places[Place(From + j - 1)]

(* A write does not reach past the end of its data block.                  *)
Write ==
  /\ Ended("write", "ok")
  /\ UNCHANGED width
  /\ places' = [p \in DOMAIN places |->
       IF \E j \in DOMAIN call'.data : p = Place(From + j - 1)
       THEN call'.data[p[3] - From + 1] ELSE places[p]]

(* Only a call that begins at a place there is not, or asks for one, is    *)
(* refused; and one that begins a whole block before the end, which is the *)
(* first place of the block all the same.                                  *)
Refuse ==
  /\ call'.op \in {"read", "write"} /\ call'.how = "threw"
  /\ \/ call'.at = -width
     \/ \E j \in {1} \cup DOMAIN call'.data :
          Place(From + j - 1) \notin DOMAIN places
  /\ UNCHANGED <<places, width>>

(* A format clears the inodes and leaves the data where it is, unless the  *)
(* places themselves change with it.                                       *)
Format ==
  /\ Ended("format", "ok") \/ Ended("format", "threw")
  /\ \A p \in DOMAIN places' :
       \/ p[1] = "inode" /\ places'[p] = <<0>>
       \/ p[1] = "data" /\ (DOMAIN places' = DOMAIN places =>
                              places'[p] = places[p])

(* A new image has no places yet; another one has its own.                 *)
Create == call'.op = "create" /\ DOMAIN places' = {}
Open   == call'.op = "open"

Other ==
  /\ call'.op \notin {"read", "write", "format", "create", "open"}
  /\ UNCHANGED <<places, width>>

DeviceNext == Read \/ Write \/ Refuse \/ Format \/ Create \/ Open \/ Other
DeviceSpec == [][DeviceNext]_<<places, width, call>>
=============================================================================
