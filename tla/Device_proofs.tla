---------------------------- MODULE Device_proofs ---------------------------
(***************************************************************************)
(* Through the offsets, the address functions, the cache and the mounts,   *)
(* Volume is the device of BlockDevice: every step of it is a step of the  *)
(* device or leaves the device as it is.                                   *)
(***************************************************************************)
EXTENDS Volume_proofs

(* What lies behind the inodes of an image lies behind their blocks.       *)
LEMMA BehindInodes ==
  ASSUME NEW size \in Nat \ {0}, NEW N \in Nat, NEW d \in Nat
  PROVE  (1 + N + d) * size \in Nat /\ size + N <= (1 + N + d) * size
  <1>1. PICK e \in Nat : e = N + d /\ N <= e
    OBVIOUS
  <1>2. (1 + e) * size = size + e * size /\ e * size \in Nat
    OBVIOUS
  <1>3. e <= e * size
    BY Z3
  <1>4. 1 + N + d = 1 + e
    BY <1>1
  <1> QED
    BY <1>1, <1>2, <1>3, <1>4

(* The places depend on the image only.                                    *)
LEMMA SameFile ==
  ASSUME UNCHANGED file
  PROVE  UNCHANGED <<Places, Width>>
  BY DEF Places, PlaceSet, AllPlaces, PlaceAt, Width, Formatted, Geometry

(* An image of which the super block stays and the length too keeps its    *)
(* places, whatever becomes of what is in them.                            *)
LEMMA SamePlaces ==
  ASSUME Formatted, Formatted', Geometry' = Geometry,
         Len(file'.data) = Len(file.data)
  PROVE  /\ PlaceSet' = PlaceSet /\ Width' = Width
         /\ Places' = [p \in PlaceSet |-> file'.data[PlaceAt(p)]]
  BY DEF Places, PlaceSet, AllPlaces, PlaceAt, Width

LEMMA PlacesMap ==
  /\ DOMAIN Places = PlaceSet
  /\ \A p \in PlaceSet : Places[p] = file.data[PlaceAt(p)]
  BY DEF Places

(* Where an inode is: side by side with the others from block 1 on.        *)
LEMMA InodePlace ==
  ASSUME VolumeInv, fs.ready, NEW n \in Int, HasInodeN(n)
  PROVE  LET p == <<"inode", n, 0>>
         IN  /\ p \in AllPlaces
             /\ InodeBlockN(n) \in 1 .. MB.n_blocks - 1
             /\ \E at \in Nat, r \in 0 .. MB.block_size - 1 :
                  /\ at = InodeBlockN(n) * MB.block_size /\ r = n % MB.block_size
                  /\ PlaceAt(p) = at + r + 1
  <1>1. /\ Divided(MB) /\ MB = Geometry
    BY Geometric DEF Ready
  <1>2. PICK size \in Nat \ {0}, N \in Nat, D \in Nat :
          /\ size = MB.block_size /\ N = MB.n_inode_blocks
          /\ MB.n_blocks = 1 + N + D
    BY <1>1 DEF Divided
  <1>3. n \in 0 .. N - 1
    BY <1>2 DEF HasInodeN
  <1>4. PICK q \in Nat, r \in 0 .. size - 1 :
          q = n \div size /\ r = n % size /\ n = q * size + r
    BY <1>3, DivMod
  <1>5. q <= n
    BY <1>3, <1>4, ShareOf
  <1>6. InodeBlockN(n) = q + 1
    BY <1>2, <1>4 DEF InodeBlockN, NInodesInBlock
  <1>7. (q + 1) * size = q * size + size /\ q * size \in Nat
    OBVIOUS
  <1>8. PlaceAt(<<"inode", n, 0>>) = size + n + 1
    BY <1>1, <1>2 DEF PlaceAt
  <1>9. <<"inode", n, 0>> \in AllPlaces
    BY <1>1, <1>2, <1>3 DEF AllPlaces
  <1>10. (q + 1) * size + r + 1 = size + n + 1
    BY <1>4, <1>7
  <1>11. q + 1 \in 1 .. MB.n_blocks - 1
    BY <1>2, <1>3, <1>5
  <1>12. PICK m \in Nat : m = (q + 1) * size
    BY <1>7
  <1>13. InodeBlockN(n) * MB.block_size = m /\ n % MB.block_size = r
    BY <1>2, <1>4, <1>6, <1>12
  <1>14. m + r + 1 = size + n + 1
    BY <1>10, <1>12
  <1>15. PlaceAt(<<"inode", n, 0>>) = m + r + 1
    BY <1>8, <1>14
  <1> QED
    BY <1>2, <1>6, <1>9, <1>11, <1>13, <1>15

LEMMA DataPlace ==
  ASSUME VolumeInv, fs.ready, NEW d \in Int, HasDataN(d)
  PROVE  /\ DataBlockN(d) \in 1 .. MB.n_blocks - 1
         /\ \E at \in Nat :
              /\ at = DataBlockN(d) * MB.block_size
              /\ \A k \in 0 .. MB.block_size - 1 :
                   /\ <<"data", d, k>> \in AllPlaces
                   /\ PlaceAt(<<"data", d, k>>) = at + k + 1
  <1>1. /\ Divided(MB) /\ MB = Geometry
    BY Geometric DEF Ready
  <1>2. PICK size \in Nat \ {0}, N \in Nat, D \in Nat :
          /\ size = MB.block_size /\ N = MB.n_inode_blocks /\ D = MB.n_data_blocks
          /\ MB.n_blocks = 1 + N + D
    BY <1>1 DEF Divided
  <1>3. d \in 0 .. D - 1
    BY <1>2 DEF HasDataN
  <1>4. DataBlockN(d) = d + N + 1 /\ d + N + 1 \in 1 .. MB.n_blocks - 1
    BY <1>2, <1>3 DEF DataBlockN
  <1>5. ASSUME NEW k \in 0 .. size - 1
        PROVE  /\ <<"data", d, k>> \in AllPlaces
               /\ PlaceAt(<<"data", d, k>>) = (d + N + 1) * size + k + 1
    <2>1. <<"data", d, k>> \in AllPlaces
      BY <1>1, <1>2, <1>3 DEF AllPlaces
    <2>2. PlaceAt(<<"data", d, k>>) = (1 + N + d) * size + k + 1
      BY <1>1, <1>2 DEF PlaceAt
    <2>3. 1 + N + d = d + N + 1
      BY <1>3
    <2> QED
      BY <2>1, <2>2, <2>3
  <1>6. PICK at \in Nat : at = (d + N + 1) * size
    <2>1. (d + N + 1) * size \in Nat
      BY <1>3
    <2> QED
      BY <2>1
  <1>7. at = DataBlockN(d) * MB.block_size
    BY <1>2, <1>4, <1>6
  <1>8. \A k \in 0 .. size - 1 : /\ <<"data", d, k>> \in AllPlaces
                                 /\ PlaceAt(<<"data", d, k>>) = at + k + 1
    BY <1>5, <1>6
  <1> QED
    BY <1>2, <1>4, <1>7, <1>8

(* No two places are one.                                                  *)
LEMMA PlacesApart ==
  ASSUME VolumeInv, fs.ready, NEW p \in AllPlaces, NEW q \in AllPlaces,
         PlaceAt(p) = PlaceAt(q)
  PROVE  p = q
  <1>1. Divided(MB) /\ MB = Geometry
    BY Geometric DEF Ready
  <1>2. PICK size \in Nat \ {0}, N \in Nat, D \in Nat :
          /\ size = Geometry.block_size /\ N = Geometry.n_inode_blocks
          /\ D = Geometry.n_data_blocks
    BY <1>1 DEF Divided
  <1>3. \A x \in AllPlaces :
          \/ \E n \in 0 .. N - 1 : x = <<"inode", n, 0>> /\ PlaceAt(x) = size + n + 1
          \/ \E d \in 0 .. D - 1, k \in 0 .. size - 1 :
               x = <<"data", d, k>> /\ PlaceAt(x) = (1 + N + d) * size + k + 1
    BY <1>2 DEF AllPlaces, PlaceAt
  <1>4. \A n \in 0 .. N - 1, d \in 0 .. D - 1, k \in 0 .. size - 1 :
          size + n + 1 # (1 + N + d) * size + k + 1
    <2> SUFFICES ASSUME NEW n \in 0 .. N - 1, NEW d \in Nat, NEW k \in Nat
                 PROVE  size + n + 1 # (1 + N + d) * size + k + 1
      OBVIOUS
    <2>1. PICK x \in Nat : x = (1 + N + d) * size /\ size + N <= x
      BY BehindInodes
    <2> QED
      BY <2>1
  <1>5. \A d, e \in 0 .. D - 1, k, j \in 0 .. size - 1 :
          (1 + N + d) * size + k + 1 = (1 + N + e) * size + j + 1 => d = e /\ k = j
    <2> SUFFICES ASSUME NEW d \in 0 .. D - 1, NEW e \in 0 .. D - 1,
                        NEW k \in 0 .. size - 1, NEW j \in 0 .. size - 1,
                        (1 + N + d) * size + k + 1 = (1 + N + e) * size + j + 1
                 PROVE  d = e /\ k = j
      OBVIOUS
    <2>1. PICK a \in Nat, c \in Nat : a = 1 + N + d /\ c = 1 + N + e
      OBVIOUS
    <2>2. PICK x \in Nat, y \in Nat : x = a * size /\ y = c * size
      <3>1. a * size \in Nat /\ c * size \in Nat
        OBVIOUS
      <3> QED
        BY <3>1
    <2>3. x + k = y + j
      BY <2>1, <2>2
    <2>4. ~(a < c)
      <3> SUFFICES ASSUME a < c PROVE FALSE
        OBVIOUS
      <3>1. a \in 0 .. c - 1
        OBVIOUS
      <3>2. x + size <= y
        BY <2>2, <3>1, BlockEnds
      <3> QED
        BY <2>3, <3>2
    <2>5. ~(c < a)
      <3> SUFFICES ASSUME c < a PROVE FALSE
        OBVIOUS
      <3>1. c \in 0 .. a - 1
        OBVIOUS
      <3>2. y + size <= x
        BY <2>2, <3>1, BlockEnds
      <3> QED
        BY <2>3, <3>2
    <2>6. a = c
      BY <2>4, <2>5
    <2> QED
      BY <2>1, <2>2, <2>3, <2>6
  <1>6. ASSUME NEW n \in 0 .. N - 1, NEW m \in 0 .. N - 1,
               p = <<"inode", n, 0>>, PlaceAt(p) = size + n + 1,
               q = <<"inode", m, 0>>, PlaceAt(q) = size + m + 1
        PROVE  p = q
    <2>1. size + n + 1 = size + m + 1
      BY <1>6
    <2>2. n = m
      BY <2>1
    <2> QED
      BY <1>6, <2>2
  <1>7. ASSUME NEW d \in 0 .. D - 1, NEW k \in 0 .. size - 1,
               NEW e \in 0 .. D - 1, NEW j \in 0 .. size - 1,
               p = <<"data", d, k>>, PlaceAt(p) = (1 + N + d) * size + k + 1,
               q = <<"data", e, j>>, PlaceAt(q) = (1 + N + e) * size + j + 1
        PROVE  p = q
    <2>1. (1 + N + d) * size + k + 1 = (1 + N + e) * size + j + 1
      BY <1>7
    <2>2. d = e /\ k = j
      BY <1>5, <2>1
    <2> QED
      BY <1>7, <2>2
  <1>8. ASSUME NEW n \in 0 .. N - 1, NEW d \in 0 .. D - 1, NEW k \in 0 .. size - 1,
               \/ /\ PlaceAt(p) = size + n + 1
                  /\ PlaceAt(q) = (1 + N + d) * size + k + 1
               \/ /\ PlaceAt(q) = size + n + 1
                  /\ PlaceAt(p) = (1 + N + d) * size + k + 1
        PROVE  FALSE
    BY <1>4, <1>8
  <1> QED
    BY <1>3, <1>6, <1>7, <1>8

(* Where the fragments of a transfer lie: next to each other, in one block.*)
First(at)        == IF at >= 0 THEN at ELSE MB.block_size + at
Spot(kind, n, k) == <<kind, n, k>>
Base(b)          == b * block_size

(* A transfer of m fragments at the offset from of block b, for which a    *)
(* caller has asked at the offset at of its inode or data block.           *)
Asked(kind, n, at, b, from) ==
  /\ kind = "inode" => /\ HasInodeN(n) /\ b = InodeBlockN(n)
                       /\ at = 0 /\ from = n % MB.block_size
  /\ kind = "data" => HasDataN(n) /\ b = DataBlockN(n) /\ from = at

Roomy(kind, at, m) ==
  /\ kind = "inode" => m <= 1
  /\ kind = "data" => /\ -MB.block_size < at /\ at < MB.block_size
                      /\ m <= Space(at)

Lies(kind, n, at, o, m) ==
  \A j \in 1 .. m :
    /\ Spot(kind, n, First(at) + j - 1) \in AllPlaces
    /\ PlaceAt(Spot(kind, n, First(at) + j - 1)) = o + j

(* The image after m fragments from the offset o on are what was written.  *)
Wrote(written, o, m) ==
  /\ Formatted' /\ Geometry' = Geometry /\ Len(file'.data) = Len(file.data)
  /\ \A k \in 1 .. Len(file.data) :
       file'.data[k] = IF o < k /\ k <= o + m THEN written[k - o] ELSE file.data[k]

Called(op, kind, n, at, data) ==
  /\ call'.op = op /\ call'.how = "ok" /\ call'.kind = kind /\ call'.n = n
  /\ call'.at = at /\ call'.data = data

LEMMA TransferSpots ==
  ASSUME VolumeInv, fs.ready, NEW kind \in {"inode", "data"}, NEW n \in Int,
         NEW at \in Int, NEW b \in Int, NEW m \in Nat, NEW from \in Int,
         Asked(kind, n, at, b, from), Roomy(kind, at, m)
  PROVE  /\ b \in 1 .. MB.n_blocks - 1
         /\ Base(b) \in Nat /\ At(from) \in 0 .. MB.block_size - 1
         /\ At(from) + m <= MB.block_size
         /\ Lies(kind, n, at, Base(b) + At(from), m)
  <1> USE DEF Asked, Roomy
  <1>1. /\ MB.block_size = block_size /\ MB.block_size \in Nat \ {0}
    BY Geometric
  <1>2. PICK size \in Nat \ {0} : size = MB.block_size /\ size = block_size
    BY <1>1
  <1>3. CASE kind = "inode"
    <2>1. /\ Spot("inode", n, 0) \in AllPlaces
          /\ b \in 1 .. MB.n_blocks - 1
          /\ \E base \in Nat, r \in 0 .. size - 1 :
               /\ base = b * size /\ r = n % size
               /\ PlaceAt(Spot("inode", n, 0)) = base + r + 1
      BY <1>2, <1>3, InodePlace DEF Spot
    <2>2. PICK base \in Nat, r \in 0 .. size - 1 :
               /\ base = b * size /\ r = n % size
               /\ PlaceAt(Spot("inode", n, 0)) = base + r + 1
      BY <2>1
    <2>3. At(from) = r
      BY <1>2, <1>3, <2>2 DEF At
    <2>4. \A j \in 1 .. m : j = 1 /\ First(at) + j - 1 = 0
      BY <1>3 DEF First
    <2>5. \A j \in 1 .. m :
                   /\ Spot(kind, n, First(at) + j - 1) \in AllPlaces
                   /\ PlaceAt(Spot(kind, n, First(at) + j - 1)) = base + r + j
      BY <1>3, <2>1, <2>2, <2>4
    <2>6. r + m <= size
      BY <1>3
    <2>7. Base(b) = base
      BY <1>2, <2>2 DEF Base
    <2> QED
      BY <1>2, <2>1, <2>2, <2>3, <2>5, <2>6, <2>7 DEF Lies
  <1>4. CASE kind = "data"
    <2>1. /\ b \in 1 .. MB.n_blocks - 1
          /\ \E base \in Nat :
               /\ base = b * size
               /\ \A k \in 0 .. size - 1 :
                    /\ Spot("data", n, k) \in AllPlaces
                    /\ PlaceAt(Spot("data", n, k)) = base + k + 1
      BY <1>2, <1>4, DataPlace DEF Spot
    <2>2. PICK base \in Nat :
               /\ base = b * size
               /\ \A k \in 0 .. size - 1 :
                    /\ Spot("data", n, k) \in AllPlaces
                    /\ PlaceAt(Spot("data", n, k)) = base + k + 1
      BY <2>1
    <2>3. PICK f \in 0 .. size - 1 : f = At(from) /\ f = First(at) /\ f + m <= size
      BY <1>2, <1>4 DEF At, Space, First
    <2>4. \A j \in 1 .. m : f + j - 1 \in 0 .. size - 1 /\ base + (f + j - 1) + 1 = base + f + j
      BY <2>3
    <2>5. \A j \in 1 .. m :
                   /\ Spot(kind, n, First(at) + j - 1) \in AllPlaces
                   /\ PlaceAt(Spot(kind, n, First(at) + j - 1)) = base + f + j
      BY <1>4, <2>2, <2>3, <2>4
    <2>6. Base(b) = base
      BY <1>2, <2>2 DEF Base
    <2> QED
      BY <1>2, <2>1, <2>2, <2>3, <2>5, <2>6 DEF Lies
  <1> QED
    BY <1>3, <1>4

(* m fragments at the offset f of a block, of an image that has all of it. *)
LEMMA Within ==
  ASSUME NEW base \in Nat, NEW f \in Nat, NEW m \in Nat, NEW size \in Nat,
         NEW len \in Nat, f + m <= size, base + size <= len
  PROVE  /\ base + f \in Nat /\ base + f + m <= len
         /\ \A k \in Int : base + f < k /\ k <= base + f + m
                           => base < k /\ k <= base + size
  OBVIOUS

LEMMA InBlock ==
  ASSUME NEW base \in Nat, NEW f \in Nat, NEW m \in Nat, NEW size \in Nat,
         NEW len \in Nat, f + m <= size, base + size <= len, NEW j \in 1 .. m
  PROVE  /\ f + j \in 1 .. size /\ base + f + j <= len
         /\ base + f + j = base + (f + j)
  OBVIOUS

(* A place that the transfer names is there when its block is.             *)
LEMMA ReadStep ==
  ASSUME VolumeInv, fs.ready, NEW kind, NEW n, NEW at \in Int, NEW buffer,
         NEW m \in Nat \ {0}, NEW base \in Nat, NEW f \in Nat, f + m <= MB.block_size,
         Lies(kind, n, at, base + f, m),
         buffer \in Seq(Seq(Int)), Len(buffer) = MB.block_size,
         base + MB.block_size <= Len(file.data),
         \A k \in 1 .. MB.block_size : buffer[k] = file.data[base + k],
         UNCHANGED file,
         Called("read", kind, n, at, SubSeq(buffer, f + 1, f + m))
  PROVE  Device!Read
  <1> USE DEF Called
  <1>1. Ready /\ MB.block_size \in Nat \ {0} /\ Len(file.data) \in Nat
    BY Geometric DEF VolumeInv, ImageInv
  <1>2. PICK size \in Nat \ {0}, len \in Nat :
          /\ size = MB.block_size /\ len = Len(file.data)
          /\ base + size <= len /\ f + m <= size
    BY <1>1
  <1>3. PICK data : data = call'.data
    OBVIOUS
  <1>4. data = [j \in 1 .. m |-> buffer[f + j]]
    BY <1>2, <1>3, Part
  <1>5. Formatted /\ Width = MB.block_size
    BY <1>1 DEF Ready, Width
  <1>6. UNCHANGED <<Places, Width>>
    BY SameFile
  <1>7. ASSUME NEW j \in 1 .. m
        PROVE  /\ Spot(kind, n, First(at) + j - 1) \in DOMAIN Places
               /\ data[j] = Places[Spot(kind, n, First(at) + j - 1)]
    <2>1. f + j \in 1 .. size /\ base + f + j <= len /\ base + f + j = base + (f + j)
      <3>1. m \in Nat /\ size \in Nat /\ f + m <= size /\ base + size <= len
        BY <1>2
      <3> QED
        BY <3>1, InBlock
    <2>2. PICK spot : spot = Spot(kind, n, First(at) + j - 1)
      OBVIOUS
    <2>3. spot \in AllPlaces /\ PlaceAt(spot) = base + f + j
      BY <2>2 DEF Lies
    <2>4. spot \in PlaceSet
      BY <1>2, <1>5, <2>1, <2>3 DEF PlaceSet
    <2>5. Places[spot] = file.data[base + f + j]
      BY <2>3, <2>4, PlacesMap
    <2>6. data[j] = file.data[base + (f + j)]
      BY <1>2, <1>4, <2>1
    <2> QED
      BY <2>1, <2>2, <2>4, <2>5, <2>6, PlacesMap
  <1>8. DOMAIN data = 1 .. m
    BY <1>4
  <1>9. (IF at >= 0 THEN at ELSE Width + at) = First(at)
    BY <1>5 DEF First
  <1> QED
    BY <1>3, <1>6, <1>7, <1>8, <1>9
    DEF Device!Read, Device!Ended, Device!Place, Device!From, Spot

LEMMA PlaceTyped ==
  ASSUME VolumeInv, fs.ready, NEW p \in AllPlaces
  PROVE  PlaceAt(p) \in Nat \ {0}
  <1>1. Divided(MB) /\ MB = Geometry
    BY Geometric DEF Ready
  <1>2. PICK size \in Nat \ {0}, N \in Nat, D \in Nat :
          /\ size = Geometry.block_size /\ N = Geometry.n_inode_blocks
          /\ D = Geometry.n_data_blocks
    BY <1>1 DEF Divided
  <1>3. \/ \E n \in 0 .. N - 1 : p = <<"inode", n, 0>> /\ PlaceAt(p) = size + n + 1
        \/ \E d \in 0 .. D - 1, k \in 0 .. size - 1 :
             p = <<"data", d, k>> /\ PlaceAt(p) = (1 + N + d) * size + k + 1
    BY <1>2 DEF AllPlaces, PlaceAt
  <1>4. \A d \in Nat, k \in Nat : (1 + N + d) * size + k + 1 \in Nat \ {0}
    <2> SUFFICES ASSUME NEW d \in Nat, NEW k \in Nat
                 PROVE  (1 + N + d) * size + k + 1 \in Nat \ {0}
      OBVIOUS
    <2>1. (1 + N + d) * size \in Nat
      OBVIOUS
    <2> QED
      BY <2>1
  <1>5. \A n \in 0 .. N - 1 : size + n + 1 \in Nat \ {0}
    OBVIOUS
  <1>6. CASE \E n \in 0 .. N - 1 : p = <<"inode", n, 0>> /\ PlaceAt(p) = size + n + 1
    BY <1>5, <1>6
  <1>7. ASSUME NEW d \in 0 .. D - 1, NEW k \in 0 .. size - 1,
               PlaceAt(p) = (1 + N + d) * size + k + 1
        PROVE  PlaceAt(p) \in Nat \ {0}
    <2>1. d \in Nat /\ k \in Nat
      OBVIOUS
    <2> QED
      BY <1>4, <1>7, <2>1
  <1> QED
    BY <1>3, <1>6, <1>7

(* A write changes the places that it names and no others.                 *)
LEMMA WriteStep ==
  ASSUME VolumeInv, fs.ready, NEW kind, NEW n, NEW at \in Int,
         NEW m \in Nat, NEW o \in Nat, o + m <= Len(file.data), NEW written,
         Lies(kind, n, at, o, m),
         DOMAIN written = 1 .. m,
         Wrote(written, o, m), Called("write", kind, n, at, written)
  PROVE  Device!Write
  <1> USE DEF Wrote, Called
  <1>1. /\ Ready /\ Formatted /\ MB.block_size \in Nat \ {0}
        /\ MB = Geometry /\ Len(file.data) \in Nat
    BY Geometric DEF VolumeInv, ImageInv, Ready
  <1>2. PICK len \in Nat, first \in Int :
          len = Len(file.data) /\ first = First(at) /\ o + m <= len
    BY <1>1 DEF First
  <1>3. /\ Width' = Width /\ Width = MB.block_size
        /\ Places' = [p \in PlaceSet |-> file'.data[PlaceAt(p)]]
    BY <1>1, SamePlaces DEF Width
  <1>4. ASSUME NEW p \in PlaceSet
        PROVE  file'.data[PlaceAt(p)] =
                 IF \E j \in 1 .. m : p = Spot(kind, n, first + j - 1)
                 THEN written[p[3] - first + 1] ELSE Places[p]
    <2>1. PICK x \in Nat \ {0} : x = PlaceAt(p) /\ x <= len
      BY <1>1, <1>2, PlaceTyped DEF PlaceSet
    <2>2. Places[p] = file.data[x]
      BY <2>1, PlacesMap
    <2>3. file'.data[x] = IF o < x /\ x <= o + m THEN written[x - o] ELSE file.data[x]
      BY <1>2, <2>1
    <2>4. ASSUME NEW j \in 1 .. m, p = Spot(kind, n, first + j - 1)
          PROVE  file'.data[x] = written[p[3] - first + 1]
      <3>1. x = o + j
        BY <1>2, <2>1, <2>4 DEF Lies
      <3>2. p[3] - first + 1 = j
        <4>1. p[3] = first + j - 1
          BY <2>4 DEF Spot
        <4> QED
          BY <4>1
      <3>3. file'.data[x] = written[j]
        BY <2>3, <3>1
      <3> QED
        BY <3>2, <3>3
    <2>5. ASSUME \A j \in 1 .. m : p # Spot(kind, n, first + j - 1)
          PROVE  file'.data[x] = file.data[x]
      <3>1. \A j \in 1 .. m : x # o + j
        BY <1>2, <2>1, <2>5, PlacesApart DEF PlaceSet, Lies
      <3>2. ~(o < x /\ x <= o + m)
        <4> SUFFICES ASSUME o < x, x <= o + m PROVE FALSE
          OBVIOUS
        <4>1. x - o \in 1 .. m /\ x = o + (x - o)
          OBVIOUS
        <4> QED
          BY <3>1, <4>1
      <3> QED
        BY <2>3, <3>2
    <2> QED
      BY <2>1, <2>2, <2>4, <2>5
  <1>5. (IF at >= 0 THEN at ELSE Width + at) = first
    BY <1>2, <1>3 DEF First
  <1> DEFINE After(p) == IF \E j \in 1 .. m : p = Spot(kind, n, first + j - 1)
                         THEN written[p[3] - first + 1] ELSE Places[p]
  <1>6. [p \in PlaceSet |-> file'.data[PlaceAt(p)]] = [p \in PlaceSet |-> After(p)]
    <2>1. \A p \in PlaceSet : file'.data[PlaceAt(p)] = After(p)
      BY <1>4
    <2> HIDE DEF After
    <2> QED
      BY <2>1
  <1>7. Places' = [p \in DOMAIN Places |-> After(p)]
    BY <1>3, <1>6, PlacesMap
  <1>8. Device!From = first
    BY <1>5 DEF Device!From
  <1>9. \A k : Device!Place(k) = Spot(kind, n, k)
    BY DEF Device!Place, Spot
  <1>10. Places' = [p \in DOMAIN Places |->
           IF \E j \in DOMAIN call'.data : p = Device!Place(Device!From + j - 1)
           THEN call'.data[p[3] - Device!From + 1] ELSE Places[p]]
    <2> HIDE DEF Spot
    <2> QED
      BY <1>7, <1>8, <1>9
  <1> QED
    BY <1>3, <1>10
    DEF Device!Write, Device!Ended

LEMMA RefuseStep ==
  ASSUME VolumeInv, fs.ready, UNCHANGED file, NEW kind, NEW n, NEW at \in Int,
         call'.op \in {"read", "write"}, call'.how = "threw",
         call'.kind = kind, call'.n = n, call'.at = at,
         \/ at = -MB.block_size
         \/ \E j \in {1} \cup DOMAIN call'.data :
              Spot(kind, n, First(at) + j - 1) \notin PlaceSet
  PROVE  Device!Refuse
  <1>1. Width = MB.block_size /\ UNCHANGED <<Places, Width>>
    BY Geometric, SameFile DEF Ready, Width
  <1>2. Device!From = First(at)
    BY <1>1 DEF Device!From, First
  <1>3. \A k : Device!Place(k) = Spot(kind, n, k)
    BY DEF Device!Place, Spot
  <1> HIDE DEF Spot, First
  <1>4. \/ call'.at = -Width
        \/ \E j \in {1} \cup DOMAIN call'.data :
             Device!Place(Device!From + j - 1) \notin DOMAIN Places
    BY <1>1, <1>2, <1>3, PlacesMap
  <1> QED
    BY <1>1, <1>4 DEF Device!Refuse

(* There are places for the numbers and offsets of the super block only.   *)
LEMMA NoSpot ==
  ASSUME VolumeInv, fs.ready, NEW kind \in {"inode", "data"}, NEW n \in Int, NEW k \in Int,
         \/ kind = "inode" /\ ~HasInodeN(n)
         \/ kind = "data" /\ ~HasDataN(n)
         \/ kind = "data" /\ k \notin 0 .. MB.block_size - 1
  PROVE  Spot(kind, n, k) \notin PlaceSet
  <1>1. MB = Geometry
    BY Geometric DEF Ready
  <1>2. PICK size \in Nat \ {0}, N \in Nat, D \in Nat :
          size = MB.block_size /\ N = MB.n_inode_blocks /\ D = MB.n_data_blocks
    BY Geometric
  <1>3. AllPlaces = ({"inode"} \X (0 .. N - 1) \X {0}) \cup
                    ({"data"} \X (0 .. D - 1) \X (0 .. size - 1))
    BY <1>1, <1>2 DEF AllPlaces
  <1>4. Spot(kind, n, k) \notin AllPlaces
    BY <1>2, <1>3 DEF Spot, HasInodeN, HasDataN
  <1> QED
    BY <1>4 DEF PlaceSet

(* A transfer that goes to a block is at a place of it.                    *)
LEMMA TransferInside ==
  ASSUME VolumeInv, fs.ready, NEW kind \in {"inode", "data"}, NEW n \in Int,
         NEW at \in Int, NEW b \in Int, NEW from \in Int,
         Asked(kind, n, at, b, from)
  PROVE  /\ b \in 1 .. MB.n_blocks - 1 /\ HasBlockN(b)
         /\ kind = "inode" => /\ from \in 0 .. MB.block_size - 1
                              /\ ~BadBlock(b, from) /\ Space(from) >= 1
         /\ kind = "data" /\ BadBlock(b, from) =>
              \/ at = -MB.block_size
              \/ First(at) \notin 0 .. MB.block_size - 1
         /\ ~BadBlock(b, from) =>
              /\ Space(from) \in Nat \ {0}
              /\ \A m \in Nat : m <= Space(from) /\ (kind = "inode" => m <= 1)
                                => Roomy(kind, at, m)
  <1> USE DEF Asked
  <1>1. PICK size \in Nat \ {0}, N \in Nat :
          size = MB.block_size /\ N = MB.n_blocks
    BY Geometric
  <1>2. b \in 1 .. N - 1
    <2>1. CASE kind = "inode"
      BY <1>1, <2>1, InodePlace
    <2>2. CASE kind = "data"
      BY <1>1, <2>2, DataPlace
    <2> QED
      BY <2>1, <2>2
  <1>3. HasBlockN(b)
    BY <1>1, <1>2 DEF HasBlockN
  <1>4. kind = "inode" => from \in 0 .. size - 1
    BY <1>1, InodePlace
  <1> QED
    BY <1>1, <1>2, <1>3, <1>4 DEF BadBlock, Space, At, First, Roomy

LEMMA FailsStep ==
  ASSUME VolumeInv, fs.ready, disk_img = "good", NEW kind \in {"inode", "data"},
         NEW n \in Int, NEW at \in Int, NEW b \in Int, NEW from \in Int,
         Asked(kind, n, at, b, from),
         ~BadBlock(b, from), ~ReadsBlock(b)
  PROVE  Spot(kind, n, First(at)) \notin PlaceSet
  <1>1. /\ b \in 1 .. MB.n_blocks - 1
        /\ Space(from) \in Nat \ {0} /\ Roomy(kind, at, 1)
    BY TransferInside
  <1>2. /\ Ready /\ MB.block_size = block_size /\ MB.block_size \in Nat \ {0}
        /\ disk_img_size = Len(file.data) /\ mounted \in Nat \ {0}
        /\ MB.n_blocks \in Nat
    BY Geometric
  <1>3. /\ Base(b) \in Nat /\ At(from) \in Nat
        /\ Spot(kind, n, First(at)) \in AllPlaces
        /\ PlaceAt(Spot(kind, n, First(at))) = Base(b) + At(from) + 1
    <2>1. /\ Base(b) \in Nat /\ At(from) \in 0 .. MB.block_size - 1
          /\ Lies(kind, n, at, Base(b) + At(from), 1)
      BY <1>1, TransferSpots
    <2>2. First(at) + 1 - 1 = First(at) /\ 1 \in 1 .. 1 /\ At(from) \in Nat
      BY <1>2, <2>1 DEF First
    <2> QED
      BY <2>1, <2>2 DEF Lies
  <1>4. Len(file.data) <= Base(b)
    <2>1. b \in 0 .. Geometry.n_blocks - 1 /\ Geometry.n_blocks > 0
      BY <1>1, <1>2 DEF Ready
    <2>2. Count(b, MB.block_size) # MB.block_size
      BY DEF ReadsBlock
    <2>3. Count(b, MB.block_size) = Cut(b, MB.block_size)
      BY <1>2 DEF Count, Mounted
    <2> QED
      BY <1>2, <2>1, <2>2, <2>3, BlockOnDisk DEF VolumeInv, Ready, Base
  <1>5. Len(file.data) \in Nat
    BY DEF VolumeInv, ImageInv
  <1>6. Base(b) + At(from) + 1 > Len(file.data)
    BY <1>3, <1>4, <1>5
  <1> QED
    BY <1>3, <1>5, <1>6 DEF PlaceSet

LEMMA WriteDone ==
  ASSUME VolumeInv, fs.ready, disk_img = "good", NEW kind \in {"inode", "data"},
         NEW n \in Int, NEW at \in Int, NEW b \in Int, NEW from \in Int,
         NEW data \in Seq(Seq(Int)), data # <<>>,
         Asked(kind, n, at, b, from), kind = "inode" => Len(data) = 1,
         ~BadBlock(b, from), ReadsBlock(b), UNCHANGED fs,
         BlockWrite(b, from, data, [op |-> "write", kind |-> kind, n |-> n, at |-> at,
                                    data |-> data, how |-> "ok"])
  PROVE  Device!Write
  <1> DEFINE c == [op |-> "write", kind |-> kind, n |-> n, at |-> at, data |-> data,
                   how |-> "ok"]
  <1>1. /\ b \in 1 .. MB.n_blocks - 1 /\ Space(from) \in Nat \ {0}
        /\ \A m \in Nat : m <= Space(from) /\ (kind = "inode" => m <= 1)
                          => Roomy(kind, at, m)
    BY TransferInside
  <1>2. /\ MB.block_size = block_size /\ MB.block_size \in Nat \ {0}
        /\ MB.n_blocks \in Nat /\ Ready
    BY Geometric
  <1>3. PICK m \in Nat \ {0} : /\ m = Least(Len(data), Space(from))
                               /\ m <= Space(from) /\ m <= Len(data)
    <2>1. PICK l \in Nat, s \in Nat \ {0} : l = Len(data) /\ s = Space(from)
      BY <1>1
    <2>2. l # 0
      BY <2>1
    <2>3. Least(l, s) \in Nat \ {0} /\ Least(l, s) <= s /\ Least(l, s) <= l
      BY <2>2 DEF Least
    <2> QED
      BY <2>1, <2>3
  <1>4. PICK size \in Nat \ {0}, base \in Nat, f \in Nat, len \in Nat :
          /\ size = MB.block_size /\ size = block_size
          /\ base = Base(b) /\ f = At(from) /\ f + m <= size
          /\ Lies(kind, n, at, base + f, m) /\ len = Len(file.data)
    <2>1. Roomy(kind, at, m)
      BY <1>1, <1>3
    <2>2. /\ Base(b) \in Nat /\ At(from) \in 0 .. MB.block_size - 1
          /\ At(from) + m <= MB.block_size
          /\ Lies(kind, n, at, Base(b) + At(from), m)
      BY <2>1, TransferSpots
    <2>3. Len(file.data) \in Nat
      BY DEF VolumeInv, ImageInv
    <2> QED
      BY <1>2, <2>2, <2>3
  <1>5. /\ BufferWith(b) \in Seq(Seq(Int)) /\ Len(BufferWith(b)) = size
        /\ base + size <= len /\ Count(b, MB.block_size) = MB.block_size
        /\ \A k \in 1 .. size : BufferWith(b)[k] = file.data[base + k]
    <2>1. b \in 0 .. MB.n_blocks - 1
      BY <1>1, <1>2
    <2> QED
      BY <1>4, <2>1, ReadBlock DEF Base
  <1>6. /\ casched_block' = b
        /\ rwbuffer' = [k \in DOMAIN rwbuffer |->
             IF At(from) < k /\ k <= At(from) + Least(Len(data), Space(from))
             THEN data[k - At(from)] ELSE BufferWith(b)[k]]
        /\ file' = (IF Mounted THEN Stored(b, rwbuffer') ELSE file)
        /\ disk_img' = (IF StreamAfterBlock(b) = "failed" THEN "failed"
                        ELSE StreamAfter(b, MB.block_size))
        /\ UNCHANGED <<disk_img_size, block_size, MB>>
        /\ call' = [c EXCEPT !.data = SubSeq(data, 1, m)]
    BY <1>3, <1>5 DEF BlockWrite, Fails, Nothing, Refuses
  <1>7. /\ Formatted' /\ Geometry' = Geometry /\ Len(file'.data) = len
        /\ \A k \in 1 .. len :
             file'.data[k] = IF base < k /\ k <= base + size
                             THEN rwbuffer'[k - base] ELSE file.data[k]
    <2>1. /\ Formatted' /\ Geometry' = Geometry /\ Len(file'.data) = Len(file.data)
          /\ \A k \in 1 .. Len(file.data) :
               file'.data[k] = IF b * block_size < k /\ k <= b * block_size + block_size
                               THEN rwbuffer'[k - b * block_size] ELSE file.data[k]
      BY <1>1, <1>6, WriteVolume
    <2>2. base = b * block_size
      BY <1>4 DEF Base
    <2> QED
      BY <1>4, <2>1, <2>2
  <1>8. PICK written : /\ written = SubSeq(data, 1, m)
                       /\ DOMAIN written = 1 .. m
                       /\ \A j \in 1 .. m : written[j] = data[j]
    <2>1. SubSeq(data, 0 + 1, 0 + m) = [j \in 1 .. m |-> data[0 + j]]
      <3>1. 0 + m <= Len(data) /\ 0 \in Nat
        BY <1>3
      <3> QED
        BY <3>1, Part
    <2>2. 0 + 1 = 1 /\ 0 + m = m /\ \A j \in 1 .. m : 0 + j = j
      OBVIOUS
    <2>3. SubSeq(data, 1, m) = [j \in 1 .. m |-> data[0 + j]]
      BY <2>1, <2>2
    <2> QED
      BY <2>2, <2>3
  <1>9. \A k \in 1 .. size :
          rwbuffer'[k] = IF f < k /\ k <= f + m THEN data[k - f] ELSE BufferWith(b)[k]
    <2>1. DOMAIN rwbuffer = 1 .. size
      BY <1>2, <1>4 DEF Ready, VolumeInv, CacheInv
    <2> QED
      BY <1>3, <1>4, <1>6, <2>1
  <1>10. ASSUME NEW k \in 1 .. len
         PROVE  file'.data[k] = IF base + f < k /\ k <= base + f + m
                                THEN written[k - (base + f)] ELSE file.data[k]
    <2>1. CASE base < k /\ k <= base + size
      <3>1. PICK i \in 1 .. size : i = k - base /\ k = base + i
        BY <2>1
      <3>2. file'.data[k] = rwbuffer'[i]
        BY <1>7, <2>1, <3>1
      <3>3. CASE f < i /\ i <= f + m
        <4>1. i - f \in 1 .. m /\ i - f = k - (base + f)
          BY <3>1, <3>3
        <4>2. base + f < k /\ k <= base + f + m
          BY <3>1, <3>3
        <4> QED
          BY <1>8, <1>9, <3>2, <3>3, <4>1, <4>2
      <3>4. CASE ~(f < i /\ i <= f + m)
        <4>1. ~(base + f < k /\ k <= base + f + m)
          BY <3>1, <3>4
        <4>2. rwbuffer'[i] = file.data[base + i]
          BY <1>5, <1>9, <3>4
        <4> QED
          BY <3>1, <3>2, <4>1, <4>2
      <3> QED
        BY <3>3, <3>4
    <2>2. CASE ~(base < k /\ k <= base + size)
      <3>1. ~(base + f < k /\ k <= base + f + m)
        <4>1. f + m <= size /\ base + size <= len /\ k \in Int
          BY <1>4, <1>5
        <4> QED
          BY <2>2, <4>1
      <3> QED
        BY <1>7, <2>2, <3>1
    <2> QED
      BY <2>1, <2>2
  <1>11. /\ call'.op = "write" /\ call'.how = "ok" /\ call'.kind = kind /\ call'.n = n
         /\ call'.at = at /\ call'.data = written
    BY <1>6, <1>8
  <1>12. PICK o \in Nat : /\ o = base + f /\ o + m <= len
                          /\ Lies(kind, n, at, o, m)
    <2>1. base + f \in Nat /\ base + f + m <= len
      BY <1>4, <1>5, Within
    <2> QED
      BY <1>4, <2>1
  <1>13. \A k \in 1 .. len :
           file'.data[k] = IF o < k /\ k <= o + m THEN written[k - o] ELSE file.data[k]
    BY <1>10, <1>12
  <1> HIDE DEF c
  <1>14. o + m <= Len(file.data) /\ m \in Nat
    BY <1>4, <1>12
  <1>15. Wrote(written, o, m)
    BY <1>4, <1>7, <1>13 DEF Wrote
  <1>16. Called("write", kind, n, at, written)
    BY <1>11 DEF Called
  <1>17. Lies(kind, n, at, o, m) /\ DOMAIN written = 1 .. m
    BY <1>8, <1>12
  <1> QED
    BY <1>14, <1>15, <1>16, <1>17, WriteStep

LEMMA ReadDone ==
  ASSUME VolumeInv, fs.ready, disk_img = "good", NEW kind \in {"inode", "data"},
         NEW n \in Int, NEW at \in Int, NEW b \in Int, NEW from \in Int,
         NEW m \in Nat \ {0}, m <= Space(from),
         Asked(kind, n, at, b, from), kind = "inode" => m = 1,
         ~BadBlock(b, from), ReadsBlock(b), UNCHANGED file,
         Called("read", kind, n, at,
                SubSeq(BufferWith(b), At(from) + 1, At(from) + m))
  PROVE  Device!Read
  <1>1. /\ b \in 1 .. MB.n_blocks - 1 /\ Roomy(kind, at, m)
    BY TransferInside
  <1>2. /\ MB.block_size = block_size /\ MB.n_blocks \in Nat
    BY Geometric
  <1>3. /\ Base(b) \in Nat /\ At(from) \in 0 .. MB.block_size - 1
        /\ At(from) + m <= MB.block_size
        /\ Lies(kind, n, at, Base(b) + At(from), m)
    BY <1>1, TransferSpots
  <1>4. /\ BufferWith(b) \in Seq(Seq(Int)) /\ Len(BufferWith(b)) = MB.block_size
        /\ Base(b) + MB.block_size <= Len(file.data)
        /\ \A k \in 1 .. MB.block_size : BufferWith(b)[k] = file.data[Base(b) + k]
    <2>1. b \in 0 .. MB.n_blocks - 1
      BY <1>1, <1>2
    <2> QED
      BY <2>1, ReadBlock DEF Base
  <1>5. At(from) \in Nat
    BY <1>2, <1>3
  <1> QED
    BY <1>3, <1>4, <1>5, ReadStep

LEMMA NothingStep ==
  ASSUME UNCHANGED file, call'.data = <<>>, call'.how = "ok",
         call'.op \in {"read", "write"}
  PROVE  Device!Read \/ Device!Write
  <1>1. UNCHANGED <<Places, Width>>
    BY SameFile
  <1>2. Places = [p \in DOMAIN Places |-> Places[p]]
    BY DEF Places
  <1>3. DOMAIN call'.data = {}
    OBVIOUS
  <1>4. CASE call'.op = "read"
    BY <1>1, <1>3, <1>4 DEF Device!Read, Device!Ended
  <1>5. CASE call'.op = "write"
    BY <1>1, <1>2, <1>3, <1>5 DEF Device!Write, Device!Ended
  <1> QED
    BY <1>4, <1>5

(* Every transfer is one of the device.                                    *)
LEMMA TransferDevice ==
  ASSUME VolumeInv, disk_img = "good", NEW op \in {"read", "write"},
         NEW kind \in {"inode", "data"}, NEW n \in Int, NEW at \in Int,
         NEW data \in Seq(Seq(Int)), NEW b \in Int,
         kind = "inode" => at = 0 /\ b = InodeBlockN(n) /\ Len(data) = 1,
         kind = "data" => b = DataBlockN(n),
         Transfer(op, kind, n, at, data, b)
  PROVE  Device!Read \/ Device!Write \/ Device!Refuse
  <1> DEFINE c == [op |-> op, kind |-> kind, n |-> n, at |-> at, data |-> data,
                   how |-> "ok"]
  <1> DEFINE from == IF kind = "inode" THEN n % MB.block_size ELSE at
  <1> DEFINE known == IF kind = "inode" THEN HasInodeN(n) ELSE HasDataN(n)
  <1>1. fs.ready /\ UNCHANGED fs
    BY DEF Transfer
  <1>2. PICK size \in Nat \ {0} : size = MB.block_size
    BY <1>1, Geometric
  <1>3. from \in Int /\ First(at) \in Int /\ First(at) + 1 - 1 = First(at)
    BY <1>2 DEF First
  <1>4. known => Asked(kind, n, at, b, from)
    BY DEF Asked
  <1>5. ASSUME Threw(c), UNCHANGED file,
               \/ at = -MB.block_size
               \/ \E j \in {1} \cup DOMAIN data :
                    Spot(kind, n, First(at) + j - 1) \notin PlaceSet
        PROVE  Device!Refuse
    <2>1. /\ call'.op \in {"read", "write"} /\ call'.how = "threw"
          /\ call'.kind = kind /\ call'.n = n /\ call'.at = at /\ call'.data = data
      BY <1>5 DEF Threw
    <2> QED
      BY <1>1, <1>5, <2>1, RefuseStep
  <1>6. CASE ~known /\ Refuses(c)
    <2>1. Spot(kind, n, First(at)) \notin PlaceSet
      BY <1>1, <1>3, <1>6, NoSpot
    <2>2. Spot(kind, n, First(at) + 1 - 1) \notin PlaceSet
      BY <1>3, <2>1
    <2> QED
      BY <1>5, <1>6, <2>2 DEF Refuses, diskVars
  <1>7. CASE /\ known
             /\ \/ op = "read" /\ BlockRead(b, from, Len(data), c)
                \/ op = "write" /\ BlockWrite(b, from, data, c)
    <2>1. Asked(kind, n, at, b, from)
      BY <1>4, <1>7
    <2>2. CASE BadBlock(b, from) /\ Refuses(c)
      <3>1. kind = "data" /\ (at = -MB.block_size \/ First(at) \notin 0 .. MB.block_size - 1)
        BY <1>1, <1>3, <2>1, <2>2, TransferInside
      <3>2. at = -MB.block_size \/ Spot(kind, n, First(at) + 1 - 1) \notin PlaceSet
        BY <1>1, <1>3, <3>1, NoSpot
      <3> QED
        BY <1>5, <2>2, <3>2 DEF Refuses, diskVars
    <2>3. CASE ~BadBlock(b, from) /\ Len(data) > Space(from) /\ Refuses(c)
      <3>1. Space(from) \in Nat \ {0} /\ (kind = "inode" => Space(from) >= 1)
        BY <1>1, <1>3, <2>1, <2>3, TransferInside
      <3>2. kind = "data" /\ Space(from) + 1 \in DOMAIN data
        BY <2>3, <3>1
      <3>3. First(at) + (Space(from) + 1) - 1 = size
        <4>1. PICK offset \in Int : offset = at /\ offset = from
          BY <3>2
        <4>2. PICK first \in Int : first = First(at) /\ first = At(from)
          BY <1>2, <4>1 DEF First, At
        <4>3. Space(from) = size - first
          BY <1>2, <4>2 DEF Space
        <4>4. first + ((size - first) + 1) - 1 = size
          OBVIOUS
        <4> QED
          BY <4>2, <4>3, <4>4
      <3>4. Spot(kind, n, First(at) + (Space(from) + 1) - 1) \notin PlaceSet
        BY <1>1, <1>2, <3>2, <3>3, NoSpot
      <3> QED
        BY <1>5, <2>3, <3>2, <3>4 DEF Refuses, diskVars
    <2>4. CASE data = <<>> /\ Nothing(c)
      <3>1. /\ UNCHANGED file /\ call'.data = <<>> /\ call'.how = "ok"
            /\ call'.op \in {"read", "write"}
        BY <2>4 DEF Nothing, diskVars
      <3> QED
        BY <3>1, NothingStep
    <2>5. CASE ~BadBlock(b, from) /\ Fails(b, c)
      <3>1. Spot(kind, n, First(at)) \notin PlaceSet
        <4>1. ~ReadsBlock(b)
          BY <2>5 DEF Fails
        <4> HIDE DEF from, c
        <4> QED
          BY <1>1, <1>3, <2>1, <2>5, <4>1, FailsStep
      <3>2. Spot(kind, n, First(at) + 1 - 1) \notin PlaceSet
        BY <1>3, <3>1
      <3> QED
        BY <1>5, <2>5, <3>2 DEF Fails
    <2>6. CASE /\ op = "read" /\ ~BadBlock(b, from) /\ Len(data) \in 1 .. Space(from)
               /\ ReadsBlock(b) /\ rwbuffer' = BufferWith(b) /\ UNCHANGED file
               /\ call' = [c EXCEPT !.data = SubSeq(rwbuffer', At(from) + 1,
                                                    At(from) + Len(data))]
      <3>1. Called("read", kind, n, at,
                   SubSeq(BufferWith(b), At(from) + 1, At(from) + Len(data)))
        BY <2>6 DEF Called
      <3>2. PICK m \in Nat \ {0} : m = Len(data) /\ m <= Space(from)
        <4>1. Space(from) \in Nat
          BY <1>1, <1>3, <2>1, <2>6, TransferInside
        <4>2. Len(data) \in Nat \ {0} /\ Len(data) <= Space(from)
          BY <2>6, <4>1
        <4> QED
          BY <4>2
      <3> HIDE DEF from, c
      <3> QED
        BY <1>1, <1>3, <2>1, <2>6, <3>1, <3>2, ReadDone
    <2>7. CASE /\ op = "write" /\ ~BadBlock(b, from) /\ data # <<>>
               /\ ReadsBlock(b) /\ BlockWrite(b, from, data, c)
      <3> HIDE DEF from
      <3> QED
        BY <1>1, <1>3, <2>1, <2>7, WriteDone
    <2>8. CASE op = "read" /\ BlockRead(b, from, Len(data), c)
      <3>1. Len(data) = 0 => data = <<>>
        OBVIOUS
      <3> HIDE DEF from, c
      <3> QED
        BY <2>2, <2>3, <2>4, <2>5, <2>6, <2>8, <3>1 DEF BlockRead
    <2>9. CASE op = "write" /\ BlockWrite(b, from, data, c)
      <3> HIDE DEF from, c
      <3>1. ReadsBlock(b) \/ ~ReadsBlock(b)
        OBVIOUS
      <3>2. \/ BadBlock(b, from) /\ Refuses(c)
            \/ data = <<>> /\ Nothing(c)
            \/ ~BadBlock(b, from) /\ Fails(b, c)
            \/ ~BadBlock(b, from) /\ data # <<>> /\ ReadsBlock(b)
        BY <2>9 DEF BlockWrite
      <3> QED
        BY <2>2, <2>4, <2>5, <2>7, <2>9, <3>2
    <2> QED
      BY <1>7, <2>8, <2>9
  <1>8. \/ ~known /\ Refuses(c)
        \/ known /\ op = "read" /\ BlockRead(b, from, Len(data), c)
        \/ known /\ op = "write" /\ BlockWrite(b, from, data, c)
    BY DEF Transfer
  <1> HIDE DEF from, c, known
  <1> QED
    BY <1>6, <1>7, <1>8

(* The parts into which format divides a disk.                             *)
LEMMA SealGeometry ==
  ASSUME block_size \in Nat \ {0}, disk_img_size \in Nat
  PROVE  \E q \in Nat, i \in Nat :
           /\ q * block_size \in Nat /\ q * block_size <= disk_img_size
           /\ i = InodeBlocks /\ RealSize = q - 1 /\ i <= q
           /\ RealSize <= 0 => i = 0
           /\ RealSize > 0 => i <= q - 1
           /\ SuperBlock(Fragment(NewMB)) =
                [sealed |-> TRUE, block_size |-> block_size, n_blocks |-> q,
                 n_inode_blocks |-> i, n_data_blocks |-> q - 1 - i]
  <1>1. PICK size \in Nat \ {0}, len \in Nat : size = block_size /\ len = disk_img_size
    OBVIOUS
  <1>2. PICK q \in Nat, p \in 0 .. size - 1 : q = len \div size /\ len = q * size + p
    BY <1>1, DivMod
  <1>3. GetDiskSize = q
    BY <1>1, <1>2 DEF GetDiskSize, Quotient
  <1>4. RealSize = q - 1
    BY <1>3 DEF RealSize
  <1>5. PICK i \in Nat : i = InodeBlocks /\ (q - 1 <= 0 => i = 0) /\ (q - 1 > 0 => i <= q - 1)
    <2>1. PICK s \in Nat \ {0} : s = InodeShare
      BY VolumeAssumption
    <2>2. CASE q = 0
      <3>1. PICK r \in Int : r = RealSize /\ r = -1 /\ -r = 1
        BY <1>4, <2>2
      <3>2. 1 \div InodeShare = 0
        BY VolumeAssumption
      <3>3. InodeBlocks = 0
        BY <3>1, <3>2 DEF InodeBlocks, Quotient
      <3> QED
        BY <2>2, <3>3
    <2>3. CASE q # 0
      <3>1. q - 1 \in Nat
        BY <2>3
      <3>2. (q - 1) \div s \in Nat /\ (q - 1) \div s <= q - 1
        BY <3>1, ShareOf
      <3>3. InodeBlocks = (q - 1) \div s
        BY <1>4, <2>1, <3>1 DEF InodeBlocks, Quotient
      <3> QED
        BY <2>3, <3>2, <3>3
    <2> QED
      BY <2>2, <2>3
  <1>6. NewMB = [sealed |-> TRUE, block_size |-> size, n_blocks |-> q,
                 n_inode_blocks |-> i, n_data_blocks |-> q - 1 - i]
    BY <1>1, <1>3, <1>4, <1>5 DEF NewMB
  <1>7. Fragment(NewMB) = <<size, q, i, q - 1 - i>>
    BY <1>6 DEF Fragment
  <1>8. SuperBlock(Fragment(NewMB)) =
          [sealed |-> TRUE, block_size |-> size, n_blocks |-> q,
           n_inode_blocks |-> i, n_data_blocks |-> q - 1 - i]
    BY <1>7 DEF SuperBlock
  <1>9. q * size \in Nat /\ q * size <= len
    BY <1>2
  <1>10. i <= q
    BY <1>5
  <1> QED
    BY <1>1, <1>4, <1>5, <1>8, <1>9, <1>10

(* The places of an image that has any: all of the inodes before a data    *)
(* block that is there, and all of it or none.                             *)
LEMMA OldPlaces ==
  ASSUME ImageInv, NEW d, NEW k, <<"data", d, k>> \in PlaceSet
  PROVE  LET size == Geometry.block_size
             N    == Geometry.n_inode_blocks
         IN  /\ Formatted /\ size \in Nat \ {0} /\ N \in Nat
             /\ d \in Nat /\ k \in 0 .. size - 1
             /\ \A n \in 0 .. N - 1 : <<"inode", n, 0>> \in PlaceSet
             /\ \A n : <<"inode", n, 0>> \in PlaceSet => n \in 0 .. N - 1
             /\ <<"data", d, size - 1>> \in PlaceSet
  <1>1. /\ Formatted /\ <<"data", d, k>> \in AllPlaces
        /\ PlaceAt(<<"data", d, k>>) <= Len(file.data)
    BY DEF PlaceSet
  <1>2. /\ file.kind = "whole" /\ file.data # <<>> /\ file.data[1] \in Seq(Int)
        /\ Len(file.data[1]) = 4 /\ Len(file.data) \in Nat
    BY <1>1 DEF Formatted, ImageInv
  <1>3. d \in 0 .. Geometry.n_data_blocks - 1 /\ k \in 0 .. Geometry.block_size - 1
    BY <1>1 DEF AllPlaces
  <1>4. Geometry.sealed /\ Geometry.n_data_blocks \in Int
    BY <1>2, SuperBlockTyped DEF Geometry
  <1>5. /\ Divided(Geometry)
        /\ \/ Geometry.n_blocks * Geometry.block_size <= Len(file.data)
           \/ Len(file.data) % Geometry.block_size = 0
    BY <1>2, <1>3, <1>4 DEF ImageInv, SoundImage, Geometry
  <1>6. PICK size \in Nat \ {0}, N \in Nat, D \in Nat, all \in Nat, len \in Nat :
          /\ size = Geometry.block_size /\ N = Geometry.n_inode_blocks
          /\ D = Geometry.n_data_blocks /\ all = Geometry.n_blocks
          /\ all = 1 + N + D /\ len = Len(file.data)
    <2>1. PICK size \in Nat \ {0}, N \in Nat, D \in Nat :
            /\ size = Geometry.block_size /\ N = Geometry.n_inode_blocks
            /\ D = Geometry.n_data_blocks /\ Geometry.n_blocks = 1 + N + D
      BY <1>5 DEF Divided
    <2>2. 1 + N + D \in Nat
      OBVIOUS
    <2> QED
      BY <1>2, <2>1, <2>2
  <1>7. d \in 0 .. D - 1 /\ k \in 0 .. size - 1
    BY <1>3, <1>6
  <1>8. PICK b \in 0 .. all - 1 : b = 1 + N + d
    <2>1. PICK e \in Nat : e = d /\ e <= D - 1
      BY <1>7
    <2>2. 1 + N + e \in 0 .. all - 1
      <3>1. all = 1 + N + D
        BY <1>6
      <3>2. all - 1 = N + D /\ 1 + N + e <= N + D /\ 1 + N + e \in Nat
        BY <2>1, <3>1
      <3> QED
        BY <3>2
    <2> QED
      BY <2>1, <2>2
  <1>9. PICK at \in Nat : at = b * size /\ at + size <= all * size
    BY <1>6, <1>8, BlockEnds
  <1>10. at + size <= len
    <2>1. at + k + 1 <= len
      <3>1. PlaceAt(<<"data", d, k>>) = (1 + N + d) * size + k + 1
        BY <1>6 DEF PlaceAt
      <3> QED
        BY <1>1, <1>6, <1>8, <1>9, <3>1
    <2>2. CASE all * size <= len
      BY <1>9, <2>2
    <2>3. CASE len % size = 0
      <3>1. at + size <= len \/ len <= at
        <4>1. b \in Nat
          BY <1>8
        <4> QED
          BY <1>9, <2>3, <4>1, CutBetween
      <3> QED
        BY <1>7, <2>1, <3>1
    <2> QED
      BY <1>5, <1>6, <2>2, <2>3
  <1>11. <<"data", d, size - 1>> \in PlaceSet
    <2>1. PlaceAt(<<"data", d, size - 1>>) = (1 + N + d) * size + (size - 1) + 1
      BY <1>6 DEF PlaceAt
    <2>2. PlaceAt(<<"data", d, size - 1>>) = at + size
      BY <1>8, <1>9, <2>1
    <2>3. <<"data", d, size - 1>> \in AllPlaces
      <3>1. size - 1 \in 0 .. size - 1
        OBVIOUS
      <3>2. {"data"} \X (0 .. D - 1) \X (0 .. size - 1) \subseteq AllPlaces
        BY <1>6 DEF AllPlaces
      <3> QED
        BY <1>7, <3>1, <3>2
    <2> QED
      BY <1>1, <1>6, <1>10, <2>2, <2>3 DEF PlaceSet
  <1>12. size + N + 1 <= at + size
    <2>1. d \in Nat
      BY <1>7
    <2>2. PICK x \in Nat : x = (1 + N + d) * size /\ size + N <= x
      BY <2>1, BehindInodes
    <2>3. x = at
      BY <1>8, <1>9, <2>2
    <2> QED
      BY <2>2, <2>3
  <1>13. ASSUME NEW n \in 0 .. N - 1
         PROVE  <<"inode", n, 0>> \in PlaceSet
    <2>1. PlaceAt(<<"inode", n, 0>>) = size + n + 1
      BY <1>6 DEF PlaceAt
    <2>2. size + n + 1 <= len
      BY <1>10, <1>12
    <2>3. <<"inode", n, 0>> \in AllPlaces
      BY <1>6 DEF AllPlaces
    <2> QED
      BY <1>1, <1>6, <2>1, <2>2, <2>3 DEF PlaceSet
  <1>14. \A n : <<"inode", n, 0>> \in PlaceSet => n \in 0 .. N - 1
    BY <1>6 DEF PlaceSet, AllPlaces
  <1>15. d \in Nat
    BY <1>7
  <1> QED
    BY <1>1, <1>6, <1>7, <1>11, <1>13, <1>14, <1>15

(* The inodes that format resets are those side by side from block 1 on.   *)
LEMMA ResetPlaces ==
  ASSUME NEW size \in Nat \ {0}, size = block_size, NEW i \in Nat, i = InodeBlocks
  PROVE  \A x : x \in Reset <=> \E n \in 0 .. i - 1 : x = size + n + 1
  <1>1. ASSUME NEW n \in 0 .. i - 1
        PROVE  ((n \div block_size) + 1) * block_size + (n % block_size) + 1 = size + n + 1
    <2>1. PICK a \in Nat, c \in 0 .. size - 1 :
            a = n \div size /\ c = n % size /\ n = a * size + c
      BY DivMod
    <2>2. (a + 1) * size = a * size + size /\ a * size \in Nat
      OBVIOUS
    <2>3. (a + 1) * size + c + 1 = size + n + 1
      BY <2>1, <2>2
    <2> QED
      BY <2>1, <2>3
  <1> DEFINE A(n) == ((n \div block_size) + 1) * block_size + (n % block_size) + 1
  <1>2. \A x : x \in Reset <=> \E n \in 0 .. i - 1 : x = A(n)
    BY DEF Reset
  <1>3. \A n \in 0 .. i - 1 : A(n) = size + n + 1
    BY <1>1
  <1> HIDE DEF A
  <1>4. ASSUME NEW x \in Reset
        PROVE  \E n \in 0 .. i - 1 : x = size + n + 1
    <2>1. PICK n \in 0 .. i - 1 : x = A(n)
      BY <1>2
    <2>2. x = size + n + 1
      BY <1>3, <2>1
    <2> QED
      BY <2>2
  <1>5. ASSUME NEW n \in 0 .. i - 1
        PROVE  size + n + 1 \in Reset
    <2>1. A(n) \in Reset
      BY <1>2
    <2> QED
      BY <1>3, <2>1
  <1> QED
    BY <1>4, <1>5

LEMMA NotFormatted ==
  ASSUME ~Formatted'
  PROVE  DOMAIN Places' = {}
  BY DEF Places, PlaceSet

LEMMA FormatDevice ==
  ASSUME VolumeInv, Format, disk_img = "good", Len(file.data) < Int32
  PROVE  Device!Format
  <1>1. call'.op = "format" /\ call'.how \in {"ok", "threw"}
    BY DEF Format, Ends, Idle
  <1> DEFINE Cleared == \A p \in DOMAIN Places' :
                \/ p[1] = "inode" /\ Places'[p] = <<0>>
                \/ p[1] = "data" /\ (DOMAIN Places' = DOMAIN Places =>
                                       Places'[p] = Places[p])
  <1>2. Cleared => Device!Format
    BY <1>1 DEF Device!Format, Device!Ended
  <1>3. block_size \in Nat \ {0} /\ disk_img_size = Len(file.data) /\ Len(file.data) \in Nat
    <2>1. Len(file.data) \in Nat
      BY DEF VolumeInv, ImageInv
    <2> QED
      BY <2>1, SizeIsLength DEF Format, VolumeInv, ImageInv
  <1>4. CASE file.data = <<>>
    <2>1. IsImage(file') /\ Len(file'.data) = 0
      BY <1>3, <1>4, FormatImage DEF VolumeInv, SizeInv
    <2>2. file'.data = <<>>
      BY <2>1 DEF IsImage
    <2>3. ~Formatted'
      BY <2>2 DEF Formatted
    <2> QED
      BY <1>2, <2>3, NotFormatted
  <1>5. CASE file.data # <<>>
    <2>1. /\ file'.kind = "whole" /\ Len(file'.data) = Len(file.data)
          /\ file'.data[1] = Fragment(NewMB)
          /\ \A k \in 2 .. Len(file.data) :
               file'.data[k] = IF k \in Reset /\ ~FormatThrows THEN <<0>> ELSE file.data[k]
      BY <1>5, FormatSeals
    <2>2. PICK size \in Nat \ {0}, len \in Nat :
            size = block_size /\ len = Len(file.data) /\ len = disk_img_size
      BY <1>3
    <2>3. PICK q \in Nat, i \in Nat :
            /\ q * size \in Nat /\ q * size <= len
            /\ i = InodeBlocks /\ RealSize = q - 1 /\ i <= q
            /\ RealSize <= 0 => i = 0
            /\ RealSize > 0 => i <= q - 1
            /\ SuperBlock(Fragment(NewMB)) =
                 [sealed |-> TRUE, block_size |-> size, n_blocks |-> q,
                  n_inode_blocks |-> i, n_data_blocks |-> q - 1 - i]
      BY <1>3, <2>2, SealGeometry
    <2>4. /\ Geometry'.block_size = size /\ Geometry'.n_inode_blocks = i
          /\ Geometry'.n_data_blocks = q - 1 - i
      BY <2>1, <2>3 DEF Geometry
    <2>5. AllPlaces' = ({"inode"} \X (0 .. i - 1) \X {0}) \cup
                       ({"data"} \X (0 .. (q - 1 - i) - 1) \X (0 .. size - 1))
      BY <2>4 DEF AllPlaces
    <2>6. \A x : x \in Reset <=> \E n \in 0 .. i - 1 : x = size + n + 1
      BY <2>2, <2>3, ResetPlaces
    <2>7. /\ DOMAIN Places' = PlaceSet'
          /\ \A p \in PlaceSet' : /\ p \in AllPlaces' /\ PlaceAt(p)' <= len
                                  /\ Places'[p] = file'.data[PlaceAt(p)']
      BY <2>1, <2>2 DEF Places, PlaceSet
    <2>8. ASSUME NEW n \in 0 .. i - 1, <<"inode", n, 0>> \in PlaceSet'
          PROVE  Places'[<<"inode", n, 0>>] = <<0>>
      <3>1. PlaceAt(<<"inode", n, 0>>)' = size + n + 1
        BY <2>4 DEF PlaceAt
      <3>2. size + n + 1 \in 2 .. len /\ size + n + 1 \in Reset
        <4>1. size + n + 1 <= len
          BY <2>7, <2>8, <3>1
        <4>2. size + n + 1 \in Reset
          BY <2>6
        <4>3. size + n + 1 \in Nat /\ 2 <= size + n + 1
          BY <2>2, <2>3
        <4> QED
          BY <2>2, <4>1, <4>2, <4>3
      <3>3. ~FormatThrows
        <4>1. ~(RealSize <= 0)
          BY <2>3
        <4> QED
          BY <4>1 DEF FormatThrows
      <3>4. file'.data[size + n + 1] = <<0>>
        BY <2>1, <2>2, <3>2, <3>3
      <3> QED
        BY <2>7, <2>8, <3>1, <3>4
    <2>9. ASSUME NEW d \in 0 .. (q - 1 - i) - 1, NEW k \in 0 .. size - 1,
                 <<"data", d, k>> \in PlaceSet', PlaceSet' = PlaceSet
          PROVE  Places'[<<"data", d, k>>] = Places[<<"data", d, k>>]
      <3>1. PICK e \in Nat : e = d /\ 1 + i + e \in 0 .. q - 1
        <4>1. d \in Nat /\ 1 + i + d <= q - 1
          BY <2>9
        <4> QED
          BY <4>1
      <3>2. PICK base \in Nat : /\ base = (1 + i + e) * size /\ size + i <= base
                                /\ base + size <= len
        <4>1. PICK b \in 0 .. q - 1 : b = 1 + i + e
          BY <3>1
        <4>2. (1 + i + e) * size \in Nat /\ size + i <= (1 + i + e) * size
          BY BehindInodes
        <4>3. b * size + size <= q * size
          BY <4>1, BlockEnds
        <4>4. b * size = (1 + i + e) * size
          BY <4>1
        <4>5. PICK base \in Nat : base = (1 + i + e) * size /\ size + i <= base
          BY <4>2
        <4>6. PICK all \in Nat : all = q * size /\ all <= len
          BY <2>3
        <4>7. base + size <= all
          BY <4>3, <4>4, <4>5, <4>6
        <4>8. base + size <= len
          BY <4>6, <4>7
        <4> QED
          BY <4>5, <4>8
      <3>3. Formatted'
        BY <2>9 DEF PlaceSet
      <3>4. <<"data", d, size - 1>> \in PlaceSet
        <4>1. PlaceAt(<<"data", d, size - 1>>)' = (1 + i + e) * size + (size - 1) + 1
          BY <2>4, <3>1 DEF PlaceAt
        <4>2. PlaceAt(<<"data", d, size - 1>>)' <= len
          BY <3>2, <4>1
        <4>3. size - 1 \in 0 .. size - 1
          OBVIOUS
        <4>4. <<"data", d, size - 1>> \in AllPlaces'
          BY <2>5, <2>9, <4>3
        <4> QED
          BY <2>1, <2>2, <2>9, <3>3, <4>2, <4>4 DEF PlaceSet
      <3>5. \A n \in 0 .. i - 1 : <<"inode", n, 0>> \in PlaceSet
        <4> SUFFICES ASSUME NEW n \in 0 .. i - 1
                     PROVE  <<"inode", n, 0>> \in PlaceSet
          OBVIOUS
        <4>1. PlaceAt(<<"inode", n, 0>>)' = size + n + 1
          BY <2>4 DEF PlaceAt
        <4>2. PlaceAt(<<"inode", n, 0>>)' <= len
          BY <3>2, <4>1
        <4>3. <<"inode", n, 0>> \in AllPlaces'
          BY <2>5
        <4> QED
          BY <2>1, <2>2, <2>9, <3>3, <4>2, <4>3 DEF PlaceSet
      <3>6. PICK osize \in Nat \ {0}, N \in Nat :
              /\ osize = Geometry.block_size /\ N = Geometry.n_inode_blocks
              /\ size - 1 \in 0 .. osize - 1
              /\ \A n \in 0 .. N - 1 : <<"inode", n, 0>> \in PlaceSet
              /\ \A n : <<"inode", n, 0>> \in PlaceSet => n \in 0 .. N - 1
              /\ <<"data", d, osize - 1>> \in PlaceSet
        BY <3>4, OldPlaces DEF VolumeInv
      <3>7. osize = size
        <4>1. osize - 1 \in 0 .. size - 1
          BY <2>5, <2>7, <2>9, <3>6
        <4> QED
          BY <3>6, <4>1
      <3>8. N = i
        <4>1. \A n \in 0 .. N - 1 : n \in 0 .. i - 1
          BY <2>5, <2>7, <2>9, <3>6
        <4>2. \A n \in 0 .. i - 1 : n \in 0 .. N - 1
          BY <3>5, <3>6
        <4>3. N <= i
          <5> SUFFICES ASSUME i < N PROVE FALSE
            OBVIOUS
          <5>1. i \in 0 .. N - 1
            OBVIOUS
          <5> QED
            BY <4>1, <5>1
        <4>4. i <= N
          <5> SUFFICES ASSUME N < i PROVE FALSE
            OBVIOUS
          <5>1. N \in 0 .. i - 1
            OBVIOUS
          <5> QED
            BY <4>2, <5>1
        <4> QED
          BY <4>3, <4>4
      <3>9. /\ PlaceAt(<<"data", d, k>>) = (1 + i + e) * size + k + 1
            /\ PlaceAt(<<"data", d, k>>)' = (1 + i + e) * size + k + 1
        BY <2>4, <3>1, <3>6, <3>7, <3>8 DEF PlaceAt
      <3>10. PICK x \in Nat : /\ x = base + k + 1 /\ x <= len /\ x \in 2 .. len
                              /\ x \notin Reset
        <4>1. k \in Nat /\ base + k + 1 <= len /\ base + k + 1 > size + i
          BY <3>2
        <4>2. base + k + 1 \in 2 .. len
          BY <4>1
        <4>3. \A n \in 0 .. i - 1 : size + n + 1 # base + k + 1
          BY <4>1
        <4> QED
          BY <2>6, <4>1, <4>2, <4>3
      <3>11. PlaceAt(<<"data", d, k>>) = x /\ PlaceAt(<<"data", d, k>>)' = x
        BY <3>2, <3>9, <3>10
      <3>12. file'.data[x] = file.data[x]
        BY <2>1, <2>2, <3>10
      <3>13. Places'[<<"data", d, k>>] = file'.data[x]
        BY <2>7, <2>9, <3>11
      <3>14. Places[<<"data", d, k>>] = file.data[x]
        BY <2>9, <3>11, PlacesMap
      <3> QED
        BY <3>12, <3>13, <3>14
    <2> QED
      BY <1>2, <2>5, <2>7, <2>8, <2>9, PlacesMap
  <1> QED
    BY <1>4, <1>5

LEMMA CreateDevice ==
  ASSUME NEW n \in Nat, NEW b \in Nat, Create(n, b)
  PROVE  Device!Create
  <1>1. PICK size \in -Int32 .. Int32 - 1 : size = Wrap(b * n)
    <2>1. b * n \in Int
      OBVIOUS
    <2> QED
      BY <2>1, WrapBounds
  <1>2. file'.data = IF size > 0 THEN Zeros(size) ELSE <<>>
    BY <1>1 DEF Create, CreateImage, Whole
  <1>3. ~Formatted'
    <2>1. CASE size > 0
      <3>1. 1 \in 1 .. size
        BY <1>1, <2>1, DiskAssumption
      <3>2. file'.data[1] = <<0>>
        BY <1>2, <2>1, <3>1 DEF Zeros
      <3> QED
        BY <3>2, Zero DEF Formatted
    <2>2. CASE ~(size > 0)
      BY <1>2, <2>2 DEF Formatted
    <2> QED
      BY <2>1, <2>2
  <1>4. call'.op = "create"
    BY DEF Create, Ends, Idle
  <1> QED
    BY <1>3, <1>4, NotFormatted DEF Device!Create

LEMMA OtherDevice ==
  ASSUME \/ (\E b \in BlockSizes : MakeDisk(b)) \/ DropDisk
         \/ \E n \in RawBlocks : RawRead(n)
         \/ Construct \/ Destroy \/ Unmount
         \/ MountNoSuperBlock \/ MountNoInodes \/ MountScan
  PROVE  Device!Other
  <1>1. UNCHANGED file
    BY DEF MakeDisk, NewDisk, DropDisk, DeleteDisk, RawRead, Construct, Destroy,
           Unmount, MountNoSuperBlock, MountNoInodes, MountScan
  <1>2. call'.op \in {"disk", "drop", "raw", "construct", "destroy", "unmount", "mount"}
    BY DEF MakeDisk, DropDisk, RawRead, Construct, Destroy, Unmount,
           MountNoSuperBlock, MountNoInodes, MountScan, Ends, Idle
  <1> QED
    BY <1>1, <1>2, SameFile DEF Device!Other

LEMMA TransferGood ==
  ASSUME Careful, NEW op \in {"read", "write"}, NEW kind, NEW n, NEW at, NEW data,
         NEW b, Transfer(op, kind, n, at, data, b)
  PROVE  disk_img = "good"
  <1>1. call'.op = op
    BY DEF Transfer, BlockRead, BlockWrite, Refuses, Nothing, Fails, Threw
  <1> QED
    BY <1>1 DEF Careful

LEMMA StepDevice ==
  ASSUME VolumeInv, [Next /\ Careful]_vars
  PROVE  [Device!DeviceNext]_<<Places, Width, call>>
  <1> USE DEF Device!DeviceNext
  <1>1. CASE \/ (\E b \in BlockSizes : MakeDisk(b)) \/ DropDisk
             \/ \E n \in RawBlocks : RawRead(n)
             \/ Construct \/ Destroy \/ Unmount
             \/ MountNoSuperBlock \/ MountNoInodes \/ MountScan
    BY <1>1, OtherDevice
  <1>2. CASE \E f \in {file} \cup InitialFiles : Open(f)
    BY <1>2 DEF Open, Ends, Idle, Device!Open
  <1>3. CASE \E image \in NewImages : Create(image[1], image[2])
    BY <1>3, VolumeAssumption, CreateDevice
  <1>4. CASE Format /\ Careful
    <2>1. disk_img = "good" /\ Len(file.data) < Int32
      BY <1>4 DEF Careful, Format, Ends, Idle
    <2> QED
      BY <1>4, <2>1, FormatDevice
  <1>5. ASSUME Careful, NEW op \in {"read", "write"}, NEW n \in Numbers,
               NEW v \in Values, TransferInode(op, n, v)
        PROVE  Device!Read \/ Device!Write \/ Device!Refuse
    <2>1. fs.ready /\ n \in Int /\ <<v>> \in Seq(Seq(Int)) /\ Len(<<v>>) = 1 /\ 0 \in Int
      BY <1>5, VolumeAssumption DEF TransferInode, Transfer
    <2>2. PICK size \in Nat \ {0} : size = MB.block_size
      BY <2>1, Geometric
    <2>3. n \div size \in Int
      BY <2>1
    <2>4. InodeBlockN(n) \in Int
      BY <2>2, <2>3 DEF InodeBlockN, NInodesInBlock
    <2>5. disk_img = "good"
      BY <1>5, <2>1, TransferGood DEF TransferInode
    <2> QED
      BY <1>5, <2>1, <2>4, <2>5, TransferDevice DEF TransferInode
  <1>6. ASSUME Careful, NEW op \in {"read", "write"}, NEW n \in Numbers,
               NEW at \in Offsets, NEW data \in Data, TransferData(op, n, at, data)
        PROVE  Device!Read \/ Device!Write \/ Device!Refuse
    <2>1. fs.ready /\ n \in Int /\ data \in Seq(Seq(Int)) /\ at \in Int
      BY <1>6, VolumeAssumption DEF TransferData, Transfer
    <2>2. DataBlockN(n) \in Int
      BY <2>1, Geometric DEF DataBlockN
    <2>3. disk_img = "good"
      BY <1>6, <2>1, TransferGood DEF TransferData
    <2> QED
      BY <1>6, <2>1, <2>2, <2>3, TransferDevice DEF TransferData
  <1>7. CASE UNCHANGED vars
    <2>1. UNCHANGED file /\ UNCHANGED call
      BY <1>7 DEF vars, diskVars
    <2> QED
      BY <2>1, SameFile
  <1> QED
    BY <1>1, <1>2, <1>3, <1>4, <1>5, <1>6, <1>7 DEF Next

(* An inode or a part of a data block reads as it was last written, and no *)
(* write changes another one: for all block sizes, images, offsets and     *)
(* lengths, whatever was cached, mounted, opened or formatted before.      *)
THEOREM VolumeIsADevice == Spec => ImplementsDevice
  <1>1. VolumeInv /\ [Next /\ Careful]_vars => [Device!DeviceNext]_<<Places, Width, call>>
    BY StepDevice
  <1> QED
    BY <1>1, SpecVolume, PTL DEF Spec, ImplementsDevice, Device!DeviceSpec
=============================================================================
