------------------------------ MODULE TfsProofs ------------------------------
(***************************************************************************)
(* Theorems about Tfs for tables of any size, any names and any clients:   *)
(* the inode table, the free blocks and the directory stay together.  With *)
(* careful clients no block is lost, no handle leaves its file, and the    *)
(* tables are a store of named files (FileStore).                          *)
(***************************************************************************)
EXTENDS Tfs, SequenceTheorems, TLAPS

(* The inode of the root directory is never given back.                    *)
RootKept == Root \in inodes

(* No client gets a handle of the root directory.                          *)
HandlesOffRoot == \A h \in open : oft[h].inum \in Inum \ {Root}

(* An entry that was never used and happens to hold a name lies behind     *)
(* every entry in use: entries are taken from the front and lose their     *)
(* name when they are cleared.  Why clear_dir_entry, which does not look   *)
(* whether an entry is in use, finds the one that is.                      *)
ErasedNames ==
    \A e \in Entry, f \in InUse :
        dir[e].inum = -1 /\ dir[e].name # Garbage => f < e

(* The inductive invariant, whatever clients do.                           *)
TfsInv == /\ TypeOK
          /\ BlocksOwned
          /\ DirMatchesInodes
          /\ RootKept
          /\ HandlesOffRoot
          /\ ErasedNames

-------------------------------------------------------------------------------
(* What a caller may write is a sequence of bytes.                         *)
LEMMA BufferIsSeq ==
    \A bytes \in Buffer : bytes \in Seq(Byte) /\ Len(bytes) \in 0 .. MaxLen
<1>1. SUFFICES ASSUME NEW k \in 0 .. MaxLen, NEW bytes \in [1 .. k -> Byte]
               PROVE  bytes \in Seq(Byte) /\ Len(bytes) \in 0 .. MaxLen
  BY DEF Buffer
<1>2. k \in Nat
  BY TfsAssumption
<1>3. bytes \in Seq(Byte) /\ Len(bytes) = k
  BY <1>2
<1> QED
  BY <1>3

(* find_in_dir: a name that is found has one entry in use, and the inode   *)
(* of that entry exists and is not the root.                               *)
LEMMA LookupEntry ==
    ASSUME DirMatchesInodes, NEW n, Found(n)
    PROVE  \E e \in InUse : /\ dir[e].name = n
                            /\ dir[e].inum = Lookup(n)
                            /\ Lookup(n) \in inodes \ {Root}
<1>1. PICK e \in HasName(n) : TRUE
  BY DEF Found
<1>2. e \in InUse /\ dir[e].name = n /\ e \in Entry
  BY <1>1 DEF HasName, InUse
<1>3. \A f \in HasName(n) : f = e
  BY <1>1, <1>2 DEF HasName, DirMatchesInodes
<1>4. \A f \in HasName(n) : e <= f
  BY <1>2, <1>3, TfsAssumption DEF Entry
<1>5. (CHOOSE i \in HasName(n) : \A j \in HasName(n) : i <= j) = e
  BY <1>1, <1>3, <1>4
<1>6. Lookup(n) = dir[e].inum
  BY <1>5 DEF Lookup
<1>7. dir[e].inum \in inodes \ {Root}
  BY <1>2 DEF DirMatchesInodes
<1> QED
  BY <1>2, <1>6, <1>7

(* What an open does to the handles when the inode it is for exists.       *)
LEMMA HandleTaken ==
    ASSUME TypeOK, NEW i \in Inum, NEW offset \in 0 .. BlockSize,
           TakeHandle(i, offset)
    PROVE  /\ open' \subseteq Handle /\ open \subseteq open'
           /\ oft' \in [Handle -> [inum : Inum \cup {-1}, off : 0 .. MaxOffset]]
           /\ \A h \in open' : \/ h \in open /\ oft'[h] = oft[h]
                               \/ oft'[h] = [inum |-> i, off |-> offset]
<1>1. /\ open \subseteq Handle
      /\ oft \in [Handle -> [inum : Inum \cup {-1}, off : 0 .. MaxOffset]]
      /\ offset \in 0 .. MaxOffset
  BY TfsAssumption DEF TypeOK
<1>2. CASE open = Handle /\ UNCHANGED <<open, oft>>
  BY <1>1, <1>2
<1>3. CASE \E h \in Handle :
              /\ IsFirstFree(h, Handle, open)
              /\ open' = open \cup {h}
              /\ oft' = [oft EXCEPT ![h] = [inum |-> i, off |-> offset]]
  BY <1>1, <1>3
<1> QED
  BY <1>2, <1>3 DEF TakeHandle

LEMMA DivMod ==
    ASSUME NEW n \in Nat \ {0}, NEW k \in Nat
    PROVE  /\ k % n \in 0 .. n - 1
           /\ k \in 0 .. n - 1 => k \div n = 0 /\ k % n = k
OBVIOUS

(* What a copy finds behind the beginning of a block is a byte, and as far *)
(* as the block goes it is that of the block.                              *)
LEMMA ByteFound ==
    ASSUME TypeOK, NEW b \in Block, NEW k \in Nat
    PROVE  /\ ByteAt(b, k) \in Byte \cup {Garbage}
           /\ k \in Cell => ByteAt(b, k) = data[b][k]
<1>1. /\ k % BlockSize \in Cell
      /\ k \in Cell => k \div BlockSize = 0 /\ k % BlockSize = k
  BY DivMod, TfsAssumption DEF Cell
<1>2. b + 0 = b
  BY TfsAssumption DEF Block
<1>3. ASSUME NEW c \in Block PROVE data[c][k % BlockSize] \in Byte \cup {Garbage}
  BY <1>1 DEF TypeOK
<1> QED
  BY <1>1, <1>2, <1>3 DEF ByteAt

(* A handle that writes stands in the block.                               *)
LEMMA WriterInBlock ==
    ASSUME NEW len \in Nat, NEW off \in Nat, ToWrite(len, off) > 0
    PROVE  off \in 0 .. BlockSize
BY TfsAssumption DEF ToWrite

(* What a write takes fits into the block.                                 *)
LEMMA WriteFits ==
    ASSUME NEW len \in Nat, NEW off \in 0 .. BlockSize
    PROVE  /\ ToWrite(len, off) \in Nat
           /\ ToWrite(len, off) <= len
           /\ off + ToWrite(len, off) \in 0 .. BlockSize
BY TfsAssumption DEF ToWrite

(* What a read copies is a number of bytes, no more than was asked for.    *)
LEMMA ReadFits ==
    ASSUME TypeOK, HandlesOffRoot, NEW h \in open, NEW len \in 0 .. MaxLen
    PROVE  ToRead(h, len) \in 0 .. len
<1>1. /\ oft[h].inum \in Inum
      /\ oft[h].off \in 0 .. MaxOffset
      /\ i_size[oft[h].inum] \in 0 .. BlockSize
  BY DEF TypeOK, HandlesOffRoot
<1> QED
  BY <1>1, TfsAssumption DEF ToRead

-------------------------------------------------------------------------------
(* Parts of the invariant that steps leave alone.                          *)

LEMMA DirUntouched ==
    ASSUME DirMatchesInodes, RootKept, ErasedNames, UNCHANGED <<inodes, dir>>
    PROVE  DirMatchesInodes' /\ RootKept' /\ ErasedNames'
BY DEF DirMatchesInodes, RootKept, ErasedNames, InUse

LEMMA BlocksUntouched ==
    ASSUME BlocksOwned, UNCHANGED <<inodes, i_size, i_block, blocks>>
    PROVE  BlocksOwned'
BY DEF BlocksOwned

LEMMA HandlesUntouched ==
    ASSUME HandlesOffRoot, open' \subseteq open,
           \A h \in open : oft'[h].inum = oft[h].inum
    PROVE  HandlesOffRoot'
BY DEF HandlesOffRoot

(* An inode that exists loses its block and its content, and nobody else.  *)
LEMMA InodeCut ==
    ASSUME TypeOK, BlocksOwned, NEW i \in inodes,
           i_size' \in [Inum -> 0 .. BlockSize],
           \A j \in inodes' \ {i} : j \in inodes /\ i_size'[j] = i_size[j],
           i \in inodes' => i_size'[i] = 0,
           blocks' = IF i_size[i] > 0 THEN blocks \ {i_block[i]} ELSE blocks,
           UNCHANGED i_block
    PROVE  BlocksOwned'
<1>1. \A j, k \in inodes' : i_size'[j] > 0 /\ i_size'[k] > 0 /\ j # k =>
          i_block'[j] # i_block'[k]
  BY DEF BlocksOwned
<1>2. \A j \in inodes' : i_size'[j] > 0 => i_block'[j] \in blocks'
  BY DEF BlocksOwned
<1> QED
  BY <1>1, <1>2 DEF BlocksOwned

-------------------------------------------------------------------------------
(* Every operation keeps the invariant.                                    *)

LEMMA InitInv == Init => TfsInv
<1> SUFFICES ASSUME Init PROVE TfsInv
  OBVIOUS
<1> USE TfsAssumption DEF Init
<1>1. TypeOK
  <2>1. Root \in Inum /\ 0 \in Block
    BY DEF Root, Inum, Block
  <2>2. PICK names \in [Entry -> Name \cup {Garbage}] :
            dir = [i \in Entry |-> [inum |-> -1, name |-> names[i]]]
    OBVIOUS
  <2>3. dir \in [Entry -> [inum : Inum \cup {-1}, name : Name \cup {Garbage}]]
    BY <2>2
  <2> QED
    BY <2>1, <2>3 DEF TypeOK
<1>2. InUse = {}
  BY DEF InUse
<1>3. BlocksOwned
  <2>1. \A i \in inodes : i = Root /\ i_block[i] = 0 /\ i_block[i] \in blocks
    BY DEF Root, Inum
  <2> QED
    BY <2>1 DEF BlocksOwned
<1>4. DirMatchesInodes
  BY <1>2 DEF DirMatchesInodes
<1>5. RootKept /\ HandlesOffRoot
  BY DEF RootKept, HandlesOffRoot
<1>6. ErasedNames
  BY <1>2 DEF ErasedNames
<1> QED
  BY <1>1, <1>3, <1>4, <1>5, <1>6 DEF TfsInv

LEMMA OpenExistingInv ==
    ASSUME TfsInv, NEW n \in AnyName, NEW mode \in Mode, OpenExisting(n, mode)
    PROVE  TfsInv'
<1> DEFINE i == Lookup(n)
           offset == IF "append" \in mode THEN i_size'[i] ELSE 0
<1>1. TypeOK /\ BlocksOwned /\ DirMatchesInodes /\ RootKept /\ ErasedNames
  BY DEF TfsInv
<1>2. i \in inodes \ {Root} /\ i \in Inum
  BY <1>1, LookupEntry DEF OpenExisting, TypeOK
<1>3. /\ i_size' \in [Inum -> 0 .. BlockSize]
      /\ \A j \in Inum \ {i} : i_size'[j] = i_size[j]
      /\ UNCHANGED <<inodes, i_block, data, dir>>
      /\ TakeHandle(i, offset)
      /\ got' = <<>> /\ UNCHANGED <<leaked, status>>
  BY <1>1, <1>2, TfsAssumption DEF OpenExisting, TypeOK, SizeOnTrunc, Returns
<1>4. \/ /\ blocks' = IF i_size[i] > 0 THEN blocks \ {i_block[i]} ELSE blocks
         /\ i_size'[i] = 0
      \/ UNCHANGED <<blocks, i_size>>
  BY <1>1, <1>2 DEF OpenExisting, TypeOK, SizeOnTrunc
<1>5. offset \in 0 .. BlockSize
  BY <1>2, <1>3, TfsAssumption
<1>6. /\ open' \subseteq Handle /\ open \subseteq open'
      /\ oft' \in [Handle -> [inum : Inum \cup {-1}, off : 0 .. MaxOffset]]
      /\ \A h \in open' : \/ h \in open /\ oft'[h] = oft[h]
                          \/ oft'[h] = [inum |-> i, off |-> offset]
  BY <1>1, <1>2, <1>3, <1>5, HandleTaken
<1>7. TypeOK'
  BY <1>1, <1>3, <1>4, <1>6 DEF TypeOK
<1>8. BlocksOwned'
  <2>1. CASE UNCHANGED <<blocks, i_size>>
    BY <1>1, <1>3, <2>1, BlocksUntouched
  <2>2. CASE /\ blocks' = IF i_size[i] > 0 THEN blocks \ {i_block[i]} ELSE blocks
             /\ i_size'[i] = 0
    <3>1. \A j \in inodes' \ {i} : j \in inodes /\ i_size'[j] = i_size[j]
      BY <1>1, <1>3 DEF TypeOK
    <3> QED
      BY <1>1, <1>2, <1>3, <2>2, <3>1, InodeCut
  <2> QED
    BY <1>4, <2>1, <2>2
<1>9. HandlesOffRoot'
  BY <1>2, <1>6 DEF TfsInv, HandlesOffRoot
<1> QED
  BY <1>1, <1>3, <1>7, <1>8, <1>9, DirUntouched DEF TfsInv

(* The inode and the entry of a new file.                                  *)
LEMMA OpenCreatesInv ==
    ASSUME TfsInv, NEW n \in AnyName, NEW mode \in Mode, OpenCreates(n, mode)
    PROVE  TfsInv'
<1> USE TfsAssumption
<1>1. TypeOK /\ BlocksOwned /\ DirMatchesInodes /\ RootKept /\ ErasedNames
  BY DEF TfsInv
<1>2. PICK i \in Inum, e \in Entry :
          /\ ~Found(n) /\ n \in Name
          /\ IsFirstFree(i, Inum, inodes)
          /\ IsFirstFree(e, Entry, InUse)
          /\ inodes' = inodes \cup {i}
          /\ i_size' = [i_size EXCEPT ![i] = 0]
          /\ i_block' = [i_block EXCEPT ![i] = -1]
          /\ dir' = [dir EXCEPT ![e] = [inum |-> i, name |-> n]]
          /\ TakeHandle(i, 0)
          /\ got' = <<>>
          /\ UNCHANGED <<blocks, data, leaked, status>>
  BY DEF OpenCreates, Returns
<1>3. /\ i \notin inodes /\ i # Root
      /\ e \notin InUse /\ \A f \in Entry \ InUse : e <= f
  BY <1>1, <1>2 DEF IsFirstFree, RootKept
<1>4. 0 \in 0 .. BlockSize
  OBVIOUS
<1>5. /\ open' \subseteq Handle /\ open \subseteq open'
      /\ oft' \in [Handle -> [inum : Inum \cup {-1}, off : 0 .. MaxOffset]]
      /\ \A h \in open' : \/ h \in open /\ oft'[h] = oft[h]
                          \/ oft'[h] = [inum |-> i, off |-> 0]
  BY <1>1, <1>2, <1>4, HandleTaken
<1>6. TypeOK'
  <2>1. /\ i_size' \in [Inum -> 0 .. BlockSize]
        /\ i_block' \in [Inum -> Block \cup {-1}]
        /\ inodes' \subseteq Inum
    BY <1>1, <1>2, <1>4 DEF TypeOK
  <2>2. dir' \in [Entry -> [inum : Inum \cup {-1}, name : Name \cup {Garbage}]]
    BY <1>1, <1>2 DEF TypeOK
  <2>3. /\ blocks' \subseteq Block
        /\ data' \in [Block -> [Cell -> Byte \cup {Garbage}]]
        /\ status' \in {"running", "aborted", "crashed"}
        /\ leaked' \subseteq open'
    BY <1>1, <1>2, <1>5 DEF TypeOK
  <2>4. got' \in Seq(Byte \cup {Garbage})
    BY <1>2
  <2> QED
    BY <1>5, <2>1, <2>2, <2>3, <2>4 DEF TypeOK
<1>7. BlocksOwned'
  BY <1>1, <1>2, <1>3 DEF BlocksOwned, TypeOK
<1>8. /\ dir'[e] = [inum |-> i, name |-> n]
      /\ \A f \in Entry \ {e} : dir'[f] = dir[f]
  BY <1>1, <1>2 DEF TypeOK
<1>9. i # -1
  BY DEF Inum
<1>10. InUse' = InUse \cup {e}
  BY <1>2, <1>8, <1>9 DEF InUse
<1>11. DirMatchesInodes'
  <2>1. \A f \in InUse : f \in Entry \ {e} /\ dir'[f] = dir[f]
    BY <1>3, <1>8 DEF InUse
  <2>2. {dir'[f].inum : f \in InUse'} = {dir[f].inum : f \in InUse} \cup {i}
    BY <1>8, <1>10, <2>1
  <2>3. {dir'[f].inum : f \in InUse'} = inodes' \ {Root}
    BY <1>1, <1>2, <1>3, <2>2 DEF DirMatchesInodes
  <2>4. \A f \in InUse : dir[f].inum # i /\ dir[f].name # n
    BY <1>1, <1>2, <1>3 DEF DirMatchesInodes, Found, HasName
  <2>5. \A f, g \in InUse' : f # g => /\ dir'[f].inum # dir'[g].inum
                                     /\ dir'[f].name # dir'[g].name
    BY <1>1, <1>8, <1>10, <2>1, <2>4 DEF DirMatchesInodes
  <2> QED
    BY <2>3, <2>5 DEF DirMatchesInodes
<1>12. RootKept'
  BY <1>1, <1>2 DEF RootKept
<1>13. HandlesOffRoot'
  BY <1>2, <1>3, <1>5 DEF TfsInv, HandlesOffRoot
<1>14. ErasedNames'
  <2>1. SUFFICES ASSUME NEW g \in Entry, NEW f \in InUse',
                        dir'[g].inum = -1, dir'[g].name # Garbage
                 PROVE  f < g
    BY DEF ErasedNames
  <2>2. g # e /\ dir[g] = dir'[g] /\ g \notin InUse
    BY <1>8, <1>9, <2>1 DEF InUse
  <2>3. CASE f = e
    BY <1>3, <2>2, <2>3 DEF Entry
  <2>4. CASE f \in InUse
    BY <1>1, <2>1, <2>2, <2>4 DEF ErasedNames
  <2> QED
    BY <1>10, <2>1, <2>3, <2>4
<1> QED
  BY <1>6, <1>7, <1>11, <1>12, <1>13, <1>14 DEF TfsInv

(* The inode that is taken and given back was not one of a file.           *)
LEMMA OpenCannotCreateInv ==
    ASSUME TfsInv, NEW n \in AnyName, NEW mode \in Mode, OpenCannotCreate(n, mode)
    PROVE  TfsInv'
<1>1. TypeOK /\ BlocksOwned /\ DirMatchesInodes /\ RootKept /\ ErasedNames
  BY DEF TfsInv
<1>2. PICK i \in Inum :
          /\ i \notin inodes
          /\ i_size' = [i_size EXCEPT ![i] = 0]
          /\ i_block' = [i_block EXCEPT ![i] = -1]
          /\ got' = <<>>
          /\ UNCHANGED <<inodes, blocks, data, dir, open, leaked, oft, status>>
  BY DEF OpenCannotCreate, Returns, IsFirstFree
<1>3. TypeOK'
  <2>1. /\ i_size' \in [Inum -> 0 .. BlockSize]
        /\ i_block' \in [Inum -> Block \cup {-1}]
    BY <1>1, <1>2, TfsAssumption DEF TypeOK
  <2>2. got' \in Seq(Byte \cup {Garbage})
    BY <1>2
  <2> QED
    BY <1>1, <1>2, <2>1, <2>2 DEF TypeOK
<1>4. BlocksOwned'
  BY <1>1, <1>2 DEF BlocksOwned, TypeOK
<1>5. HandlesOffRoot'
  BY <1>2 DEF TfsInv, HandlesOffRoot
<1> QED
  BY <1>1, <1>2, <1>3, <1>4, <1>5, DirUntouched DEF TfsInv

(* Calls that change nothing but handles, results and the process.         *)
LEMMA QuietInv ==
    ASSUME TfsInv, UNCHANGED <<inodes, i_size, i_block, blocks, data, dir>>,
           open' \subseteq open, leaked' \subseteq open',
           oft' \in [Handle -> [inum : Inum \cup {-1}, off : 0 .. MaxOffset]],
           \A h \in open : oft'[h].inum = oft[h].inum,
           got' \in Seq(Byte \cup {Garbage}),
           status' \in {"running", "aborted", "crashed"}
    PROVE  TfsInv'
<1>1. TypeOK /\ BlocksOwned /\ DirMatchesInodes /\ RootKept /\ ErasedNames
      /\ HandlesOffRoot
  BY DEF TfsInv
<1>2. TypeOK'
  BY <1>1 DEF TypeOK
<1> QED
  BY <1>1, <1>2, DirUntouched, BlocksUntouched, HandlesUntouched DEF TfsInv

LEMMA QuietCallsInv ==
    ASSUME TfsInv,
           \/ \E n, mode : OpenFails(n, mode)
           \/ \E h : \/ Close(h) \/ Leak(h)
                     \/ \E bytes : WriteDoesNothing(h, bytes) \/ WriteCrashes(h, bytes)
                     \/ \E len : ReadAborts(h, len) \/ ReadCrashes(h, len)
    PROVE  TfsInv'
<1>1. /\ UNCHANGED <<inodes, i_size, i_block, blocks, data, dir, oft>>
      /\ open' \subseteq open /\ leaked' \subseteq open'
      /\ got' = <<>>
      /\ status' \in {status, "aborted", "crashed"}
  BY DEF OpenFails, Close, Leak, WriteDoesNothing, WriteCrashes, ReadAborts,
         ReadCrashes, Returns, Ends, Abort, Crash, InHand, TfsInv, TypeOK
<1>2. got' \in Seq(Byte \cup {Garbage})
  BY <1>1
<1>3. /\ oft' \in [Handle -> [inum : Inum \cup {-1}, off : 0 .. MaxOffset]]
      /\ status' \in {"running", "aborted", "crashed"}
  BY <1>1 DEF TfsInv, TypeOK
<1> QED
  BY <1>1, <1>2, <1>3, QuietInv

LEMMA WriteInv ==
    ASSUME TfsInv, NEW h \in Handle, NEW bytes \in Buffer, Write(h, bytes)
    PROVE  TfsInv'
<1> USE TfsAssumption
<1> DEFINE i == oft[h].inum
           off == oft[h].off
           n == ToWrite(Len(bytes), off)
<1>1. TypeOK /\ BlocksOwned /\ DirMatchesInodes /\ RootKept /\ ErasedNames
      /\ HandlesOffRoot
  BY DEF TfsInv
<1>2. h \in open /\ n > 0
  BY DEF Write, InHand
<1>3. PICK b \in Block :
          /\ IF i_size[i] = 0 THEN IsFirstFree(b, Block, blocks) ELSE b = i_block[i]
          /\ StoreBytes(h, bytes, b)
  BY DEF Write
<1>5. bytes \in Seq(Byte) /\ Len(bytes) \in Nat
  BY BufferIsSeq
<1>4. i \in Inum \ {Root} /\ off \in 0 .. BlockSize /\ i_size[i] \in 0 .. BlockSize
  <2>1. off \in Nat
    BY <1>1, <1>2 DEF TypeOK
  <2>2. off \in 0 .. BlockSize
    BY <1>2, <1>5, <2>1, WriterInBlock
  <2> QED
    BY <1>1, <1>2, <2>2 DEF HandlesOffRoot, TypeOK
<1>6. n \in Nat /\ n <= Len(bytes) /\ off + n \in 0 .. BlockSize
  BY <1>4, <1>5, WriteFits
<1>7. /\ i_block' = [i_block EXCEPT ![i] = b]
      /\ blocks' = IF i_size[i] = 0 THEN blocks \cup {b} ELSE blocks
      /\ data' = [data EXCEPT ![b] = [k \in Cell |->
                     IF k >= off /\ k < off + n THEN bytes[k - off + 1]
                     ELSE data[b][k]]]
      /\ oft' = [oft EXCEPT ![h].off = off + n]
      /\ i_size' = [i_size EXCEPT ![i] = SizeAfterWrite(i, off + n)]
      /\ got' = <<>>
      /\ UNCHANGED <<inodes, dir, open, leaked, status>>
  BY <1>3 DEF StoreBytes, Returns
<1>8. SizeAfterWrite(i, off + n) \in 0 .. BlockSize
  BY <1>4, <1>6 DEF SizeAfterWrite
<1>9. TypeOK'
  <2>1. data' \in [Block -> [Cell -> Byte \cup {Garbage}]]
    <3>1. ASSUME NEW k \in Cell
          PROVE  (IF k >= off /\ k < off + n THEN bytes[k - off + 1]
                  ELSE data[b][k]) \in Byte \cup {Garbage}
      <4>1. CASE k >= off /\ k < off + n
        <5>1. k - off + 1 \in 1 .. Len(bytes)
          BY <1>4, <1>5, <1>6, <4>1 DEF Cell
        <5> QED
          BY <1>5, <4>1, <5>1
      <4>2. CASE ~(k >= off /\ k < off + n)
        BY <1>1, <4>2 DEF TypeOK
      <4> QED
        BY <4>1, <4>2
    <3> QED
      BY <1>1, <1>7, <3>1 DEF TypeOK
  <2>2. /\ i_size' \in [Inum -> 0 .. BlockSize]
        /\ i_block' \in [Inum -> Block \cup {-1}]
        /\ blocks' \subseteq Block
    BY <1>1, <1>3, <1>7, <1>8 DEF TypeOK
  <2>3. oft' \in [Handle -> [inum : Inum \cup {-1}, off : 0 .. MaxOffset]]
    BY <1>1, <1>6, <1>7 DEF TypeOK
  <2>4. got' \in Seq(Byte \cup {Garbage})
    BY <1>7
  <2> QED
    BY <1>1, <1>7, <2>1, <2>2, <2>3, <2>4 DEF TypeOK
<1>10. BlocksOwned'
  <2>1. CASE i_size[i] = 0
    <3>1. b \notin blocks
      BY <1>3, <2>1 DEF IsFirstFree
    <3>2. \A j \in inodes : i_size'[j] > 0 => i_block'[j] \in blocks'
      BY <1>1, <1>4, <1>7, <2>1 DEF TypeOK, BlocksOwned
    <3>3. \A j \in inodes : j # i /\ i_size'[j] > 0 =>
              /\ i_block'[j] \in blocks
              /\ i_block'[j] = i_block[j] /\ i_size[j] > 0
      BY <1>1, <1>4, <1>7 DEF TypeOK, BlocksOwned
    <3>4. i_block'[i] = b
      BY <1>1, <1>4, <1>7 DEF TypeOK
    <3> QED
      BY <1>1, <1>7, <3>1, <3>2, <3>3, <3>4 DEF BlocksOwned
  <2>2. CASE i_size[i] # 0
    <3>1. i_block' = i_block /\ blocks' = blocks
      BY <1>1, <1>3, <1>4, <1>7, <2>2 DEF TypeOK
    <3>2. \A j \in inodes : i_size'[j] > 0 => i_size[j] > 0
      BY <1>1, <1>4, <1>7, <2>2 DEF TypeOK
    <3> QED
      BY <1>1, <1>7, <3>1, <3>2 DEF BlocksOwned
  <2> QED
    BY <2>1, <2>2
<1>11. \A g \in open : oft'[g].inum = oft[g].inum
  BY <1>1, <1>7 DEF TypeOK
<1> QED
  BY <1>1, <1>7, <1>9, <1>10, <1>11, DirUntouched, HandlesUntouched DEF TfsInv

LEMMA ReadInv ==
    ASSUME TfsInv, NEW h \in Handle, NEW len \in 0 .. MaxLen, Read(h, len)
    PROVE  TfsInv'
<1> USE TfsAssumption
<1> DEFINE b == i_block[oft[h].inum]
           off == oft[h].off
           n == ToRead(h, len)
<1>1. TypeOK /\ HandlesOffRoot
  BY DEF TfsInv
<1>2. /\ h \in open
      /\ n > 0 => b # -1
      /\ off + n <= MaxOffset
      /\ got' = [k \in 1 .. n |-> ByteAt(b, off + k - 1)]
      /\ oft' = [oft EXCEPT ![h].off = off + n]
      /\ UNCHANGED <<inodes, i_size, i_block, blocks, data, dir, open, leaked, status>>
  BY DEF Read, Advance, InHand
<1>3. oft[h].inum \in Inum /\ off \in 0 .. MaxOffset /\ b \in Block \cup {-1}
  BY <1>1, <1>2 DEF TypeOK, HandlesOffRoot
<1>4. n \in 0 .. len
  BY <1>1, <1>2, ReadFits
<1>5. off + n \in 0 .. MaxOffset
  BY <1>2, <1>3, <1>4
<1>6. \A k \in 1 .. n : ByteAt(b, off + k - 1) \in Byte \cup {Garbage}
  <2>1. SUFFICES ASSUME NEW k \in 1 .. n
                 PROVE  ByteAt(b, off + k - 1) \in Byte \cup {Garbage}
    OBVIOUS
  <2>2. b \in Block
    BY <1>2, <1>3, <1>4, <2>1
  <2>3. off + k - 1 \in Nat
    BY <1>3, <1>4, <2>1
  <2> QED
    BY <1>1, <2>2, <2>3, ByteFound
<1>7. got' \in Seq(Byte \cup {Garbage})
  <2>1. n \in Nat
    BY <1>4
  <2>2. got' \in [1 .. n -> Byte \cup {Garbage}]
    BY <1>2, <1>6
  <2> QED
    BY <2>1, <2>2
<1>8. /\ oft' \in [Handle -> [inum : Inum \cup {-1}, off : 0 .. MaxOffset]]
      /\ \A g \in open : oft'[g].inum = oft[g].inum
  <2>1. PICK m \in 0 .. MaxOffset : oft' = [oft EXCEPT ![h].off = m]
    BY <1>2, <1>5
  <2>2. /\ oft \in [Handle -> [inum : Inum \cup {-1}, off : 0 .. MaxOffset]]
        /\ open \subseteq Handle
    BY <1>1 DEF TypeOK
  <2> QED
    BY <2>1, <2>2
<1>9. /\ open' \subseteq open /\ leaked' \subseteq open'
      /\ status' \in {"running", "aborted", "crashed"}
  BY <1>1, <1>2 DEF TypeOK
<1> QED
  BY <1>2, <1>7, <1>8, <1>9, QuietInv

(* clear_dir_entry erases the entry that is in use, although it does not   *)
(* look whether it is.                                                     *)
LEMMA RightEntryErased ==
    ASSUME TfsInv, NEW n \in AnyName, Unlink(n)
    PROVE  \E e \in InUse : /\ dir[e].name = n
                            /\ dir[e].inum = Lookup(n)
                            /\ dir' = [dir EXCEPT ![e] =
                                          [inum |-> -1, name |-> Garbage]]
<1>1. DirMatchesInodes /\ ErasedNames
  BY DEF TfsInv
<1>2. PICK f \in InUse : dir[f].name = n /\ dir[f].inum = Lookup(n)
  BY <1>1, LookupEntry DEF Unlink
<1>3. PICK e \in Entry :
          /\ dir[e].name = n
          /\ \A g \in Entry : dir[g].name = n => e <= g
          /\ dir' = [dir EXCEPT ![e] = [inum |-> -1, name |-> Garbage]]
  BY DEF Unlink
<1>4. f \in Entry /\ e \in Int /\ f \in Int
  BY TfsAssumption DEF Entry, InUse
<1>5. n # Garbage
  BY TfsAssumption DEF AnyName
<1>6. e \in InUse
  <2>1. SUFFICES ASSUME e \notin InUse PROVE FALSE
    OBVIOUS
  <2>2. dir[e].inum = -1
    BY <2>1 DEF InUse
  <2>3. f < e
    BY <1>1, <1>3, <1>5, <2>2 DEF ErasedNames
  <2>4. e <= f
    BY <1>2, <1>3, <1>4
  <2> QED
    BY <1>4, <2>3, <2>4
<1>7. e = f
  BY <1>1, <1>2, <1>3, <1>6 DEF DirMatchesInodes
<1> QED
  BY <1>2, <1>3, <1>7

LEMMA UnlinkInv ==
    ASSUME TfsInv, NEW n \in AnyName, Unlink(n)
    PROVE  TfsInv'
<1> USE TfsAssumption
<1> DEFINE i == Lookup(n)
<1>1. TypeOK /\ BlocksOwned /\ DirMatchesInodes /\ RootKept /\ ErasedNames
      /\ HandlesOffRoot
  BY DEF TfsInv
<1>2. PICK e \in InUse : /\ dir[e].name = n
                         /\ dir[e].inum = i
                         /\ dir' = [dir EXCEPT ![e] =
                                       [inum |-> -1, name |-> Garbage]]
  BY RightEntryErased
<1>3. i \in inodes \ {Root} /\ i \in Inum
  BY <1>1, <1>2 DEF DirMatchesInodes, TypeOK
<1>4. /\ inodes' = inodes \ {i}
      /\ blocks' = blocks \ Freed(i)
      /\ got' = <<>>
      /\ UNCHANGED <<i_size, i_block, data, open, leaked, oft, status>>
  BY DEF Unlink, Returns
<1>5. e \in Entry
  BY DEF InUse
<1>6. TypeOK'
  <2>1. dir' \in [Entry -> [inum : Inum \cup {-1}, name : Name \cup {Garbage}]]
    BY <1>1, <1>2, <1>5 DEF TypeOK
  <2>2. got' \in Seq(Byte \cup {Garbage})
    BY <1>4
  <2> QED
    BY <1>1, <1>4, <2>1, <2>2 DEF TypeOK
<1>7. BlocksOwned'
  <2>1. blocks' = IF i_size[i] > 0 THEN blocks \ {i_block[i]} ELSE blocks
    BY <1>4 DEF Freed
  <2>2. i_size' \in [Inum -> 0 .. BlockSize]
    BY <1>1, <1>4 DEF TypeOK
  <2>3. /\ \A j \in inodes' \ {i} : j \in inodes /\ i_size'[j] = i_size[j]
        /\ i \in inodes' => i_size'[i] = 0
    BY <1>4
  <2> QED
    BY <1>1, <1>3, <1>4, <2>1, <2>2, <2>3, InodeCut
<1>8. /\ dir'[e] = [inum |-> -1, name |-> Garbage]
      /\ \A f \in Entry \ {e} : dir'[f] = dir[f]
  BY <1>1, <1>2, <1>5 DEF TypeOK
<1>9. InUse' = InUse \ {e}
  BY <1>5, <1>8 DEF InUse
<1>10. \A f \in InUse' : f \in InUse /\ f # e /\ dir'[f] = dir[f]
  BY <1>8, <1>9 DEF InUse
<1>11. DirMatchesInodes'
  <2>1. {dir'[f].inum : f \in InUse'} = {dir[f].inum : f \in InUse \ {e}}
    BY <1>9, <1>10
  <2>2. {dir[f].inum : f \in InUse \ {e}} = {dir[f].inum : f \in InUse} \ {i}
    BY <1>1, <1>2 DEF DirMatchesInodes
  <2>3. {dir'[f].inum : f \in InUse'} = inodes' \ {Root}
    BY <1>1, <1>4, <2>1, <2>2 DEF DirMatchesInodes
  <2> QED
    BY <1>1, <1>10, <2>3 DEF DirMatchesInodes
<1>12. RootKept'
  BY <1>1, <1>3, <1>4 DEF RootKept
<1>13. HandlesOffRoot'
  BY <1>1, <1>4 DEF HandlesOffRoot
<1>14. ErasedNames'
  BY <1>1, <1>8, <1>10 DEF ErasedNames
<1> QED
  BY <1>6, <1>7, <1>11, <1>12, <1>13, <1>14 DEF TfsInv

LEMMA StepInv == TfsInv /\ [Next]_vars => TfsInv'
<1>1. ASSUME TfsInv, Next
      PROVE  TfsInv'
  <2>1. CASE \E n \in AnyName, mode \in Mode :
                \/ OpenExisting(n, mode) \/ OpenCreates(n, mode)
                \/ OpenCannotCreate(n, mode) \/ OpenFails(n, mode)
    BY <1>1, <2>1, OpenExistingInv, OpenCreatesInv, OpenCannotCreateInv, QuietCallsInv
  <2>2. CASE \E h \in Handle :
                \/ Close(h) \/ Leak(h)
                \/ \E bytes \in Buffer : \/ Write(h, bytes)
                                        \/ WriteDoesNothing(h, bytes)
                                        \/ WriteCrashes(h, bytes)
                \/ \E len \in 0 .. MaxLen : \/ Read(h, len)
                                           \/ ReadAborts(h, len)
                                           \/ ReadCrashes(h, len)
    BY <1>1, <2>2, WriteInv, ReadInv, QuietCallsInv
  <2>3. CASE \E n \in AnyName : Unlink(n)
    BY <1>1, <2>3, UnlinkInv
  <2> QED
    BY <1>1, <2>1, <2>2, <2>3 DEF Next
<1>2. ASSUME TfsInv, UNCHANGED vars
      PROVE  TfsInv'
  BY <1>2, QuietInv DEF vars, TfsInv, TypeOK
<1> QED
  BY <1>1, <1>2

(* The invariant holds in every reachable state.                           *)
THEOREM Invariance == Spec => []TfsInv
BY InitInv, StepInv, PTL DEF Spec

(* Every table keeps its shape, for any clients: in particular no file     *)
(* becomes longer than its block, although handles of truncated files read *)
(* on behind the end of it.                                                *)
THEOREM TypeCorrect == Spec => []TypeOK
<1>1. TfsInv => TypeOK
  BY DEF TfsInv
<1> QED
  BY <1>1, Invariance, PTL

(* No two files share a block and none loses its own, for any clients.     *)
THEOREM BlocksCorrect == Spec => []BlocksOwned
<1>1. TfsInv => BlocksOwned
  BY DEF TfsInv
<1> QED
  BY <1>1, Invariance, PTL

(* The directory and the inode table agree, for any clients: names and     *)
(* inodes are never shared, failed creations and unlinks leave nothing.    *)
THEOREM DirectoryCorrect == Spec => []DirMatchesInodes
<1>1. TfsInv => DirMatchesInodes
  BY DEF TfsInv
<1> QED
  BY <1>1, Invariance, PTL

-------------------------------------------------------------------------------
(* Clients that neither truncate nor unlink a file that others use.        *)

(* What holds with them, inductive together with TfsInv.                   *)
CarefulInv == NoBlockLost /\ HandlesInFiles /\ StaysRunning

LEMMA CarefulInit == Init => CarefulInv
<1> SUFFICES ASSUME Init PROVE CarefulInv
  OBVIOUS
<1> USE TfsAssumption DEF Init
<1>1. Root \in Inum
  BY DEF Root, Inum
<1>2. {j \in inodes : i_size[j] > 0} = {Root}
  BY <1>1
<1>3. NoBlockLost
  BY <1>1, <1>2 DEF NoBlockLost
<1> QED
  BY <1>3 DEF CarefulInv, HandlesInFiles, InHand, StaysRunning

LEMMA CarefulOpenExisting ==
    ASSUME Careful, TfsInv, CarefulInv,
           NEW n \in AnyName, NEW mode \in Mode, OpenExisting(n, mode)
    PROVE  CarefulInv'
<1> USE TfsAssumption
<1> DEFINE i == Lookup(n)
           cut == "trunc" \in mode /\ i_size[i] > 0
           offset == IF "append" \in mode THEN i_size'[i] ELSE 0
<1>1. TypeOK /\ BlocksOwned /\ DirMatchesInodes /\ HandlesInFiles
  BY DEF TfsInv, CarefulInv
<1>2. i \in inodes \ {Root} /\ i \in Inum
  BY <1>1, LookupEntry DEF OpenExisting, TypeOK
<1>3. /\ blocks' = IF cut THEN blocks \ {i_block[i]} ELSE blocks
      /\ i_size' = [i_size EXCEPT ![i] = IF cut THEN 0 ELSE @]
      /\ TakeHandle(i, offset)
      /\ "trunc" \in mode => ~IsOpen(i)
      /\ UNCHANGED <<inodes, i_block, data, dir, leaked, status>>
  BY DEF OpenExisting, SizeOnTrunc, Returns
<1>4. i_size' \in [Inum -> 0 .. BlockSize]
      /\ \A j \in Inum \ {i} : i_size'[j] = i_size[j]
  BY <1>1, <1>2, <1>3 DEF TypeOK
<1>5. i_size'[i] = IF cut THEN 0 ELSE i_size[i]
  BY <1>1, <1>2, <1>3 DEF TypeOK
<1>6. offset \in 0 .. BlockSize /\ offset <= i_size'[i]
  BY <1>2, <1>4
<1>7. \A h \in InHand' : \/ h \in InHand /\ oft'[h] = oft[h]
                         \/ oft'[h] = [inum |-> i, off |-> offset]
  BY <1>1, <1>2, <1>3, <1>6, HandleTaken DEF InHand
<1>8. NoBlockLost'
  <2>1. CASE cut
    <3>1. {j \in inodes' : i_size'[j] > 0} = {j \in inodes : i_size[j] > 0} \ {i}
      BY <1>1, <1>2, <1>3, <1>4, <1>5, <2>1 DEF TypeOK
    <3>2. \A j \in inodes \ {i} : i_size[j] > 0 => i_block[j] # i_block[i]
      BY <1>1, <1>2, <2>1 DEF BlocksOwned
    <3>3. blocks' = blocks \ {i_block[i]}
      BY <1>3, <2>1
    <3>4. blocks = {i_block[j] : j \in {k \in inodes : i_size[k] > 0}}
      BY DEF CarefulInv, NoBlockLost
    <3> QED
      BY <1>3, <3>1, <3>2, <3>3, <3>4 DEF NoBlockLost
  <2>2. CASE ~cut
    <3>1. blocks' = blocks /\ i_size' = i_size
      BY <1>1, <1>2, <1>3, <2>2 DEF TypeOK
    <3> QED
      BY <1>3, <3>1 DEF CarefulInv, NoBlockLost
  <2> QED
    BY <2>1, <2>2
<1>9. HandlesInFiles'
  <2>1. SUFFICES ASSUME NEW h \in InHand'
                 PROVE  /\ oft'[h].inum \in inodes' \ {Root}
                        /\ oft'[h].off <= i_size'[oft'[h].inum]
    BY DEF HandlesInFiles
  <2>2. CASE oft'[h] = [inum |-> i, off |-> offset]
    BY <1>2, <1>3, <1>6, <2>2
  <2>3. CASE h \in InHand /\ oft'[h] = oft[h]
    <3>1. oft[h].inum \in inodes \ {Root} /\ oft[h].inum \in Inum
      BY <1>1, <2>3 DEF HandlesInFiles, TypeOK
    <3>2. oft[h].off <= i_size[oft[h].inum]
      BY <1>1, <2>3 DEF HandlesInFiles
    <3>3. cut => oft[h].inum # i
      BY <1>3, <2>3 DEF IsOpen
    <3>4. i_size'[oft[h].inum] = i_size[oft[h].inum]
      BY <1>4, <1>5, <3>1, <3>3
    <3> QED
      BY <1>3, <2>3, <3>1, <3>2, <3>4
  <2> QED
    BY <1>7, <2>1, <2>2, <2>3
<1> QED
  BY <1>3, <1>8, <1>9 DEF CarefulInv, StaysRunning

LEMMA CarefulOpenCreates ==
    ASSUME Careful, TfsInv, CarefulInv,
           NEW n \in AnyName, NEW mode \in Mode,
           OpenCreates(n, mode) \/ OpenCannotCreate(n, mode)
    PROVE  CarefulInv'
<1> USE TfsAssumption
<1>1. TypeOK /\ HandlesInFiles /\ NoBlockLost
  BY DEF TfsInv, CarefulInv
<1>2. PICK i \in Inum \ inodes :
          /\ i_size' = [i_size EXCEPT ![i] = 0]
          /\ i_block' = [i_block EXCEPT ![i] = -1]
          /\ UNCHANGED <<blocks, leaked, status>>
          /\ \/ inodes' = inodes \cup {i} /\ TakeHandle(i, 0)
             \/ UNCHANGED <<inodes, open, oft>>
  BY DEF OpenCreates, OpenCannotCreate, IsFirstFree, Returns
<1>3. /\ \A j \in inodes : /\ i_size'[j] = i_size[j]
                           /\ i_block'[j] = i_block[j]
      /\ i_size'[i] = 0 /\ i # Root
  BY <1>1, <1>2 DEF TypeOK, TfsInv, RootKept
<1>4. NoBlockLost'
  <2>1. {j \in inodes' : i_size'[j] > 0} = {j \in inodes : i_size[j] > 0}
    BY <1>2, <1>3
  <2>2. {i_block'[j] : j \in {k \in inodes : i_size[k] > 0}}
          = {i_block[j] : j \in {k \in inodes : i_size[k] > 0}}
    BY <1>3
  <2> QED
    BY <1>1, <1>2, <2>1, <2>2 DEF NoBlockLost
<1>5. \A h \in InHand' : \/ h \in InHand /\ oft'[h] = oft[h]
                         \/ /\ oft'[h] = [inum |-> i, off |-> 0]
                            /\ i \in inodes'
  <2>1. CASE inodes' = inodes \cup {i} /\ TakeHandle(i, 0)
    <3>1. 0 \in 0 .. BlockSize
      OBVIOUS
    <3> QED
      BY <1>1, <1>2, <2>1, <3>1, HandleTaken DEF InHand
  <2>2. CASE UNCHANGED <<inodes, open, oft>>
    BY <1>2, <2>2 DEF InHand
  <2> QED
    BY <1>2, <2>1, <2>2
<1>6. inodes \subseteq inodes'
  BY <1>2
<1>7. HandlesInFiles'
  BY <1>1, <1>3, <1>5, <1>6 DEF HandlesInFiles
<1> QED
  BY <1>2, <1>4, <1>7 DEF CarefulInv, StaysRunning

LEMMA CarefulWrite ==
    ASSUME TfsInv, CarefulInv, NEW h \in Handle, NEW bytes \in Buffer, Write(h, bytes)
    PROVE  CarefulInv'
<1> USE TfsAssumption
<1> DEFINE i == oft[h].inum
           off == oft[h].off
           n == ToWrite(Len(bytes), off)
<1>1. TypeOK /\ HandlesInFiles /\ NoBlockLost /\ BlocksOwned
  BY DEF TfsInv, CarefulInv
<1>2. h \in InHand /\ h \in open
  BY DEF Write, InHand
<1>3. PICK b \in Block :
          /\ IF i_size[i] = 0 THEN IsFirstFree(b, Block, blocks) ELSE b = i_block[i]
          /\ n > 0
          /\ i_block' = [i_block EXCEPT ![i] = b]
          /\ blocks' = IF i_size[i] = 0 THEN blocks \cup {b} ELSE blocks
          /\ oft' = [oft EXCEPT ![h].off = off + n]
          /\ i_size' = [i_size EXCEPT ![i] = SizeAfterWrite(i, off + n)]
          /\ UNCHANGED <<inodes, open, leaked, status>>
  BY DEF Write, StoreBytes, Returns
<1>4. i \in inodes \ {Root} /\ i \in Inum /\ off \in Nat /\ i_size[i] \in Nat
  BY <1>1, <1>2 DEF HandlesInFiles, TypeOK
<1>5. n \in Nat
  <2>1. Len(bytes) \in Nat
    BY BufferIsSeq
  <2>2. off \in 0 .. BlockSize
    BY <1>3, <1>4, <2>1, WriterInBlock
  <2> QED
    BY <2>1, <2>2, WriteFits
<1>6. /\ i_size'[i] > 0 /\ i_size[i] <= i_size'[i] /\ off + n <= i_size'[i]
      /\ \A j \in Inum \ {i} : i_size'[j] = i_size[j]
  BY <1>1, <1>3, <1>4, <1>5 DEF SizeAfterWrite, TypeOK
<1>7. /\ i_block'[i] = b
      /\ \A j \in Inum \ {i} : i_block'[j] = i_block[j]
  BY <1>1, <1>3, <1>4 DEF TypeOK
<1>8. NoBlockLost'
  <2>1. {j \in inodes' : i_size'[j] > 0} = {j \in inodes : i_size[j] > 0} \cup {i}
    BY <1>1, <1>3, <1>4, <1>6 DEF TypeOK
  <2>2. \A j \in inodes \ {i} : i_block'[j] = i_block[j]
    BY <1>1, <1>7 DEF TypeOK
  <2>3. CASE i_size[i] = 0
    <3>1. blocks' = {i_block[j] : j \in {k \in inodes : i_size[k] > 0}} \cup {b}
      BY <1>1, <1>3, <2>3 DEF NoBlockLost
    <3>2. i \notin {j \in inodes : i_size[j] > 0}
      BY <2>3
    <3> QED
      BY <1>7, <2>1, <2>2, <3>1, <3>2 DEF NoBlockLost
  <2>4. CASE i_size[i] # 0
    <3>1. b = i_block[i] /\ blocks' = blocks
      BY <1>3, <2>4
    <3>2. i \in {j \in inodes : i_size[j] > 0}
      BY <1>4, <2>4
    <3>3. \A j \in inodes : i_block'[j] = i_block[j]
      BY <1>7, <2>2, <3>1
    <3> QED
      BY <1>1, <2>1, <3>1, <3>2, <3>3 DEF NoBlockLost
  <2> QED
    BY <2>3, <2>4
<1>9. HandlesInFiles'
  <2>1. SUFFICES ASSUME NEW g \in InHand
                 PROVE  /\ oft'[g].inum \in inodes \ {Root}
                        /\ oft'[g].off <= i_size'[oft'[g].inum]
    BY <1>3 DEF HandlesInFiles, InHand
  <2>2. CASE g = h
    BY <1>1, <1>2, <1>3, <1>4, <1>6, <2>2 DEF TypeOK
  <2>3. CASE g # h
    <3>1. oft'[g] = oft[g] /\ oft[g].off \in Nat /\ oft[g].inum \in Inum
          /\ oft[g].inum \in inodes \ {Root}
      BY <1>1, <1>3, <2>3 DEF TypeOK, HandlesInFiles, InHand
    <3>2. i_size[oft[g].inum] <= i_size'[oft[g].inum]
      BY <1>1, <1>6, <3>1 DEF TypeOK
    <3>3. i_size[oft[g].inum] \in Nat /\ i_size'[oft[g].inum] \in Nat
      BY <1>1, <1>3, <1>4, <1>5, <3>1 DEF TypeOK, SizeAfterWrite
    <3> QED
      BY <1>1, <3>1, <3>2, <3>3 DEF HandlesInFiles
  <2> QED
    BY <2>2, <2>3
<1> QED
  BY <1>3, <1>8, <1>9 DEF CarefulInv, StaysRunning

(* A read stays in the file, and the file in its block: this is why no     *)
(* assertion fails and no copy leaves a block.                             *)
LEMMA CarefulReadFits ==
    ASSUME TfsInv, CarefulInv, NEW h \in InHand, NEW len \in 0 .. MaxLen
    PROVE  /\ oft[h].off + ToRead(h, len) <= i_size[oft[h].inum]
           /\ ToRead(h, len) > 0 => i_block[oft[h].inum] \in Block
<1> USE TfsAssumption
<1>1. /\ oft[h].inum \in inodes /\ oft[h].inum \in Inum
      /\ oft[h].off \in 0 .. MaxOffset
      /\ i_size[oft[h].inum] \in 0 .. BlockSize
      /\ oft[h].off <= i_size[oft[h].inum]
      /\ h \in open
  BY DEF TfsInv, CarefulInv, TypeOK, HandlesInFiles, InHand
<1>2. oft[h].off + ToRead(h, len) <= i_size[oft[h].inum]
  BY <1>1 DEF ToRead
<1>3. ToRead(h, len) \in 0 .. len
  BY <1>1, ReadFits DEF TfsInv
<1>4. ToRead(h, len) > 0 => i_size[oft[h].inum] > 0
  BY <1>1, <1>2, <1>3
<1>5. i_size[oft[h].inum] > 0 => i_block[oft[h].inum] \in Block
  BY <1>1 DEF TfsInv, TypeOK, BlocksOwned
<1> QED
  BY <1>2, <1>4, <1>5

LEMMA NoReadFails ==
    ASSUME TfsInv, CarefulInv, NEW h \in Handle, NEW len \in 0 .. MaxLen
    PROVE  ~ReadAborts(h, len) /\ ~ReadCrashes(h, len)
<1> USE TfsAssumption
<1> DEFINE b == i_block[oft[h].inum]
           last == oft[h].off + ToRead(h, len) - 1
<1>1. SUFFICES ASSUME h \in InHand, ToRead(h, len) > 0
               PROVE  b \in Block /\ b # -1 /\ b + last \div BlockSize = b
  BY DEF ReadAborts, ReadCrashes
<1>2. /\ oft[h].off \in Nat
      /\ i_size[oft[h].inum] \in 0 .. BlockSize
      /\ ToRead(h, len) \in 0 .. len
  BY <1>1, ReadFits DEF TfsInv, TypeOK, HandlesOffRoot, InHand
<1>3. /\ oft[h].off + ToRead(h, len) <= i_size[oft[h].inum]
      /\ b \in Block
  BY <1>1, CarefulReadFits
<1>4. last \in 0 .. BlockSize - 1
  BY <1>1, <1>2, <1>3
<1>5. last \div BlockSize = 0
  <2> HIDE DEF last
  <2> QED
    BY <1>4, DivMod
<1> QED
  BY <1>3, <1>5 DEF Block

LEMMA NoWriteFails ==
    ASSUME TfsInv, CarefulInv, NEW h \in Handle, NEW bytes \in Buffer
    PROVE  ~WriteCrashes(h, bytes)
<1>1. SUFFICES ASSUME h \in InHand
               PROVE  ToWrite(Len(bytes), oft[h].off) \in Nat
  BY DEF WriteCrashes
<1>2. /\ oft[h].off \in Nat
      /\ i_size[oft[h].inum] \in 0 .. BlockSize
      /\ oft[h].off <= i_size[oft[h].inum]
  BY <1>1, TfsAssumption DEF TfsInv, CarefulInv, TypeOK, HandlesOffRoot, HandlesInFiles,
                             InHand
<1>3. oft[h].off \in 0 .. BlockSize /\ Len(bytes) \in Nat
  BY <1>2, BufferIsSeq, TfsAssumption
<1> QED
  BY <1>3, WriteFits

LEMMA CarefulRead ==
    ASSUME TfsInv, CarefulInv, NEW h \in Handle, NEW len \in 0 .. MaxLen,
           Read(h, len)
    PROVE  CarefulInv'
<1> USE TfsAssumption
<1>1. h \in InHand
  BY DEF Read
<1>2. oft[h].off + ToRead(h, len) <= i_size[oft[h].inum]
  BY <1>1, CarefulReadFits
<1>3. /\ oft' = [oft EXCEPT ![h].off = oft[h].off + ToRead(h, len)]
      /\ UNCHANGED <<inodes, i_size, i_block, blocks, open, leaked, status>>
  BY DEF Read, Advance
<1>4. NoBlockLost' /\ StaysRunning'
  BY <1>3 DEF CarefulInv, NoBlockLost, StaysRunning
<1>5. \A g \in open : /\ oft'[g].inum = oft[g].inum
                      /\ g # h => oft'[g].off = oft[g].off
  BY <1>1, <1>3 DEF TfsInv, TypeOK
<1>6. oft'[h].off = oft[h].off + ToRead(h, len)
  BY <1>1, <1>3 DEF TfsInv, TypeOK, InHand
<1>7. HandlesInFiles'
  BY <1>2, <1>3, <1>5, <1>6 DEF CarefulInv, HandlesInFiles, InHand
<1> QED
  BY <1>4, <1>7 DEF CarefulInv

LEMMA CarefulUnlink ==
    ASSUME Careful, TfsInv, CarefulInv, NEW n \in AnyName, Unlink(n)
    PROVE  CarefulInv'
<1> DEFINE i == Lookup(n)
<1>1. TypeOK /\ BlocksOwned /\ DirMatchesInodes /\ HandlesInFiles /\ NoBlockLost
  BY DEF TfsInv, CarefulInv
<1>2. i \in inodes \ {Root}
  BY <1>1, LookupEntry DEF Unlink
<1>3. /\ ~IsOpen(i)
      /\ inodes' = inodes \ {i}
      /\ blocks' = IF i_size[i] > 0 THEN blocks \ {i_block[i]} ELSE blocks
      /\ UNCHANGED <<i_size, i_block, open, leaked, oft, status>>
  BY DEF Unlink, Returns, Freed
<1>4. NoBlockLost'
  <2>1. CASE i_size[i] > 0
    <3>1. {j \in inodes' : i_size'[j] > 0} = {j \in inodes : i_size[j] > 0} \ {i}
      BY <1>3
    <3>2. \A j \in inodes \ {i} : i_size[j] > 0 => i_block[j] # i_block[i]
      BY <1>1, <1>2, <2>1 DEF BlocksOwned
    <3>3. blocks' = blocks \ {i_block[i]}
      BY <1>3, <2>1
    <3>4. blocks = {i_block[j] : j \in {k \in inodes : i_size[k] > 0}}
      BY <1>1 DEF NoBlockLost
    <3> QED
      BY <1>3, <3>1, <3>2, <3>3, <3>4 DEF NoBlockLost
  <2>2. CASE ~(i_size[i] > 0)
    <3>1. {j \in inodes' : i_size'[j] > 0} = {j \in inodes : i_size[j] > 0}
      BY <1>3, <2>2
    <3> QED
      BY <1>1, <1>3, <2>2, <3>1 DEF NoBlockLost
  <2> QED
    BY <2>1, <2>2
<1>5. HandlesInFiles'
  BY <1>1, <1>3 DEF HandlesInFiles, IsOpen, InHand
<1> QED
  BY <1>3, <1>4, <1>5 DEF CarefulInv, StaysRunning

LEMMA CarefulQuiet ==
    ASSUME CarefulInv,
           \/ \E n, mode : OpenFails(n, mode)
           \/ \E h : Close(h) \/ Leak(h) \/ \E bytes : WriteDoesNothing(h, bytes)
           \/ UNCHANGED vars
    PROVE  CarefulInv'
<1>1. /\ UNCHANGED <<inodes, i_size, i_block, blocks, oft, status>>
      /\ InHand' \subseteq InHand
  BY DEF OpenFails, Close, Leak, WriteDoesNothing, Returns, InHand, vars
<1> QED
  BY <1>1 DEF CarefulInv, NoBlockLost, HandlesInFiles, StaysRunning

LEMMA CarefulStep ==
    ASSUME Careful
    PROVE  TfsInv /\ CarefulInv /\ [Next]_vars => CarefulInv'
<1>1. ASSUME TfsInv, CarefulInv, Next
      PROVE  CarefulInv'
  <2>1. CASE \E n \in AnyName, mode \in Mode :
                \/ OpenExisting(n, mode) \/ OpenCreates(n, mode)
                \/ OpenCannotCreate(n, mode) \/ OpenFails(n, mode)
    BY <1>1, <2>1, CarefulOpenExisting, CarefulOpenCreates, CarefulQuiet
  <2>2. CASE \E h \in Handle :
                \/ Close(h) \/ Leak(h)
                \/ \E bytes \in Buffer : \/ Write(h, bytes)
                                        \/ WriteDoesNothing(h, bytes)
                                        \/ WriteCrashes(h, bytes)
                \/ \E len \in 0 .. MaxLen : \/ Read(h, len)
                                           \/ ReadAborts(h, len)
                                           \/ ReadCrashes(h, len)
    BY <1>1, <2>2, CarefulWrite, CarefulRead, CarefulQuiet, NoReadFails, NoWriteFails
  <2>3. CASE \E n \in AnyName : Unlink(n)
    BY <1>1, <2>3, CarefulUnlink
  <2> QED
    BY <1>1, <2>1, <2>2, <2>3 DEF Next
<1> QED
  BY <1>1, CarefulQuiet

(* What holds with careful clients holds in every reachable state.         *)
THEOREM CarefulInvariance ==
    ASSUME Careful
    PROVE  Spec => []CarefulInv
BY CarefulInit, CarefulStep, Invariance, PTL DEF Spec

(* With careful clients every block in use belongs to a file: no path of   *)
(* an open, a write or an unlink, failing or not, loses one.               *)
THEOREM NoBlockIsLost ==
    ASSUME Careful
    PROVE  Spec => []NoBlockLost
<1>1. CarefulInv => NoBlockLost
  BY DEF CarefulInv
<1> QED
  BY <1>1, CarefulInvariance, PTL

(* With careful clients every handle stands in a file that exists, and not *)
(* behind its end.                                                         *)
THEOREM HandlesStayInFiles ==
    ASSUME Careful
    PROVE  Spec => []HandlesInFiles
<1>1. CarefulInv => HandlesInFiles
  BY DEF CarefulInv
<1> QED
  BY <1>1, CarefulInvariance, PTL

(* With careful clients the assertion of data_block_get never fails, and   *)
(* no memcpy runs out of the blocks.                                       *)
THEOREM NeverAborts ==
    ASSUME Careful
    PROVE  Spec => []StaysRunning
<1>1. CarefulInv => StaysRunning
  BY DEF CarefulInv
<1> QED
  BY <1>1, CarefulInvariance, PTL

------------------------------------------------------------------------------
(* With careful clients the tables implement the store of named files.     *)

Names == {dir[e].name : e \in InUse}

(* The state of the store that the tables stand for.                       *)
FilesMap == [n \in Names |-> Content(Lookup(n))]
OpenedMap == [h \in InHand |-> [name |-> NameOf(oft[h].inum), off |-> oft[h].off]]

(* Names and the inodes of files are in one-to-one correspondence.         *)
NamesMatch ==
    /\ \A n : Found(n) <=> n \in Names
    /\ \A n \in Names : Lookup(n) \in inodes \ {Root} /\ NameOf(Lookup(n)) = n
    /\ \A i \in inodes \ {Root} : NameOf(i) \in Names /\ Lookup(NameOf(i)) = i
    /\ \A e \in InUse : /\ Lookup(dir[e].name) = dir[e].inum
                       /\ NameOf(dir[e].inum) = dir[e].name

-------------------------------------------------------------------------------
LEMMA NamesOfInodes == TfsInv => NamesMatch
<1> SUFFICES ASSUME TfsInv PROVE NamesMatch
  OBVIOUS
<1>1. DirMatchesInodes
  BY DEF TfsInv
<1>2. \A n : Found(n) <=> n \in Names
  BY DEF Found, HasName, Names
<1>3. ASSUME NEW e \in InUse
      PROVE  NameOf(dir[e].inum) = dir[e].name /\ Lookup(dir[e].name) = dir[e].inum
             /\ dir[e].inum \in inodes \ {Root} /\ dir[e].name \in Names
  <2>1. (CHOOSE f \in InUse : dir[f].inum = dir[e].inum) = e
    BY <1>1 DEF DirMatchesInodes
  <2>2. Found(dir[e].name)
    BY DEF Found, HasName
  <2>3. Lookup(dir[e].name) = dir[e].inum
    BY <1>1, <2>2, LookupEntry DEF DirMatchesInodes
  <2> QED
    BY <1>1, <2>1, <2>3 DEF NameOf, DirMatchesInodes, Names
<1>4. \A n \in Names : \E e \in InUse : n = dir[e].name
  BY DEF Names
<1>5. \A i \in inodes \ {Root} : \E e \in InUse : i = dir[e].inum
  BY <1>1 DEF DirMatchesInodes
<1> QED
  BY <1>2, <1>3, <1>4, <1>5 DEF NamesMatch

(* The content of a file is a sequence as long as the file.                *)
LEMMA ContentIsSeq ==
    ASSUME TfsInv, NEW i \in inodes
    PROVE  /\ i_size[i] \in 0 .. BlockSize
           /\ Content(i) \in Seq(Byte \cup {Garbage})
           /\ Len(Content(i)) = i_size[i]
           /\ \A k \in 1 .. i_size[i] : Content(i)[k] = data[i_block[i]][k - 1]
<1> USE TfsAssumption
<1>1. i_size[i] \in 0 .. BlockSize /\ i \in Inum
  BY DEF TfsInv, TypeOK
<1>2. \A k \in 1 .. i_size[i] : data[i_block[i]][k - 1] \in Byte \cup {Garbage}
  <2>1. SUFFICES ASSUME NEW k \in 1 .. i_size[i]
                 PROVE  data[i_block[i]][k - 1] \in Byte \cup {Garbage}
    OBVIOUS
  <2>2. i_block[i] \in Block
    BY <1>1 DEF TfsInv, BlocksOwned, TypeOK
  <2>3. k - 1 \in Cell
    BY <1>1 DEF Cell
  <2> QED
    BY <2>2, <2>3 DEF TfsInv, TypeOK
<1>3. Content(i) \in [1 .. i_size[i] -> Byte \cup {Garbage}]
  BY <1>2 DEF Content
<1>4. i_size[i] \in Nat
  BY <1>1
<1>5. Content(i) \in Seq(Byte \cup {Garbage}) /\ Len(Content(i)) = i_size[i]
  BY <1>3, <1>4
<1> QED
  BY <1>1, <1>5 DEF Content

(* The actions of the store are steps of it.                               *)
LEMMA StoreSteps ==
    /\ Files!Fail => Files!Next
    /\ \A h \in Handle : Files!Close(h) \/ Files!Leak(h) => Files!Next
    /\ \A h \in Handle, len \in 0 .. BlockSize : Files!Read(h, len) => Files!Next
    /\ \A h \in Handle, bytes \in Files!Bytes : Files!Write(h, bytes) => Files!Next
    /\ \A n \in Name : Files!Unlink(n) => Files!Next
    /\ \A n \in Name, mode \in Mode :
          /\ Files!OpenFindsNoHandle(n, mode) => Files!Next
          /\ \A h \in Handle : Files!Open(n, mode, h) => Files!Next
BY DEF Files!Next

(* What a copy of b elements behind the first a ones returns.              *)
LEMMA Slice ==
    ASSUME NEW S, NEW s \in Seq(S), NEW a \in Nat, NEW b \in Nat, a + b <= Len(s)
    PROVE  SubSeq(s, a + 1, a + b) = [k \in 1 .. b |-> s[a + k]]
<1> DEFINE t == SubSeq(s, a + 1, a + b)
<1>1. \A i \in (a + 1) .. (a + b) : s[i] \in S
  BY ElementOfSeq
<1>2. a + 1 \in Int /\ a + b \in Int
  OBVIOUS
<1>3. /\ t \in Seq(S)
      /\ Len(t) = IF a + 1 <= a + b THEN (a + b) - (a + 1) + 1 ELSE 0
      /\ \A i \in 1 .. (a + b) - (a + 1) + 1 : t[i] = s[(a + 1) + i - 1]
  BY <1>1, <1>2, SubSeqProperties
<1>4. Len(t) = b
  BY <1>3
<1>5. (a + b) - (a + 1) + 1 = b
  OBVIOUS
<1>6. \A i \in 1 .. b : (a + 1) + i - 1 = a + i
  OBVIOUS
<1>7. \A i \in 1 .. b : t[i] = s[a + i]
  BY <1>3, <1>5, <1>6
<1> HIDE DEF t
<1>8. t = [k \in 1 .. b |-> t[k]]
  BY <1>3, <1>4
<1>9. t = [k \in 1 .. b |-> s[a + k]]
  BY <1>7, <1>8
<1> QED
  BY <1>9 DEF t

LEMMA DirKept ==
    ASSUME UNCHANGED dir
    PROVE  /\ Names' = Names
           /\ \A n : Lookup(n)' = Lookup(n)
           /\ \A i : NameOf(i)' = NameOf(i)
<1>1. InUse' = InUse
  BY DEF InUse
<1>2. \A n : HasName(n)' = HasName(n)
  BY <1>1 DEF HasName
<1> QED
  BY <1>1, <1>2 DEF Names, Lookup, NameOf

(* The files stay when the directory and their contents do.                *)
LEMMA FilesKept ==
    ASSUME TfsInv, UNCHANGED dir,
           \A i \in inodes \ {Root} : Content(i)' = Content(i)
    PROVE  FilesMap' = FilesMap
<1>1. NamesMatch
  BY NamesOfInodes
<1>2. \A n \in Names : Content(Lookup(n))' = Content(Lookup(n))
  BY <1>1, DirKept DEF NamesMatch
<1> QED
  BY <1>2, DirKept DEF FilesMap

LEMMA OpenedKept ==
    ASSUME UNCHANGED <<dir, open, leaked, oft>>
    PROVE  OpenedMap' = OpenedMap
BY DirKept DEF OpenedMap, InHand

(* A call that fails is a failure of the store.                            *)
LEMMA FailRefines ==
    ASSUME TfsInv, UNCHANGED <<inodes, blocks, data, dir, open, leaked, oft>>,
           \A i \in inodes : i_size'[i] = i_size[i] /\ i_block'[i] = i_block[i],
           got' = <<>>
    PROVE  Files!Next
<1>1. \A i \in inodes \ {Root} : Content(i)' = Content(i)
  BY DEF Content
<1>2. FilesMap' = FilesMap /\ OpenedMap' = OpenedMap
  BY <1>1, FilesKept, OpenedKept
<1>3. Files!Fail
  BY <1>2 DEF Files!Fail, FilesMap, OpenedMap, Names
<1> QED
  BY <1>3 DEF Files!Next

-------------------------------------------------------------------------------
(* Every operation of the file system is one of the store.                 *)

LEMMA InitRefines == Init => Files!Init
<1> SUFFICES ASSUME Init PROVE Files!Init
  OBVIOUS
<1>1. InUse = {}
  BY DEF Init, InUse
<1>2. FilesMap = <<>>
  BY <1>1 DEF FilesMap, Names
<1>3. OpenedMap = <<>>
  BY DEF Init, OpenedMap, InHand
<1> QED
  BY <1>2, <1>3 DEF Init, Files!Init, FilesMap, OpenedMap, Names

LEMMA HandleGoneRefines ==
    ASSUME TfsInv, NEW h \in Handle, Close(h) \/ Leak(h)
    PROVE  Files!Next
<1>1. /\ h \in InHand /\ InHand' = InHand \ {h} /\ got' = <<>>
      /\ leaked' = leaked \/ leaked' = leaked \cup {h}
      /\ UNCHANGED <<inodes, i_size, i_block, blocks, data, dir, oft>>
  BY DEF Close, Leak, Returns, InHand
<1>2. \A i \in inodes \ {Root} : Content(i)' = Content(i)
  BY <1>1 DEF Content
<1>3. FilesMap' = FilesMap
  BY <1>1, <1>2, FilesKept
<1>4. DOMAIN OpenedMap = InHand
  BY DEF OpenedMap
<1>5. OpenedMap' = [k \in DOMAIN OpenedMap \ {h} |-> OpenedMap[k]]
  BY <1>1, DirKept DEF OpenedMap
<1>6. Files!Close(h) \/ Files!Leak(h)
  BY <1>1, <1>3, <1>4, <1>5
     DEF Files!Close, Files!Leak, Files!Without, FilesMap, OpenedMap, Names
<1> QED
  BY <1>6 DEF Files!Next

(* The file a handle stands in, under its name.                            *)
LEMMA HandleFile ==
    ASSUME TfsInv, CarefulInv, NEW h \in InHand
    PROVE  /\ oft[h].inum \in inodes \ {Root}
           /\ oft[h].off \in 0 .. i_size[oft[h].inum]
           /\ DOMAIN OpenedMap = InHand
           /\ OpenedMap[h] = [name |-> NameOf(oft[h].inum), off |-> oft[h].off]
           /\ DOMAIN FilesMap = Names
           /\ OpenedMap[h].name \in DOMAIN FilesMap
           /\ FilesMap[OpenedMap[h].name] = Content(oft[h].inum)
<1>1. /\ oft[h].inum \in inodes \ {Root}
      /\ oft[h].off <= i_size[oft[h].inum]
  BY DEF CarefulInv, HandlesInFiles
<1>2. oft[h].off \in 0 .. i_size[oft[h].inum]
  BY <1>1, TfsAssumption DEF TfsInv, TypeOK, InHand
<1>3. NameOf(oft[h].inum) \in Names /\ Lookup(NameOf(oft[h].inum)) = oft[h].inum
  BY <1>1, NamesOfInodes DEF NamesMatch
<1>4. OpenedMap[h] = [name |-> NameOf(oft[h].inum), off |-> oft[h].off]
  BY DEF OpenedMap
<1>5. OpenedMap[h].name = NameOf(oft[h].inum)
  BY <1>4
<1>6. DOMAIN OpenedMap = InHand /\ DOMAIN FilesMap = Names
  BY DEF OpenedMap, FilesMap
<1>7. FilesMap[NameOf(oft[h].inum)] = Content(oft[h].inum)
  BY <1>3 DEF FilesMap
<1> QED
  BY <1>1, <1>2, <1>3, <1>4, <1>5, <1>6, <1>7

(* A read that is cut off at the end of the file is a read of what is left *)
(* of it.                                                                  *)
LEMMA ReadRefines ==
    ASSUME TfsInv, CarefulInv, NEW h \in Handle, NEW len \in 0 .. MaxLen,
           Read(h, len)
    PROVE  Files!Next
<1> USE TfsAssumption
<1> DEFINE i == oft[h].inum
           off == oft[h].off
           n == ToRead(h, len)
           s == Content(i)
<1>1. h \in InHand /\ h \in open
  BY DEF Read, InHand
<1>2. /\ got' = [k \in 1 .. n |-> ByteAt(i_block[i], off + k - 1)]
      /\ oft' = [oft EXCEPT ![h].off = off + n]
      /\ UNCHANGED <<inodes, i_size, i_block, blocks, data, dir, open, leaked>>
      /\ InHand' = InHand
  BY DEF Read, Advance, InHand
<1>3. /\ i \in inodes \ {Root} /\ off \in 0 .. i_size[i]
      /\ DOMAIN OpenedMap = InHand
      /\ OpenedMap[h] = [name |-> NameOf(i), off |-> off]
      /\ FilesMap[OpenedMap[h].name] = s
  BY <1>1, HandleFile
<1>4. /\ i_size[i] \in 0 .. BlockSize /\ s \in Seq(Byte \cup {Garbage})
      /\ Len(s) = i_size[i]
      /\ \A k \in 1 .. i_size[i] : s[k] = data[i_block[i]][k - 1]
  BY <1>3, ContentIsSeq
<1>5. n \in Nat /\ off \in Nat /\ off + n <= Len(s) /\ n \in 0 .. BlockSize
  <2>1. n \in 0 .. len
    BY <1>1, ReadFits DEF TfsInv
  <2>2. off + n <= i_size[i]
    BY <1>1, CarefulReadFits
  <2> QED
    BY <1>3, <1>4, <2>1, <2>2
<1>6. got' = SubSeq(s, off + 1, off + n)
  <2>1. SubSeq(s, off + 1, off + n) = [k \in 1 .. n |-> s[off + k]]
    <3>1. s \in Seq(Byte \cup {Garbage}) /\ off \in Nat /\ n \in Nat
          /\ off + n <= Len(s)
      BY <1>4, <1>5
    <3> HIDE DEF s, off, n
    <3> QED
      BY <3>1, Slice
  <2>2. \A k \in 1 .. n : s[off + k] = ByteAt(i_block[i], off + k - 1)
    <3>1. SUFFICES ASSUME NEW k \in 1 .. n
                   PROVE  s[off + k] = ByteAt(i_block[i], off + k - 1)
      OBVIOUS
    <3>2. PICK t \in 1 .. i_size[i] : t = off + k
      BY <1>4, <1>5
    <3>3. s[t] = data[i_block[i]][t - 1]
      BY <1>4, <3>2
    <3>4. t - 1 = off + k - 1
      BY <1>5, <3>2
    <3>5. t - 1 \in Cell /\ t - 1 \in Nat
      BY <1>4, <3>2 DEF Cell
    <3>6. i_block[i] \in Block
      <4>1. n > 0
        BY <1>5, <3>1
      <4> QED
        BY <1>1, <4>1, CarefulReadFits
    <3>7. ByteAt(i_block[i], t - 1) = data[i_block[i]][t - 1]
      BY <3>5, <3>6, ByteFound DEF TfsInv
    <3> QED
      BY <3>2, <3>3, <3>4, <3>7
  <2> QED
    BY <1>2, <2>1, <2>2
<1>7. FilesMap' = FilesMap
  <2>1. \A j \in inodes \ {Root} : Content(j)' = Content(j)
    BY <1>2 DEF Content
  <2> QED
    BY <1>2, <2>1, FilesKept
<1>8. OpenedMap' = [OpenedMap EXCEPT ![h].off = off + n]
  <2>1. oft \in [Handle -> [inum : Inum \cup {-1}, off : 0 .. MaxOffset]]
        /\ open \subseteq Handle
    BY DEF TfsInv, TypeOK
  <2>2. /\ oft'[h].inum = i /\ oft'[h].off = off + n
        /\ \A g \in InHand \ {h} : oft'[g] = oft[g]
    BY <1>1, <1>2, <2>1 DEF InHand
  <2>3. OpenedMap' = [g \in InHand |-> [name |-> NameOf(oft'[g].inum), off |-> oft'[g].off]]
    BY <1>2, DirKept DEF OpenedMap
  <2>4. \A g \in InHand : [name |-> NameOf(oft'[g].inum), off |-> oft'[g].off]
             = IF g = h THEN [OpenedMap[h] EXCEPT !.off = off + n] ELSE OpenedMap[g]
    BY <1>3, <2>2 DEF OpenedMap
  <2> QED
    BY <1>1, <1>3, <2>3, <2>4
<1>9. OpenedMap[h].off = off
  BY <1>3
<1>10. (IF off + n > Len(s) THEN Len(s) ELSE off + n) = off + n
  BY <1>4, <1>5
<1>11. PICK m \in 0 .. BlockSize : m = n
  BY <1>5
<1>12. Files!Read(h, m)
  BY <1>1, <1>2, <1>3, <1>6, <1>7, <1>8, <1>9, <1>10, <1>11
     DEF Files!Read, FilesMap, OpenedMap, Names
<1> QED
  BY <1>12, StoreSteps

(* What an open leaves of the store, see Opened in FileStore.              *)
AfterOpen(n, mode) ==
    LET old == IF n \in Names /\ "trunc" \notin mode THEN FilesMap[n] ELSE <<>>
    IN  [m \in Names \cup {n} |-> IF m = n THEN old ELSE FilesMap[m]]

LEMMA OpenRefines ==
    ASSUME TfsInv, CarefulInv,
           NEW n \in Name, NEW mode \in Mode, NEW i \in Inum, NEW offset \in 0 .. BlockSize,
           n \in Names \/ "creat" \in mode,
           FilesMap' = AfterOpen(n, mode),
           TakeHandle(i, offset),
           offset = IF "append" \in mode THEN Len(AfterOpen(n, mode)[n]) ELSE 0,
           NameOf(i)' = n,
           \A j \in inodes \ {Root} : NameOf(j)' = NameOf(j),
           got' = <<>>, leaked' = leaked
    PROVE  Files!Next
<1>1. DOMAIN FilesMap = Names /\ DOMAIN OpenedMap = InHand
  BY DEF FilesMap, OpenedMap
<1>2. FilesMap' = Files!Opened(n, mode) /\ AfterOpen(n, mode) = Files!Opened(n, mode)
  BY <1>1 DEF Files!Opened, AfterOpen, FilesMap, Names
<1>3. InHand \cup leaked = open /\ InHand \subseteq open
  BY DEF TfsInv, TypeOK, InHand
<1>4. \A h \in InHand : oft[h].inum \in inodes \ {Root}
  BY DEF CarefulInv, HandlesInFiles
<1>5. CASE open = Handle /\ UNCHANGED <<open, oft>>
  <2>1. \A k \in InHand : NameOf(oft[k].inum)' = NameOf(oft[k].inum)
    BY <1>3, <1>4, <1>5
  <2>2. OpenedMap' = OpenedMap
    BY <1>4, <1>5, <2>1 DEF OpenedMap, InHand
  <2>3. Files!OpenFindsNoHandle(n, mode)
    BY <1>1, <1>2, <1>3, <1>5, <2>2 DEF Files!OpenFindsNoHandle, FilesMap, OpenedMap, Names
  <2> QED
    BY <2>3, StoreSteps
<1>6. CASE \E h \in Handle :
              /\ IsFirstFree(h, Handle, open)
              /\ open' = open \cup {h}
              /\ oft' = [oft EXCEPT ![h] = [inum |-> i, off |-> offset]]
  <2>1. PICK h \in Handle \ open :
            /\ open' = open \cup {h}
            /\ oft' = [oft EXCEPT ![h] = [inum |-> i, off |-> offset]]
    BY <1>6 DEF IsFirstFree
  <2>2. oft'[h] = [inum |-> i, off |-> offset] /\ \A g \in open : oft'[g] = oft[g]
    BY <2>1 DEF TfsInv, TypeOK
  <2>3. \A k \in InHand : NameOf(oft[k].inum)' = NameOf(oft[k].inum)
    BY <1>3, <1>4, <2>2
  <2>4. NameOf(oft[h].inum)' = n
    BY <2>2
  <2>7. InHand' = InHand \cup {h} /\ h \notin InHand \cup leaked
    BY <1>3, <2>1 DEF InHand
  <2>5. OpenedMap' = [k \in DOMAIN OpenedMap \cup {h} |->
                         IF k = h THEN [name |-> n, off |-> offset] ELSE OpenedMap[k]]
    BY <1>1, <1>3, <2>1, <2>2, <2>3, <2>4, <2>7 DEF OpenedMap
  <2>6. Files!Open(n, mode, h)
    BY <1>1, <1>2, <2>1, <2>5, <2>7 DEF Files!Open, FilesMap, OpenedMap, Names
  <2> QED
    BY <2>6, StoreSteps
<1> QED
  BY <1>5, <1>6 DEF TakeHandle

LEMMA OpenExistingRefines ==
    ASSUME Careful, TfsInv, CarefulInv,
           NEW n \in AnyName, NEW mode \in Mode, OpenExisting(n, mode)
    PROVE  Files!Next
<1> USE TfsAssumption
<1>1. NamesMatch
  BY NamesOfInodes
<1>2. PICK e \in InUse : dir[e].name = n /\ Lookup(n) \in inodes \ {Root}
  BY LookupEntry DEF OpenExisting, TfsInv
<1>3. n \in Names /\ n \in Name
  BY <1>2 DEF Names, InUse, TfsInv, TypeOK, AnyName
<1>4. PICK i \in inodes \ {Root} : i = Lookup(n)
  BY <1>2
<1> DEFINE cut == "trunc" \in mode /\ i_size[i] > 0
<1>5. /\ i_size' = [i_size EXCEPT ![i] = IF cut THEN 0 ELSE @]
      /\ TakeHandle(i, IF "append" \in mode THEN i_size'[i] ELSE 0)
      /\ got' = <<>>
      /\ UNCHANGED <<inodes, i_block, data, dir, leaked>>
  BY <1>4 DEF OpenExisting, SizeOnTrunc, Returns
<1>6. i \in Inum /\ i_size \in [Inum -> 0 .. BlockSize] /\ inodes \subseteq Inum
  BY DEF TfsInv, TypeOK
<1>7. /\ \A j \in Inum \ {i} : i_size'[j] = i_size[j]
      /\ i_size'[i] = IF cut THEN 0 ELSE i_size[i]
  BY <1>5, <1>6
<1>8. PICK offset \in 0 .. BlockSize : offset = IF "append" \in mode THEN i_size'[i] ELSE 0
  BY <1>6, <1>7
<1>9. \A j \in inodes \ {i} : Content(j)' = Content(j)
  BY <1>5, <1>6, <1>7 DEF Content
<1>10. Content(i)' = IF "trunc" \in mode THEN <<>> ELSE Content(i)
  <2>1. Content(i)' = [k \in 1 .. i_size'[i] |-> data[i_block[i]][k - 1]]
    BY <1>5 DEF Content
  <2>2. CASE "trunc" \in mode
    <3>1. i_size'[i] = 0
      BY <1>6, <1>7, <2>2
    <3> QED
      BY <2>1, <2>2, <3>1
  <2>3. CASE "trunc" \notin mode
    BY <1>7, <2>1, <2>3 DEF Content
  <2> QED
    BY <2>2, <2>3
<1>11. FilesMap' = AfterOpen(n, mode)
  <2>1. FilesMap' = [m \in Names |-> Content(Lookup(m))']
    BY <1>5, DirKept DEF FilesMap
  <2>2. \A m \in Names \ {n} : Content(Lookup(m))' = FilesMap[m]
    <3>1. \A m \in Names \ {n} : Lookup(m) \in inodes \ {i}
      BY <1>1, <1>3, <1>4 DEF NamesMatch
    <3>2. \A m \in Names : Lookup(m)' = Lookup(m)
      BY <1>5, DirKept
    <3> QED
      BY <1>9, <3>1, <3>2 DEF FilesMap
  <2>3. Content(Lookup(n))' = IF "trunc" \in mode THEN <<>> ELSE FilesMap[n]
    <3>1. Lookup(n)' = i
      BY <1>4, <1>5, DirKept
    <3>2. FilesMap[n] = Content(i)
      BY <1>3, <1>4 DEF FilesMap
    <3> QED
      BY <1>10, <3>1, <3>2
  <2> QED
    BY <1>3, <2>1, <2>2, <2>3 DEF AfterOpen
<1>12. i_size'[i] = Len(AfterOpen(n, mode)[n])
  <2>1. FilesMap[n] = Content(i) /\ Len(Content(i)) = i_size[i]
    BY <1>3, <1>4, ContentIsSeq DEF FilesMap
  <2>2. AfterOpen(n, mode)[n] = IF "trunc" \notin mode THEN FilesMap[n] ELSE <<>>
    BY <1>3 DEF AfterOpen
  <2> QED
    BY <1>6, <1>7, <2>1, <2>2
<1>13. NameOf(i)' = n /\ \A j \in inodes \ {Root} : NameOf(j)' = NameOf(j)
  BY <1>1, <1>3, <1>4, <1>5, DirKept DEF NamesMatch
<1>14. TakeHandle(i, offset)
  BY <1>5, <1>8
<1>15. offset = IF "append" \in mode THEN Len(AfterOpen(n, mode)[n]) ELSE 0
  BY <1>8, <1>12
<1> QED
  BY <1>3, <1>5, <1>6, <1>11, <1>13, <1>14, <1>15, OpenRefines

(* A call that fails, whatever it tried before.                            *)
LEMMA FailingCallsRefine ==
    ASSUME TfsInv,
           \/ \E n, mode : OpenCannotCreate(n, mode) \/ OpenFails(n, mode)
           \/ \E h, bytes : WriteDoesNothing(h, bytes)
    PROVE  Files!Next
<1>1. CASE \E n, mode : OpenCannotCreate(n, mode)
  <2>1. PICK i \in Inum \ inodes :
            /\ i_size' = [i_size EXCEPT ![i] = 0]
            /\ i_block' = [i_block EXCEPT ![i] = -1]
            /\ got' = <<>>
            /\ UNCHANGED <<inodes, blocks, data, dir, open, leaked, oft>>
    BY <1>1 DEF OpenCannotCreate, IsFirstFree, Returns
  <2>2. \A j \in inodes : i_size'[j] = i_size[j] /\ i_block'[j] = i_block[j]
    BY <2>1 DEF TfsInv, TypeOK
  <2> QED
    BY <2>1, <2>2, FailRefines
<1>2. CASE \/ \E n, mode : OpenFails(n, mode)
           \/ \E h, bytes : WriteDoesNothing(h, bytes)
  <2>1. /\ got' = <<>>
        /\ UNCHANGED <<inodes, i_size, i_block, blocks, data, dir, open, leaked, oft>>
    BY <1>2 DEF OpenFails, WriteDoesNothing, Returns
  <2> QED
    BY <2>1, FailRefines
<1> QED
  BY <1>1, <1>2

LEMMA OpenCreatesRefines ==
    ASSUME TfsInv, CarefulInv, TfsInv',
           NEW n \in AnyName, NEW mode \in Mode, OpenCreates(n, mode)
    PROVE  Files!Next
<1> USE TfsAssumption
<1>1. NamesMatch /\ NamesMatch'
  <2>1. NamesMatch
    BY NamesOfInodes
  <2>2. NamesMatch'
    BY NamesOfInodes, PTL
  <2> QED
    BY <2>1, <2>2
<1>2. PICK i \in Inum, e \in Entry :
          /\ ~Found(n) /\ n \in Name /\ "creat" \in mode
          /\ i \notin inodes /\ e \notin InUse
          /\ inodes' = inodes \cup {i}
          /\ i_size' = [i_size EXCEPT ![i] = 0]
          /\ i_block' = [i_block EXCEPT ![i] = -1]
          /\ dir' = [dir EXCEPT ![e] = [inum |-> i, name |-> n]]
          /\ TakeHandle(i, 0)
          /\ got' = <<>>
          /\ UNCHANGED <<data, leaked>>
  BY DEF OpenCreates, IsFirstFree, Returns
<1>3. /\ i # -1 /\ n \notin Names
      /\ dir'[e] = [inum |-> i, name |-> n]
      /\ \A f \in Entry \ {e} : dir'[f] = dir[f]
  BY <1>1, <1>2 DEF Inum, TfsInv, TypeOK, NamesMatch
<1>4. /\ InUse' = InUse \cup {e}
      /\ \A f \in InUse : dir'[f] = dir[f]
  BY <1>2, <1>3 DEF InUse
<1>5. Names' = Names \cup {n}
  BY <1>3, <1>4 DEF Names
<1>6. /\ \A m \in Names : Lookup(m)' = Lookup(m)
      /\ \A j \in inodes \ {Root} : NameOf(j)' = NameOf(j)
  <2>1. ASSUME NEW f \in InUse, NEW m, m = dir[f].name, NEW j, j = dir[f].inum
        PROVE  Lookup(m)' = j /\ Lookup(m) = j /\ NameOf(j)' = m /\ NameOf(j) = m
    <3>1. f \in InUse' /\ dir'[f] = dir[f]
      BY <1>4
    <3> QED
      BY <1>1, <2>1, <3>1 DEF NamesMatch
  <2>2. \A m \in Names : \E f \in InUse : m = dir[f].name
    BY DEF Names
  <2>3. \A j \in inodes \ {Root} : \E f \in InUse : j = dir[f].inum
    BY DEF TfsInv, DirMatchesInodes
  <2> QED
    BY <2>1, <2>2, <2>3
<1>7. Lookup(n)' = i /\ NameOf(i)' = n
  <2>1. e \in InUse'
    BY <1>4
  <2> QED
    BY <1>1, <1>3, <2>1 DEF NamesMatch
<1>8. \A j \in inodes : Content(j)' = Content(j)
  <2>1. \A j \in inodes : i_size'[j] = i_size[j] /\ i_block'[j] = i_block[j]
    BY <1>2 DEF TfsInv, TypeOK
  <2> QED
    BY <1>2, <2>1 DEF Content
<1>9. Content(i)' = <<>>
  <2>1. i_size'[i] = 0
    BY <1>2 DEF TfsInv, TypeOK
  <2> QED
    BY <2>1 DEF Content
<1>10. FilesMap' = AfterOpen(n, mode)
  <2>1. FilesMap' = [m \in Names \cup {n} |-> Content(Lookup(m))']
    BY <1>5 DEF FilesMap
  <2>2. ASSUME NEW m \in Names
        PROVE  Content(Lookup(m))' = FilesMap[m] /\ m # n
    <3>1. PICK j \in inodes : j = Lookup(m)
      BY <1>1 DEF NamesMatch
    <3>2. Lookup(m)' = j
      BY <1>6, <3>1
    <3>3. FilesMap[m] = Content(j)
      BY <3>1 DEF FilesMap
    <3> QED
      BY <1>3, <1>8, <3>2, <3>3
  <2>3. Content(Lookup(n))' = <<>>
    BY <1>7, <1>9
  <2> QED
    BY <1>3, <2>1, <2>2, <2>3 DEF AfterOpen
<1>11. AfterOpen(n, mode)[n] = <<>>
  BY <1>3 DEF AfterOpen
<1>12. 0 \in 0 .. BlockSize
       /\ 0 = IF "append" \in mode THEN Len(AfterOpen(n, mode)[n]) ELSE 0
  BY <1>11
<1> QED
  BY <1>2, <1>6, <1>7, <1>10, <1>12, OpenRefines

LEMMA UnlinkRefines ==
    ASSUME Careful, TfsInv, CarefulInv, TfsInv', NEW n \in AnyName, Unlink(n)
    PROVE  Files!Next
<1> USE TfsAssumption
<1>1. NamesMatch /\ NamesMatch'
  <2>1. NamesMatch
    BY NamesOfInodes
  <2>2. NamesMatch'
    BY NamesOfInodes, PTL
  <2> QED
    BY <2>1, <2>2
<1>2. PICK e \in InUse : /\ dir[e].name = n
                         /\ dir[e].inum = Lookup(n)
                         /\ dir' = [dir EXCEPT ![e] =
                                       [inum |-> -1, name |-> Garbage]]
  BY RightEntryErased
<1>3. /\ ~IsOpen(Lookup(n))
      /\ inodes' = inodes \ {Lookup(n)}
      /\ got' = <<>>
      /\ UNCHANGED <<i_size, i_block, data, open, leaked, oft>>
      /\ InHand' = InHand
  BY DEF Unlink, Returns, InHand
<1>4. n \in Names /\ n \in Name
  BY <1>2 DEF Names, InUse, TfsInv, TypeOK, AnyName
<1>5. /\ InUse' = InUse \ {e}
      /\ \A f \in InUse \ {e} : dir'[f] = dir[f]
  BY <1>2 DEF InUse, TfsInv, TypeOK
<1>6. ASSUME NEW f \in InUse \ {e}, NEW m, m = dir[f].name, NEW j, j = dir[f].inum
      PROVE  Lookup(m)' = j /\ Lookup(m) = j /\ NameOf(j)' = m /\ NameOf(j) = m
  <2>1. f \in InUse' /\ dir'[f] = dir[f]
    BY <1>5
  <2> QED
    BY <1>1, <1>6, <2>1 DEF NamesMatch
<1>7. Names' = Names \ {n}
  BY <1>2, <1>5 DEF Names, TfsInv, DirMatchesInodes
<1>8. \A m \in Names \ {n} : Lookup(m)' = Lookup(m)
  <2>1. \A m \in Names \ {n} : \E f \in InUse \ {e} : m = dir[f].name
    BY <1>2 DEF Names
  <2> QED
    BY <1>6, <2>1
<1>9. \A j \in inodes \ {Root, Lookup(n)} : NameOf(j)' = NameOf(j) /\ NameOf(j) # n
  <2>1. \A j \in inodes \ {Root, Lookup(n)} : \E f \in InUse \ {e} : j = dir[f].inum
    BY <1>2 DEF TfsInv, DirMatchesInodes
  <2>2. \A f \in InUse \ {e} : dir[f].name # n
    BY <1>2 DEF TfsInv, DirMatchesInodes
  <2> QED
    BY <1>6, <2>1, <2>2
<1>10. FilesMap' = [m \in Names \ {n} |-> FilesMap[m]]
  <2>1. FilesMap' = [m \in Names \ {n} |-> Content(Lookup(m))']
    BY <1>7 DEF FilesMap
  <2>2. \A j : Content(j)' = Content(j)
    BY <1>3 DEF Content
  <2>3. \A m \in Names \ {n} : Content(Lookup(m))' = FilesMap[m]
    BY <1>8, <2>2 DEF FilesMap
  <2> QED
    BY <2>1, <2>3
<1>11. \A h \in InHand : oft[h].inum \in inodes \ {Root, Lookup(n)}
  BY <1>3 DEF CarefulInv, HandlesInFiles, IsOpen
<1>12. OpenedMap' = OpenedMap
  <2>1. \A h \in InHand : NameOf(oft[h].inum)' = NameOf(oft[h].inum)
    BY <1>3, <1>9, <1>11
  <2> QED
    BY <1>3, <2>1 DEF OpenedMap
<1>13. /\ DOMAIN FilesMap = Names /\ DOMAIN OpenedMap = InHand
       /\ \A h \in InHand : OpenedMap[h].name # n
  BY <1>9, <1>11 DEF FilesMap, OpenedMap
<1>14. Files!Unlink(n)
  BY <1>3, <1>4, <1>10, <1>12, <1>13
     DEF Files!Unlink, Files!Without, FilesMap, OpenedMap, Names
<1> QED
  BY <1>4, <1>14, StoreSteps

(* What a write leaves in the file, see Overlay in FileStore.              *)
OverlayEnd(s, off, bytes) == IF off + Len(bytes) > Len(s) THEN off + Len(bytes) ELSE Len(s)

(* A write of the bytes that fit is a write of the store; no other file    *)
(* changes, because no two files share a block and a free block is         *)
(* nobody's.                                                               *)
LEMMA WriteRefines ==
    ASSUME TfsInv, CarefulInv, NEW h \in Handle, NEW bytes \in Buffer, Write(h, bytes)
    PROVE  Files!Next
<1> USE TfsAssumption
<1>1. h \in InHand /\ h \in open
  BY DEF Write, InHand
<1>2. /\ oft[h].inum \in inodes \ {Root}
      /\ oft[h].off \in 0 .. i_size[oft[h].inum]
      /\ DOMAIN OpenedMap = InHand
      /\ OpenedMap[h] = [name |-> NameOf(oft[h].inum), off |-> oft[h].off]
      /\ OpenedMap[h].name \in DOMAIN FilesMap
      /\ FilesMap[OpenedMap[h].name] = Content(oft[h].inum)
  BY <1>1, HandleFile
<1>3. PICK i \in inodes \ {Root} : i = oft[h].inum
  BY <1>2
<1>4. PICK off \in 0 .. BlockSize : off = oft[h].off
  <2>1. i_size[oft[h].inum] \in 0 .. BlockSize
    BY <1>2 DEF TfsInv, TypeOK
  <2> QED
    BY <1>2, <2>1
<1>5. bytes \in Seq(Byte) /\ Len(bytes) \in Nat
  BY BufferIsSeq
<1>6. /\ ToWrite(Len(bytes), off) \in Nat
      /\ ToWrite(Len(bytes), off) <= Len(bytes)
      /\ off + ToWrite(Len(bytes), off) \in 0 .. BlockSize
  BY <1>5, WriteFits
<1>7. PICK n \in Nat : n = ToWrite(Len(bytes), off)
  BY <1>6
<1>8. PICK b \in Block :
          /\ IF i_size[i] = 0 THEN IsFirstFree(b, Block, blocks) ELSE b = i_block[i]
          /\ n > 0
          /\ i_block' = [i_block EXCEPT ![i] = b]
          /\ data' = [data EXCEPT ![b] = [k \in Cell |->
                         IF k >= off /\ k < off + n THEN bytes[k - off + 1]
                         ELSE data[b][k]]]
          /\ oft' = [oft EXCEPT ![h].off = off + n]
          /\ i_size' = [i_size EXCEPT ![i] = SizeAfterWrite(i, off + n)]
          /\ got' = <<>>
          /\ UNCHANGED <<inodes, dir, open, leaked>>
          /\ InHand' = InHand
  <2>1. PICK b \in Block :
            /\ IF i_size[i] = 0 THEN IsFirstFree(b, Block, blocks) ELSE b = i_block[i]
            /\ StoreBytes(h, bytes, b)
    BY <1>3 DEF Write
  <2>2. n > 0
    BY <1>4, <1>7 DEF Write
  <2>3. data' = [data EXCEPT ![b] = [k \in Cell |->
                    IF k >= off /\ k < off + n THEN bytes[k - off + 1]
                    ELSE data[b][k]]]
    BY <2>1, <1>4, <1>7 DEF StoreBytes
  <2>4. /\ i_block' = [i_block EXCEPT ![i] = b]
        /\ oft' = [oft EXCEPT ![h].off = off + n]
        /\ i_size' = [i_size EXCEPT ![i] = SizeAfterWrite(i, off + n)]
    BY <2>1, <1>3, <1>4, <1>7 DEF StoreBytes
  <2>5. /\ got' = <<>>
        /\ UNCHANGED <<inodes, dir, open, leaked>>
        /\ InHand' = InHand
    BY <2>1 DEF StoreBytes, Returns, InHand
  <2> QED
    BY <2>1, <2>2, <2>3, <2>4, <2>5
<1>9. i \in Inum /\ i_size[i] \in 0 .. BlockSize /\ inodes \subseteq Inum
  BY DEF TfsInv, TypeOK
<1>10. /\ i_size'[i] = IF off + n > i_size[i] THEN off + n ELSE i_size[i]
       /\ i_block'[i] = b
       /\ \A j \in Inum \ {i} : i_size'[j] = i_size[j] /\ i_block'[j] = i_block[j]
  BY <1>8, <1>9 DEF SizeAfterWrite, TfsInv, TypeOK
<1>11. /\ \A k \in Cell : data'[b][k] = IF k >= off /\ k < off + n
                                      THEN bytes[k - off + 1] ELSE data[b][k]
       /\ \A c \in Block \ {b} : data'[c] = data[c]
  BY <1>8 DEF TfsInv, TypeOK
<1>12. \A j \in inodes \ {i} : i_size[j] > 0 => i_block[j] \in Block \ {b}
  <2>1. SUFFICES ASSUME NEW j \in inodes \ {i}, i_size[j] > 0
                 PROVE  i_block[j] \in Block \ {b}
    OBVIOUS
  <2>2. i_block[j] \in blocks /\ i_block[j] \in Block
    BY <2>1 DEF TfsInv, TypeOK, BlocksOwned
  <2>3. CASE i_size[i] = 0
    BY <1>8, <2>2, <2>3 DEF IsFirstFree
  <2>4. CASE i_size[i] # 0
    BY <1>8, <1>9, <2>1, <2>2, <2>4 DEF TfsInv, BlocksOwned
  <2> QED
    BY <2>3, <2>4
<1>13. \A j \in inodes \ {i} : Content(j)' = Content(j)
  <2>1. SUFFICES ASSUME NEW j \in inodes \ {i}
                 PROVE  Content(j)' = Content(j)
    OBVIOUS
  <2>2. i_size'[j] = i_size[j] /\ i_block'[j] = i_block[j] /\ i_size[j] \in 0 .. BlockSize
    BY <1>9, <1>10 DEF TfsInv, TypeOK
  <2>3. Content(j)' = [k \in 1 .. i_size[j] |-> data'[i_block[j]][k - 1]]
    BY <2>2 DEF Content
  <2>4. CASE i_size[j] > 0
    BY <1>11, <1>12, <2>3, <2>4 DEF Content
  <2>5. CASE i_size[j] = 0
    BY <2>3, <2>5 DEF Content
  <2> QED
    BY <2>2, <2>4, <2>5
<1> DEFINE bs == [k \in 1 .. n |-> bytes[k]]
           s == Content(i)
           Laid == [k \in 1 .. OverlayEnd(s, off, bs) |->
                      IF k > off /\ k <= off + Len(bs) THEN bs[k - off] ELSE s[k]]
<1>14. n \in 0 .. BlockSize /\ off + n <= BlockSize /\ off \in Nat /\ n <= Len(bytes)
  BY <1>4, <1>6, <1>7
<1>15. bs \in [1 .. n -> Byte]
  BY <1>5, <1>14
<1>16. bs \in Files!Bytes /\ Len(bs) = n
  BY <1>14, <1>15 DEF Files!Bytes
<1>17. /\ Len(s) = i_size[i]
       /\ \A k \in 1 .. i_size[i] : s[k] = data[i_block[i]][k - 1]
  BY ContentIsSeq
<1>18. OverlayEnd(s, off, bs) = i_size'[i] /\ i_size'[i] \in 0 .. BlockSize
  BY <1>9, <1>10, <1>14, <1>16, <1>17 DEF OverlayEnd
<1>19. Content(i)' = Laid
  <2>1. Content(i)' = [k \in 1 .. i_size'[i] |-> data'[b][k - 1]]
    BY <1>10 DEF Content
  <2>2. ASSUME NEW k \in 1 .. i_size'[i]
        PROVE  data'[b][k - 1] = IF k > off /\ k <= off + n THEN bs[k - off] ELSE s[k]
    <3>1. k - 1 \in Cell /\ k \in Nat
      BY <1>18 DEF Cell
    <3>2. CASE k > off /\ k <= off + n
      <4>1. data'[b][k - 1] = bytes[(k - 1) - off + 1]
        <5>1. k - 1 >= off /\ k - 1 < off + n
          BY <1>14, <3>1, <3>2
        <5> QED
          BY <1>11, <3>1, <5>1
      <4>2. (k - 1) - off + 1 = k - off /\ k - off \in 1 .. n
        BY <1>14, <3>1, <3>2
      <4> QED
        BY <3>2, <4>1, <4>2
    <3>3. CASE ~(k > off /\ k <= off + n)
      <4>1. data'[b][k - 1] = data[b][k - 1]
        BY <1>11, <1>14, <3>1, <3>3
      <4>2. k \in 1 .. i_size[i]
        BY <1>2, <1>3, <1>4, <1>9, <1>10, <1>14, <3>3
      <4>3. b = i_block[i]
        BY <1>8, <1>9, <4>2
      <4> QED
        BY <1>17, <3>3, <4>1, <4>2, <4>3
    <3> QED
      BY <3>2, <3>3
  <2> QED
    BY <1>16, <1>18, <2>1, <2>2
<1>20. PICK nm \in Names : nm = NameOf(i)
  BY NamesOfInodes DEF NamesMatch
<1>21. OpenedMap[h].name = nm /\ OpenedMap[h].off = off
  BY <1>2, <1>3, <1>4, <1>20
<1>22. FilesMap[nm] = s /\ DOMAIN FilesMap = Names /\ Lookup(nm) = i
  BY <1>2, <1>3, <1>20, <1>21, NamesOfInodes DEF FilesMap, NamesMatch
<1>23. FilesMap' = [FilesMap EXCEPT ![nm] = Laid]
  <2>1. FilesMap' = [m \in Names |-> Content(Lookup(m))']
    BY <1>8, DirKept DEF FilesMap
  <2>2. \A m \in Names \ {nm} : Content(Lookup(m))' = FilesMap[m]
    <3>1. \A m \in Names \ {nm} : Lookup(m) \in inodes \ {i}
      BY <1>20, NamesOfInodes DEF NamesMatch
    <3>2. \A m \in Names : Lookup(m)' = Lookup(m)
      BY <1>8, DirKept
    <3> QED
      BY <1>13, <3>1, <3>2 DEF FilesMap
  <2>3. Lookup(nm)' = i
    BY <1>8, <1>22, DirKept
  <2>4. Content(Lookup(nm))' = Laid
    BY <1>19, <2>3
  <2> HIDE DEF Laid
  <2>5. \A m \in Names : Content(Lookup(m))' = IF m = nm THEN Laid ELSE FilesMap[m]
    BY <2>2, <2>4
  <2> QED
    BY <1>22, <2>1, <2>5
<1>24. OpenedMap' = [OpenedMap EXCEPT ![h].off = off + n]
  <2>1. /\ oft'[h].inum = i /\ oft'[h].off = off + n
        /\ \A g \in InHand \ {h} : oft'[g] = oft[g]
    BY <1>1, <1>3, <1>8 DEF TfsInv, TypeOK, InHand
  <2>2. OpenedMap' = [g \in InHand |-> [name |-> NameOf(oft'[g].inum), off |-> oft'[g].off]]
    BY <1>8, DirKept DEF OpenedMap
  <2>3. \A g \in InHand : [name |-> NameOf(oft'[g].inum), off |-> oft'[g].off]
             = IF g = h THEN [OpenedMap[h] EXCEPT !.off = off + n] ELSE OpenedMap[g]
    BY <1>2, <1>3, <2>1 DEF OpenedMap
  <2> QED
    BY <1>1, <1>2, <2>2, <2>3
<1>25. Laid = Files!Overlay(s, off, bs)
  BY DEF OverlayEnd, Files!Overlay
<1>26. Files!Write(h, bs)
  BY <1>1, <1>2, <1>8, <1>14, <1>16, <1>21, <1>22, <1>23, <1>24, <1>25
     DEF Files!Write, FilesMap, OpenedMap, Names
<1> QED
  BY <1>16, <1>26, StoreSteps

LEMMA StepRefines ==
    ASSUME Careful
    PROVE  TfsInv /\ CarefulInv /\ TfsInv' /\ [Next]_vars => [Files!Next]_Files!vars
<1>1. ASSUME TfsInv, CarefulInv, TfsInv', Next
      PROVE  Files!Next
  <2>1. CASE \E n \in AnyName, mode \in Mode :
                \/ OpenExisting(n, mode) \/ OpenCreates(n, mode)
                \/ OpenCannotCreate(n, mode) \/ OpenFails(n, mode)
    BY <1>1, <2>1, OpenExistingRefines, OpenCreatesRefines, FailingCallsRefine
  <2>2. CASE \E h \in Handle :
                \/ Close(h) \/ Leak(h)
                \/ \E bytes \in Buffer : \/ Write(h, bytes)
                                        \/ WriteDoesNothing(h, bytes)
                                        \/ WriteCrashes(h, bytes)
                \/ \E len \in 0 .. MaxLen : \/ Read(h, len)
                                           \/ ReadAborts(h, len)
                                           \/ ReadCrashes(h, len)
    <3>1. /\ \A h \in Handle, len \in 0 .. MaxLen :
                 ~ReadAborts(h, len) /\ ~ReadCrashes(h, len)
          /\ \A h \in Handle, bytes \in Buffer : ~WriteCrashes(h, bytes)
      BY <1>1, NoReadFails, NoWriteFails
    <3> QED
      BY <1>1, <2>2, <3>1, HandleGoneRefines, WriteRefines, ReadRefines,
         FailingCallsRefine
  <2>3. CASE \E n \in AnyName : Unlink(n)
    BY <1>1, <2>3, UnlinkRefines
  <2> QED
    BY <1>1, <2>1, <2>2, <2>3 DEF Next
<1>2. ASSUME TfsInv, UNCHANGED vars
      PROVE  UNCHANGED Files!vars
  <2>1. /\ FilesMap' = FilesMap /\ OpenedMap' = OpenedMap
        /\ leaked' = leaked /\ got' = got
    <3>1. \A i \in inodes \ {Root} : Content(i)' = Content(i)
      BY <1>2 DEF Content, vars
    <3> QED
      BY <1>2, <3>1, FilesKept, OpenedKept DEF vars
  <2> QED
    BY <2>1 DEF Files!vars, FilesMap, OpenedMap, Names
<1> QED
  BY <1>1, <1>2

(* With careful clients the file system is a store of named files, for     *)
(* tables of any size: what is written through a handle is what any other  *)
(* handle of the same file reads, it never shows in another file, and a    *)
(* call that fails changes nothing.                                        *)
THEOREM TfsRefinesFileStore ==
    ASSUME Careful
    PROVE  Spec => FileStoreSpec
BY InitRefines, StepRefines, Invariance, CarefulInvariance, PTL
   DEF Spec, FileStoreSpec, Files!Spec
==============================================================================
