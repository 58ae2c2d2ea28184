--------------------------------- MODULE Tfs ---------------------------------
(***************************************************************************)
(* The in-memory file system of the broker: fs/operations.c over the       *)
(* tables of fs/state.c, after tfs_init.  A single directory, one block    *)
(* per file, first-fit allocation of inodes, blocks, directory entries and *)
(* file handles.                                                           *)
(*                                                                         *)
(* Every operation holds g_library_mutex from its beginning to its end, so *)
(* each is one action, whichever thread calls it.  i_size and of_offset    *)
(* are size_t: a difference below zero wraps around and is larger than any *)
(* length a caller passes.  The blocks lie one after the other in fs_data, *)
(* and a copy that leaves a block goes on in the next one; behind the last *)
(* it copies what it finds there, or the process crashes.                  *)
(***************************************************************************)
EXTENDS Integers, Sequences, FiniteSets

CONSTANTS Name,         \* path names that fit a directory entry
          LongName,     \* path names of MAX_FILE_NAME characters or more
          Byte,         \* what callers write
          Garbage,      \* memory that no file wrote, and an erased name
          Mode,         \* sets of flags that callers pass to tfs_open
          MaxInodes, MaxBlocks, MaxOpenFiles,   \* tfs_params
          BlockSize,    \* tfs_params
          DirEntries,   \* MAX_DIR_ENTRIES: BLOCK_SIZE / sizeof(dir_entry_t)
          MaxLen,       \* BOUND on the lengths callers pass
          MaxOffset,    \* BOUND on how far handles read on behind their block
          Careful       \* no client truncates or unlinks a file others use

ASSUME TfsAssumption ==
    /\ MaxInodes \in Nat \ {0} /\ MaxBlocks \in Nat \ {0} /\ MaxOpenFiles \in Nat
    /\ BlockSize \in Nat \ {0} /\ DirEntries \in Nat /\ MaxLen \in Nat
    /\ MaxOffset \in Nat /\ BlockSize <= MaxOffset
    /\ Name \cap LongName = {} /\ Garbage \notin Byte
    /\ Garbage \notin Name \cup LongName
    /\ Mode \subseteq SUBSET {"creat", "trunc", "append"}
    /\ Careful \in BOOLEAN

VARIABLES inodes,   \* the inumbers taken in freeinode_ts
          i_size,   \* i_size and i_data_block of the inode table
          i_block,
          blocks,   \* the block numbers taken in free_blocks
          data,     \* data[b][k]: byte k of block b
          dir,      \* dir[i]: d_inumber and d_name of entry i of the root
          open,     \* the handles taken in free_open_file_entries
          leaked,   \* those whose client went away without closing them
          oft,      \* oft[h]: of_inumber and of_offset
          got,      \* the bytes the last tfs_read copied out
          status    \* how the process fares

vars == <<inodes, i_size, i_block, blocks, data, dir, open, leaked, oft, got,
          status>>

Root == 0
Inum == 0 .. MaxInodes - 1
Block == 0 .. MaxBlocks - 1
Handle == 0 .. MaxOpenFiles - 1
Entry == 0 .. DirEntries - 1
Cell == 0 .. BlockSize - 1
AnyName == Name \cup LongName

(* tfs_init: the root directory owns block 0, its entries are free, and    *)
(* the names in them are whatever malloc left there.                       *)
Init == /\ inodes = {Root}
        /\ i_size = [i \in Inum |-> IF i = Root THEN BlockSize ELSE 0]
        /\ i_block = [i \in Inum |-> IF i = Root THEN 0 ELSE -1]
        /\ blocks = {0}
        /\ data = [b \in Block |-> [k \in Cell |-> Garbage]]
        /\ \E names \in [Entry -> Name \cup {Garbage}] :
              dir = [i \in Entry |-> [inum |-> -1, name |-> names[i]]]
        /\ open = {}
        /\ leaked = {}
        /\ oft = [h \in Handle |-> [inum |-> -1, off |-> 0]]
        /\ got = <<>>
        /\ status = "running"

(* The first number of S that is not taken: every table is searched so.    *)
IsFirstFree(i, S, taken) == /\ i \in S \ taken
                            /\ \A j \in S \ taken : i <= j

(* find_in_dir: the first entry in use that has the name.                  *)
InUse == {i \in Entry : dir[i].inum # -1}
HasName(n) == {i \in InUse : dir[i].name = n}
Found(n) == HasName(n) # {}
Lookup(n) == LET first == CHOOSE i \in HasName(n) : \A j \in HasName(n) : i <= j
             IN  dir[first].inum

(* A leaked handle stays taken, and nobody uses it any more.               *)
InHand == open \ leaked
IsOpen(i) == \E h \in InHand : oft[h].inum = i

(* Mutant: the size survives the truncation.                               *)
SizeOnTrunc_Kept(i) == i_size[i]
(* What a truncation leaves of the size of inode i.                        *)
SizeOnTrunc(i) == 0

(* add_to_open_file_table and the end of tfs_open.                         *)
TakeHandle(i, offset) ==
    \/ /\ open = Handle
       /\ UNCHANGED <<open, oft>>
    \/ \E h \in Handle :
          /\ IsFirstFree(h, Handle, open)
          /\ open' = open \cup {h}
          /\ oft' = [oft EXCEPT ![h] = [inum |-> i, off |-> offset]]

Returns == got' = <<>> /\ UNCHANGED <<leaked, status>>

-------------------------------------------------------------------------------
(* tfs_open.                                                               *)

OpenExisting(n, mode) ==
    LET i == Lookup(n)
        cut == "trunc" \in mode /\ i_size[i] > 0
    IN  /\ Found(n)
        /\ "trunc" \in mode /\ Careful => ~IsOpen(i)
        /\ blocks' = IF cut THEN blocks \ {i_block[i]} ELSE blocks
        /\ i_size' = [i_size EXCEPT ![i] = IF cut THEN SizeOnTrunc(i) ELSE @]
        /\ TakeHandle(i, IF "append" \in mode THEN i_size'[i] ELSE 0)
        /\ Returns
        /\ UNCHANGED <<inodes, i_block, data, dir>>

OpenCreates(n, mode) ==
    \E i \in Inum, e \in Entry :
        /\ ~Found(n) /\ n \in Name
        /\ "creat" \in mode
        /\ IsFirstFree(i, Inum, inodes)
        /\ IsFirstFree(e, Entry, InUse)
        /\ inodes' = inodes \cup {i}
        /\ i_size' = [i_size EXCEPT ![i] = 0]
        /\ i_block' = [i_block EXCEPT ![i] = -1]
        /\ dir' = [dir EXCEPT ![e] = [inum |-> i, name |-> n]]
        /\ TakeHandle(i, 0)
        /\ Returns
        /\ UNCHANGED <<blocks, data>>

(* Mutant: the inode is not given back.                                    *)
OpenCannotCreate_KeepsInode(n, mode) ==
    \E i \in Inum :
        /\ ~Found(n)
        /\ "creat" \in mode
        /\ IsFirstFree(i, Inum, inodes)
        /\ n \in LongName \/ InUse = Entry
        /\ inodes' = inodes \cup {i}
        /\ i_size' = [i_size EXCEPT ![i] = 0]
        /\ i_block' = [i_block EXCEPT ![i] = -1]
        /\ Returns
        /\ UNCHANGED <<blocks, data, dir, open, oft>>

(* add_dir_entry refuses the name or finds no entry: the inode that was    *)
(* created for the file is deleted again.                                  *)
OpenCannotCreate(n, mode) ==
    \E i \in Inum :
        /\ ~Found(n)
        /\ "creat" \in mode
        /\ IsFirstFree(i, Inum, inodes)
        /\ n \in LongName \/ InUse = Entry
        /\ i_size' = [i_size EXCEPT ![i] = 0]
        /\ i_block' = [i_block EXCEPT ![i] = -1]
        /\ Returns
        /\ UNCHANGED <<inodes, blocks, data, dir, open, oft>>

(* No such file and no O_CREAT, or no inode left.                          *)
OpenFails(n, mode) ==
    /\ ~Found(n)
    /\ "creat" \in mode => inodes = Inum
    /\ Returns
    /\ UNCHANGED <<inodes, i_size, i_block, blocks, data, dir, open, oft>>

-------------------------------------------------------------------------------
Close(h) == /\ h \in InHand
            /\ open' = open \ {h}
            /\ Returns
            /\ UNCHANGED <<inodes, i_size, i_block, blocks, data, dir, oft>>

(* Its client forgets the handle, as a subscription does that its client   *)
(* left.                                                                   *)
Leak(h) == /\ h \in InHand
           /\ leaked' = leaked \cup {h}
           /\ got' = <<>>
           /\ UNCHANGED <<inodes, i_size, i_block, blocks, data, dir, open, oft, status>>

Ends(how) ==
    /\ status' = how
    /\ got' = <<>>
    /\ UNCHANGED <<inodes, i_size, i_block, blocks, data, dir, open, leaked, oft>>
(* ALWAYS_ASSERT in data_block_get fails.                                  *)
Abort == Ends("aborted")
(* memcpy comes to memory that is not mapped.                              *)
Crash == Ends("crashed")

(* Mutant: the bytes are not cut off at the end of the block.              *)
ToWrite_Uncut(len, off) == len
(* How many of len bytes tfs_write takes at an offset; below zero stands   *)
(* for the difference that wraps around when the offset is behind the end  *)
(* of the block.                                                           *)
ToWrite(len, off) == IF len + off > BlockSize THEN BlockSize - off ELSE len

(* Mutant: the size of the file is where the handle stands.                *)
SizeAfterWrite_Offset(i, end) == end
(* The size of inode i after a write up to end.                            *)
SizeAfterWrite(i, end) == IF end > i_size[i] THEN end ELSE i_size[i]

(* tfs_write with a block at hand.                                         *)
StoreBytes(h, bytes, b) ==
    LET i == oft[h].inum
        off == oft[h].off
        n == ToWrite(Len(bytes), off)
    IN  /\ i_block' = [i_block EXCEPT ![i] = b]
        /\ blocks' = IF i_size[i] = 0 THEN blocks \cup {b} ELSE blocks
        /\ data' = [data EXCEPT ![b] = [k \in Cell |->
                       IF k >= off /\ k < off + n THEN bytes[k - off + 1] ELSE @[k]]]
        /\ oft' = [oft EXCEPT ![h].off = off + n]
        /\ i_size' = [i_size EXCEPT ![i] = SizeAfterWrite(i, off + n)]
        /\ Returns
        /\ UNCHANGED <<inodes, dir, open>>

(* The block is the one of the file or, for an empty file, the first free. *)
Write(h, bytes) ==
    LET i == oft[h].inum
        off == oft[h].off
    IN  /\ h \in InHand
        /\ ToWrite(Len(bytes), off) > 0
        /\ \E b \in Block :
              /\ IF i_size[i] = 0 THEN IsFirstFree(b, Block, blocks) ELSE b = i_block[i]
              /\ StoreBytes(h, bytes, b)

(* Nothing to write, or an empty file and no block left.                   *)
WriteDoesNothing(h, bytes) ==
    /\ h \in InHand
    /\ \/ ToWrite(Len(bytes), oft[h].off) = 0
       \/ i_size[oft[h].inum] = 0 /\ blocks = Block
    /\ Returns
    /\ UNCHANGED <<inodes, i_size, i_block, blocks, data, dir, open, oft>>

(* From behind the end of the block, tfs_write copies nearly 2^64 bytes.   *)
WriteCrashes(h, bytes) ==
    /\ h \in InHand
    /\ ToWrite(Len(bytes), oft[h].off) < 0
    /\ i_size[oft[h].inum] = 0 => blocks # Block
    /\ Crash

(* How many bytes tfs_read copies.  A handle behind the end of the file    *)
(* (truncated since) makes the difference wrap around.                     *)
ToRead(h, len) ==
    LET left == i_size[oft[h].inum] - oft[h].off
    IN  IF left < 0 \/ left > len THEN len ELSE left

(* Mutant: the handle moves by what was asked for.                         *)
Advance_Asked(h, len) == len
(* By how much a read moves the handle.                                    *)
Advance(h, len) == ToRead(h, len)

(* The byte k behind the beginning of block b, in whichever block that is. *)
ByteAt(b, k) == LET c == b + k \div BlockSize
                IN  IF c \in Block THEN data[c][k % BlockSize] ELSE Garbage

Read(h, len) ==
    LET b == i_block[oft[h].inum]
        off == oft[h].off
        n == ToRead(h, len)
    IN  /\ h \in InHand
        /\ n > 0 => b # -1
        /\ off + Advance(h, len) <= MaxOffset
        /\ got' = [k \in 1 .. n |-> ByteAt(b, off + k - 1)]
        /\ oft' = [oft EXCEPT ![h].off = off + Advance(h, len)]
        /\ UNCHANGED <<inodes, i_size, i_block, blocks, data, dir, open, leaked, status>>

ReadAborts(h, len) == /\ h \in InHand
                      /\ ToRead(h, len) > 0
                      /\ i_block[oft[h].inum] = -1
                      /\ Abort

(* The copy goes on behind the last block.                                 *)
ReadCrashes(h, len) ==
    LET b == i_block[oft[h].inum]
        last == oft[h].off + ToRead(h, len) - 1
    IN  /\ h \in InHand
        /\ ToRead(h, len) > 0
        /\ b # -1
        /\ b + last \div BlockSize \notin Block
        /\ Crash

-------------------------------------------------------------------------------
(* Mutant: a file of a single byte keeps its block.                        *)
Freed_OffByOne(i) == IF i_size[i] > 1 THEN {i_block[i]} ELSE {}
(* What inode_delete gives back: only a file with content has a block.     *)
Freed(i) == IF i_size[i] > 0 THEN {i_block[i]} ELSE {}

(* tfs_unlink: inode_delete, then clear_dir_entry, which compares names    *)
(* without looking whether the entry is in use.                            *)
Unlink(n) ==
    LET i == Lookup(n)
        named == {e \in Entry : dir[e].name = n}
    IN  /\ Found(n)
        /\ Careful => ~IsOpen(i)
        /\ inodes' = inodes \ {i}
        /\ blocks' = blocks \ Freed(i)
        /\ \E e \in named :
              /\ \A f \in named : e <= f
              /\ dir' = [dir EXCEPT ![e] = [inum |-> -1, name |-> Garbage]]
        /\ Returns
        /\ UNCHANGED <<i_size, i_block, data, open, oft>>

Buffer == UNION {[1 .. k -> Byte] : k \in 0 .. MaxLen}

Next == /\ status = "running"
        /\ \/ \E n \in AnyName, mode \in Mode :
                 \/ OpenExisting(n, mode) \/ OpenCreates(n, mode)
                 \/ OpenCannotCreate(n, mode) \/ OpenFails(n, mode)
           \/ \E h \in Handle :
                 \/ Close(h) \/ Leak(h)
                 \/ \E bytes \in Buffer : \/ Write(h, bytes)
                                         \/ WriteDoesNothing(h, bytes)
                                         \/ WriteCrashes(h, bytes)
                 \/ \E len \in 0 .. MaxLen : \/ Read(h, len)
                                            \/ ReadAborts(h, len)
                                            \/ ReadCrashes(h, len)
           \/ \E n \in AnyName : Unlink(n)

Spec == Init /\ [][Next]_vars

-------------------------------------------------------------------------------
(* Every table has its shape.  In particular no file becomes longer than   *)
(* its block, although a handle may stand behind the end of it: the size   *)
(* is set from such a handle by no write, which crashes first.             *)
TypeOK ==
    /\ inodes \subseteq Inum
    /\ i_size \in [Inum -> 0 .. BlockSize]
    /\ i_block \in [Inum -> Block \cup {-1}]
    /\ blocks \subseteq Block
    /\ data \in [Block -> [Cell -> Byte \cup {Garbage}]]
    /\ dir \in [Entry -> [inum : Inum \cup {-1}, name : Name \cup {Garbage}]]
    /\ open \subseteq Handle
    /\ leaked \subseteq open
    /\ oft \in [Handle -> [inum : Inum \cup {-1}, off : 0 .. MaxOffset]]
    /\ got \in Seq(Byte \cup {Garbage})
    /\ status \in {"running", "aborted", "crashed"}

(* No two files share a block, and no file has lost its own to the free    *)
(* blocks, whatever stale handles and truncations clients are up to.       *)
BlocksOwned ==
    /\ \A i \in inodes : i_size[i] > 0 => i_block[i] \in blocks
    /\ \A i, j \in inodes :
           i # j /\ i_size[i] > 0 /\ i_size[j] > 0 => i_block[i] # i_block[j]

(* The directory and the inode table agree: every inode but the root has   *)
(* one entry, every entry an inode of its own and a name of its own.  A    *)
(* failed creation gives its inode back, and an unlink erases the right    *)
(* entry although it compares names of entries that were never written.    *)
DirMatchesInodes ==
    /\ {dir[e].inum : e \in InUse} = inodes \ {Root}
    /\ \A e, f \in InUse : e # f => /\ dir[e].inum # dir[f].inum
                                   /\ dir[e].name # dir[f].name

(* With careful clients every block in use belongs to a file: nothing      *)
(* leaks, on no error path.                                                *)
NoBlockLost ==
    blocks = {i_block[i] : i \in {j \in inodes : i_size[j] > 0}}

(* With careful clients every handle in use stands in a file that exists   *)
(* and not behind its end.                                                 *)
HandlesInFiles ==
    \A h \in InHand : /\ oft[h].inum \in inodes \ {Root}
                    /\ oft[h].off <= i_size[oft[h].inum]

(* With careful clients no assertion fails, no read goes on behind the     *)
(* last block and no write behind its own.                                 *)
StaysRunning == status = "running"

(* With careful clients the tables are a store of named files: what is     *)
(* written through one handle is read back through any other of the same   *)
(* file, and never shows in another file.                                  *)
Content(i) == [k \in 1 .. i_size[i] |-> data[i_block[i]][k - 1]]
NameOf(i) == dir[CHOOSE e \in InUse : dir[e].inum = i].name
Files == INSTANCE FileStore WITH
    files <- [n \in {dir[e].name : e \in InUse} |-> Content(Lookup(n))],
    opened <- [h \in InHand |-> [name |-> NameOf(oft[h].inum), off |-> oft[h].off]],
    leaked <- leaked,
    got <- got
FileStoreSpec == Files!Spec

(* operations.h:111 says that tfs_read returns the number of bytes copied  *)
(* "from the file", "lower than 'len' if the file size was reached": no    *)
(* byte behind the end of the file is copied.                              *)
ReadsStayInFile ==
    [][\A h \in InHand, len \in 1 .. MaxLen :
           Read(h, len) /\ got' # <<>> =>
               oft[h].off + Len(got') <= i_size[oft[h].inum]]_vars

(* ALWAYS_ASSERT in data_block_get, state.c:449: "invalid block number" is *)
(* a state the file system believes it is never in.                        *)
BlockNumbersValid == status # "aborted"
==============================================================================
