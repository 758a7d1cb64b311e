------------------------------- MODULE RamDisk -----------------------------
(***************************************************************************)
(* The RAM disk of drivers/storage/ram/storage_ram.c, and what the two     *)
(* file systems on it share.  A block holds one value; lengths are counted *)
(* in blocks.  The file systems ignore the result of every read and write. *)
(***************************************************************************)
EXTENDS Naturals, Sequences, FiniteSets, SequencesExt

CONSTANTS
    Name,        \* the file names (shorter than the 32 bytes of file_t.name)
    Data,        \* what a block can be filled with
    BLANK,       \* the 0xfd of a new disk
    UNREAD,      \* what a failing read leaves in the caller's buffer
    BlockCount,  \* RAMDISK_BLOCK_COUNT
    MaxLen       \* bound: no file is written with more blocks

ASSUME DiskAssumption ==
    /\ BlockCount \in Nat \ {0}
    /\ MaxLen \in Nat
    /\ {BLANK, UNREAD} \cap Data = {} /\ BLANK # UNREAD

VARIABLES
    disk,       \* ctx->buffer
    attached,   \* dev_base.ctx is set: ram_init has succeeded
    call,       \* the last call of a file operation, and its result
    incidents   \* history: what has happened that a file system cannot bear

Block == 0 .. BlockCount - 1
Contents == UNION {[1 .. k -> Data] : k \in 0 .. MaxLen}

DiskTypeOK ==
    /\ disk \in [Block -> Data \cup {BLANK}]
    /\ attached \in BOOLEAN
    /\ call.op \in {"none", "create", "write", "remove", "rename", "format"}

\* A device without its buffer, which storage_ram_init leaves registered.
DiskInit ==
    /\ disk = [b \in Block |-> BLANK]
    /\ attached = FALSE
    /\ call = [op |-> "none"]
    /\ incidents = {}

\* Mutant of ram_write: the bound is one too large, and the write wraps into
\* the first block.
WrittenWraps(at, content) ==
    [b \in Block |->
        LET hits == {i \in DOMAIN content :
                        at[i] = b \/ (at[i] = BlockCount /\ b = 0)}
        IN IF attached /\ hits # {} THEN content[CHOOSE i \in hits : TRUE]
                                    ELSE disk[b]]

\* The disk after ops->write of content to the block numbers at, in order;
\* ram_write refuses numbers beyond the disk, and all without a buffer.
Written(at, content) ==
    [b \in Block |->
        LET hits == {i \in DOMAIN content : at[i] = b}
        IN IF attached /\ hits # {}
           THEN content[CHOOSE i \in hits : \A j \in hits : j <= i]
           ELSE disk[b]]

\* What ops->read of the block numbers at delivers.
ReadBlocks(at) ==
    [i \in DOMAIN at |->
        IF attached /\ at[i] \in Block THEN disk[at[i]] ELSE UNREAD]

Returns(op, n, arg, ok) ==
    call' = [op |-> op, name |-> n, arg |-> arg, ok |-> ok]

Incident(what) == incidents' = incidents \cup what
=============================================================================
