------------------------------- MODULE Ramfs2 ------------------------------
(***************************************************************************)
(* kernel/fs/ramfs2/ramfs2.c: a file is an array of block numbers, taken   *)
(* one by one from a map of used blocks.  The size field is written and    *)
(* never read, and is left out.  The calls here run to their end without a *)
(* tick; those that ticks interrupt (Ramfs2Write, Ramfs2Nodes) may have    *)
(* been left half way.                                                     *)
(***************************************************************************)
EXTENDS RamDisk

CONSTANT JUNK       \* an array entry nobody has filled in

ASSUME JunkAssumption == JUNK \notin Block

VARIABLES
    blocks,         \* the files: name to file.blocks[0 .. block_count - 1]
    list,           \* their names in the order of the list, ctx->head first
    block_map,      \* the blocks marked as used
    writer,         \* the locals of a write that has been interrupted
    editor          \* those of a create or remove that has been interrupted

r2vars == <<blocks, list, block_map>>
r2open == <<writer, editor>>

NoCall == [pc |-> "none"]

Ramfs2TypeOK ==
    /\ DOMAIN blocks \subseteq Name
    /\ list \in Seq(Name) /\ Range(list) = DOMAIN blocks /\ IsInjective(list)
    /\ \A n \in DOMAIN blocks :
         blocks[n] \in Seq(Block \cup {JUNK}) /\ Len(blocks[n]) <= MaxLen
    /\ block_map \subseteq Block

\* ramfs_mount: no file, no block used.
Ramfs2Empty == blocks = [n \in {} |-> <<>>] /\ list = <<>> /\ block_map = {}

\* ramfs_read reads all the blocks of the array, whatever the length asked.
ramfs2_read(n) == ReadBlocks(blocks[n])

\* Where find_file finds a file in the list.
PlaceOf(n) == SelectInSeq(list, LAMBDA m : m = n)

Ramfs2Refuses(op, n, arg) ==
    /\ Returns(op, n, arg, FALSE)
    /\ UNCHANGED <<r2vars, r2open, disk, incidents>>

-----------------------------------------------------------------------------
(* What a call may do to those under way. *)

Writing == writer.pc # "none"
Removing == editor.pc = "unmark"

\* The blocks that an unfinished remove has unmarked: its file, which is still
\* in the list, still names them.
GivenBack ==
    IF Removing THEN {blocks[editor.n][j] : j \in 1 .. editor.i - 1} ELSE {}

TakesBack(taken) == {x \in {"reused_early"} : taken \cap GivenBack # {}}

\* The call writes to, or frees, a node at which a pointer of a call under way
\* is.
MeetsWriter(op, n) == Writing /\ op \in {"write", "remove"} /\ writer.n = n
MeetsEditor(op, n) ==
    \/ Removing /\ op \in {"write", "remove"} /\ editor.n = n
    \/ editor.pc \in {"link", "unmark"} /\ op = "remove" /\ n \in editor.beside

Meets(op, n) == {x \in {"same_node"} : MeetsWriter(op, n) \/ MeetsEditor(op, n)}

\* What such a call under way does from there on is not followed.
Passes(op, n) ==
    /\ writer' = IF MeetsWriter(op, n) THEN NoCall ELSE writer
    /\ editor' = IF MeetsEditor(op, n) THEN NoCall ELSE editor

-----------------------------------------------------------------------------

\* A create fails if the name exists, or for want of memory.
ramfs2_create(n) ==
    \/ Ramfs2Refuses("create", n, <<>>)
    \/ /\ n \notin DOMAIN blocks
       /\ blocks' = [m \in DOMAIN blocks \cup {n} |->
                        IF m = n THEN <<>> ELSE blocks[m]]
       /\ list' = <<n>> \o list
       /\ Returns("create", n, <<>>, TRUE)
       /\ UNCHANGED <<block_map, r2open, disk, incidents>>

\* The first block not marked as used.
alloc_block(used) ==
    CHOOSE b \in Block \ used : \A free \in Block \ used : b <= free

\* The blocks that k successful calls of alloc_block return.
Allocated(k) ==
    LET got[i \in 1 .. k] ==
          alloc_block(block_map \cup {got[j] : j \in 1 .. i - 1})
    IN got

\* What giving a file a new array, with k blocks filled, meets: the blocks of
\* its old array stay marked for ever; without a disk the data is lost.
ArrayIncidents(n, k) ==
    {what \in {"forgotten", "no_disk"} :
        CASE what = "forgotten" -> blocks[n] # <<>>
          [] what = "no_disk"   -> k > 0 /\ ~attached}

\* There is no memory for the array, as there never is for one of no blocks:
\* the pointer is lost, the old count stays.
WriteLosesArray(n, content) ==
    /\ n \in DOMAIN blocks
    /\ blocks' = [blocks EXCEPT ![n] = [i \in DOMAIN @ |-> JUNK]]
    /\ Incident(ArrayIncidents(n, 0) \cup Meets("write", n))
    /\ Passes("write", n)
    /\ Returns("write", n, content, FALSE)
    /\ UNCHANGED <<list, block_map, disk>>

\* Mutant of ramfs_write: the data goes to the blocks in reverse order.
WriteToBlocksReversed(n, content) ==
    /\ n \in DOMAIN blocks /\ content # <<>>
    /\ LET k   == Len(content)
           got == IF k <= Cardinality(Block \ block_map)
                  THEN k ELSE Cardinality(Block \ block_map)
           at  == Allocated(got)
       IN /\ blocks' = [blocks EXCEPT ![n] =
                          [i \in 1 .. k |-> IF i <= got THEN at[i] ELSE JUNK]]
          /\ Incident(ArrayIncidents(n, got) \cup Meets("write", n) \cup TakesBack(Range(at)))
          /\ block_map' = block_map \cup Range(at)
          /\ disk' = Written(Reverse(at), SubSeq(content, 1, got))
          /\ Returns("write", n, content, got = k)
    /\ Passes("write", n)
    /\ UNCHANGED list

\* Blocks are allocated and written one by one until none is free; then the
\* rest of the array stays as mem_alloc delivered it, and counts.
WriteToBlocks(n, content) ==
    /\ n \in DOMAIN blocks /\ content # <<>>
    /\ LET k   == Len(content)
           got == IF k <= Cardinality(Block \ block_map)
                  THEN k ELSE Cardinality(Block \ block_map)
           at  == Allocated(got)
       IN /\ blocks' = [blocks EXCEPT ![n] =
                          [i \in 1 .. k |-> IF i <= got THEN at[i] ELSE JUNK]]
          /\ Incident(ArrayIncidents(n, got) \cup Meets("write", n) \cup TakesBack(Range(at)))
          /\ block_map' = block_map \cup Range(at)
          /\ disk' = Written(at, SubSeq(content, 1, got))
          /\ Returns("write", n, content, got = k)
    /\ Passes("write", n)
    /\ UNCHANGED list

ramfs2_write(n, content) ==
    \/ /\ n \notin DOMAIN blocks
       /\ Ramfs2Refuses("write", n, content)
    \/ WriteLosesArray(n, content)
    \/ WriteToBlocks(n, content)

\* The entries of a file's array that were never filled in.
Unfilled(n) == {i \in DOMAIN blocks[n] : blocks[n][i] = JUNK}

\* Every entry of the array is unmarked.  One that was never filled in is
\* the number of any block, or of none (then another byte of the heap is
\* cleared, which is outside this model).
ramfs2_remove(n) ==
    \/ /\ n \notin DOMAIN blocks
       /\ Ramfs2Refuses("remove", n, <<>>)
    \/ /\ n \in DOMAIN blocks
       /\ \E hit \in SUBSET Block :
            /\ Cardinality(hit) <= Cardinality(Unfilled(n))
            /\ block_map' = block_map \ (Range(blocks[n]) \cup hit)
       /\ blocks' = [m \in DOMAIN blocks \ {n} |-> blocks[m]]
       /\ list' = RemoveFirst(list, n)
       /\ Incident({x \in {"junk_freed"} : JUNK \in Range(blocks[n])} \cup Meets("remove", n))
       /\ Passes("remove", n)
       /\ Returns("remove", n, <<>>, TRUE)
       /\ UNCHANGED disk

\* ramfs2 has no format and no rename: the wrappers of fs.c return -1.
ramfs2_missing ==
    \/ Ramfs2Refuses("format", "", <<>>)
    \/ \E n, new \in Name : Ramfs2Refuses("rename", n, new)

Ramfs2Call ==
    \/ \E n \in Name : ramfs2_create(n) \/ ramfs2_remove(n)
    \/ \E n \in Name, content \in Contents : ramfs2_write(n, content)
    \/ ramfs2_missing

-----------------------------------------------------------------------------

\* The entries of a file's array that no removal under way has given back.
Kept(n) ==
    {i \in DOMAIN blocks[n] :
        blocks[n][i] # JUNK /\ ~(Removing /\ editor.n = n /\ i < editor.i)}

Held(n) == {blocks[n][i] : i \in Kept(n)}

\* Every block of a file is marked as used, belongs to no other file, and
\* stands once in its array; of a file whose removal is under way only the
\* blocks count that it has not given back yet.  This is so as long as no array
\* with entries never filled in was removed, no two writes were between the two
\* halves of alloc_block at once, and no call has met the node of another; a
\* write that ran out of blocks half way, a remove or a create that was
\* interrupted, and files that were lost change none of it.
BlocksExclusive ==
    incidents \cap {"junk_freed", "same_block", "same_node"} = {} =>
        \A n \in DOMAIN blocks :
            /\ Held(n) \subseteq block_map
            /\ \A m \in DOMAIN blocks \ {n} : Held(n) \cap Held(m) = {}
            /\ \A i, j \in Kept(n) : i # j => blocks[n][i] # blocks[n][j]
=============================================================================
