----------------------------- MODULE Ramfs2Write ---------------------------
(***************************************************************************)
(* ramfs_write of kernel/fs/ramfs2/ramfs2.c opened up: the file systems    *)
(* run with interrupts enabled in the task of the application that calls   *)
(* them, so other applications' calls come between the accesses of a write *)
(* to the map, the array and the disk.                                     *)
(***************************************************************************)
EXTENDS Ramfs2

\* pc names what it does next: "test" and "set" are the two halves of
\* alloc_block, "fill" is the array entry and the data.
WriterTypeOK ==
    Writing =>
        /\ writer.pc \in {"test", "set", "fill"}
        /\ writer.n \in Name /\ writer.content \in Contents
        /\ writer.i \in 1 .. Len(writer.content) + 1
        /\ writer.blk \in Block

\* Every step of the write counts as a write that has not succeeded yet.
InProgress == Returns("write", writer.n, writer.content, FALSE)

\* The new array is in the node and counts with all its entries.
WriteBegin(n, content) ==
    /\ ~Writing /\ n \in DOMAIN blocks /\ content # <<>>
    /\ blocks' = [blocks EXCEPT ![n] = [i \in DOMAIN content |-> JUNK]]
    /\ Incident(ArrayIncidents(n, Len(content)) \cup Meets("write", n))
    /\ writer' = [pc |-> "test", n |-> n, content |-> content, i |-> 1, blk |-> 0]
    /\ editor' = IF MeetsEditor("write", n) THEN NoCall ELSE editor
    /\ Returns("write", n, content, FALSE)
    /\ UNCHANGED <<list, block_map, disk>>

WriteEnd ==
    /\ writer.pc = "test" /\ writer.i > Len(writer.content)
    /\ writer' = NoCall
    /\ Returns("write", writer.n, writer.content, TRUE)
    /\ UNCHANGED <<r2vars, editor, disk, incidents>>

\* alloc_block finds a block, or none.
AllocTest ==
    /\ writer.pc = "test" /\ writer.i <= Len(writer.content)
    /\ writer' = IF block_map = Block THEN NoCall
                 ELSE [writer EXCEPT !.pc = "set", !.blk = alloc_block(block_map)]
    /\ InProgress
    /\ UNCHANGED <<r2vars, editor, disk, incidents>>

\* Mutant of AllocSet: the mark goes to the block behind.
AllocSetNext ==
    /\ writer.pc = "set"
    /\ block_map' = block_map \cup ({writer.blk + 1} \cap Block)
    /\ Incident({x \in {"same_block"} : writer.blk \in block_map} \cup TakesBack({writer.blk}))
    /\ writer' = [writer EXCEPT !.pc = "fill"]
    /\ InProgress
    /\ UNCHANGED <<blocks, list, editor, disk>>

\* alloc_block marks it, also if somebody else has in the meantime.
AllocSet ==
    /\ writer.pc = "set"
    /\ block_map' = block_map \cup {writer.blk}
    /\ Incident({x \in {"same_block"} : writer.blk \in block_map} \cup TakesBack({writer.blk}))
    /\ writer' = [writer EXCEPT !.pc = "fill"]
    /\ InProgress
    /\ UNCHANGED <<blocks, list, editor, disk>>

WriteFill ==
    /\ writer.pc = "fill"
    /\ blocks' = [blocks EXCEPT ![writer.n][writer.i] = writer.blk]
    /\ disk' = Written(<<writer.blk>>, <<writer.content[writer.i]>>)
    /\ writer' = [writer EXCEPT !.pc = "test", !.i = @ + 1]
    /\ InProgress
    /\ UNCHANGED <<list, block_map, editor, incidents>>

OpenWrite == \E n \in Name, content \in Contents : WriteBegin(n, content)

WriteOn == AllocTest \/ AllocSet \/ WriteFill \/ WriteEnd
=============================================================================
