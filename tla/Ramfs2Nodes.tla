----------------------------- MODULE Ramfs2Nodes ---------------------------
(***************************************************************************)
(* ramfs_create and ramfs_remove of kernel/fs/ramfs2/ramfs2.c opened up:   *)
(* what find_file has found, or the walk of ramfs_remove, need not hold    *)
(* any more when the node is linked or unlinked, and a file whose blocks   *)
(* are being unmarked is still in the list.                                *)
(***************************************************************************)
EXTENDS Ramfs2Write

\* pc names what it does next: "new" (the name is free, the node is made) to
\* read ctx->head, "link" to store it, "unmark" to unmark entry i or, behind
\* the last, to unlink the node.  beside: the node that node->next of a create
\* or prev of a remove points at, if any.
EditorTypeOK ==
    editor.pc # "none" =>
        /\ editor.pc \in {"new", "link", "unmark"}
        /\ editor.n \in Name
        /\ editor.pc # "new" => editor.beside \subseteq Name
        /\ Removing => editor.i \in 1 .. MaxLen + 1

CreateBegin(n) ==
    /\ editor.pc = "none" /\ n \notin DOMAIN blocks
    /\ editor' = [pc |-> "new", n |-> n]
    /\ UNCHANGED <<r2vars, writer, disk, incidents, call>>

CreateNext ==
    /\ editor.pc = "new"
    /\ editor' = [pc |-> "link", n |-> editor.n, beside |-> {list[i] : i \in DOMAIN list \cap {1}}]
    /\ UNCHANGED <<r2vars, writer, disk, incidents, call>>

\* The part of the list that begins at node->next.
Onward ==
    LET at == SelectInSeq(list, LAMBDA m : m \in editor.beside)
    IN IF at = 0 THEN <<>> ELSE SubSeq(list, at, Len(list))

\* The files that are left, and what becomes of a write to one of the others.
OnlyThese(files) ==
    writer' = IF Writing /\ writer.n \notin files THEN NoCall ELSE writer

ListIncidents(rest, files) ==
    {what \in {"lost_node", "same_node"} :
        CASE what = "lost_node" -> rest
          [] what = "same_node" -> Writing /\ writer.n \notin files}

\* The new node comes before those that were in the list when it was linked:
\* others that came meanwhile are lost, also one of the same name, which the
\* new one hides if it came before.
CreateLink ==
    /\ editor.pc = "link"
    /\ list' = <<editor.n>> \o RemoveFirst(Onward, editor.n)
    /\ blocks' = [m \in {editor.n} \cup Range(Onward) |->
                      IF m = editor.n THEN <<>> ELSE blocks[m]]
    /\ Incident(ListIncidents(Onward # list, Range(Onward) \ {editor.n})
                \cup {x \in {"same_name"} : editor.n \in Range(Onward)})
    /\ OnlyThese(Range(Onward) \ {editor.n})
    /\ editor' = NoCall
    /\ Returns("create", editor.n, <<>>, TRUE)
    /\ UNCHANGED <<block_map, disk>>

RemoveBegin(n) ==
    /\ editor.pc = "none" /\ n \in DOMAIN blocks
    /\ editor' = [pc |-> "unmark", n |-> n, i |-> 1,
                  beside |-> {list[j] : j \in {PlaceOf(n) - 1} \ {0}}]
    /\ Incident({x \in {"same_node"} : MeetsWriter("remove", n)})
    /\ writer' = IF MeetsWriter("remove", n) THEN NoCall ELSE writer
    /\ UNCHANGED <<r2vars, disk, call>>

\* Mutant of ramfs_remove: the last block of the array stays marked.
RemoveUnmarkButLast ==
    /\ Removing /\ editor.i \in DOMAIN blocks[editor.n]
    /\ \E b \in Block \cup {JUNK} :
         /\ blocks[editor.n][editor.i] \in {b, JUNK}
         /\ block_map' = IF editor.i = Len(blocks[editor.n]) THEN block_map
                         ELSE block_map \ {b}
    /\ Incident({x \in {"junk_freed"} : blocks[editor.n][editor.i] = JUNK})
    /\ editor' = [editor EXCEPT !.i = @ + 1]
    /\ UNCHANGED <<blocks, list, writer, disk, call>>

\* An entry never filled in unmarks any block, or none.
RemoveUnmark ==
    /\ Removing /\ editor.i \in DOMAIN blocks[editor.n]
    /\ \E b \in Block \cup {JUNK} :
         /\ blocks[editor.n][editor.i] \in {b, JUNK}
         /\ block_map' = block_map \ {b}
    /\ Incident({x \in {"junk_freed"} : blocks[editor.n][editor.i] = JUNK})
    /\ editor' = [editor EXCEPT !.i = @ + 1]
    /\ UNCHANGED <<blocks, list, writer, disk, call>>

\* The list without the removed node: from the one before it if there was any,
\* and else from ctx->head, which it may no longer be.
Unlinked ==
    IF editor.beside = {}
    THEN SubSeq(list, PlaceOf(editor.n) + 1, Len(list))
    ELSE RemoveFirst(list, editor.n)

RemoveUnlink ==
    /\ Removing /\ editor.i > Len(blocks[editor.n])
    /\ list' = Unlinked
    /\ blocks' = [m \in Range(Unlinked) |-> blocks[m]]
    /\ Incident(ListIncidents(editor.beside = {} /\ PlaceOf(editor.n) # 1, Range(Unlinked)))
    /\ OnlyThese(Range(Unlinked))
    /\ editor' = NoCall
    /\ Returns("remove", editor.n, <<>>, TRUE)
    /\ UNCHANGED <<block_map, disk>>

OpenNode == \E n \in Name : CreateBegin(n) \/ RemoveBegin(n)

NodeOn == CreateNext \/ CreateLink \/ RemoveUnmark \/ RemoveUnlink

-----------------------------------------------------------------------------

\* The blocks marked are those of the files and the one that a write is about
\* to enter in its array: what a failing write took comes back when the file is
\* removed.  This is so as long as no file was written a second time, no call
\* has met the node of another, and no interrupted create or remove has
\* dropped or hidden a file.  (No condition on arrays with unfilled entries:
\* they can only unmark too much.)
NoBlockLost ==
    incidents \cap {"forgotten", "same_node", "lost_node", "same_name"} = {} =>
        block_map \subseteq (UNION {Held(n) : n \in DOMAIN blocks})
                            \cup (IF writer.pc = "fill" THEN {writer.blk} ELSE {})
=============================================================================
