----------------------------- MODULE MCMountedFs ---------------------------
(* Instances of MountedFs for TLC. *)
EXTENDS MountedFs, TLC

\* No action reads call: it is only the label of the last step.  What stands in
\* a block that no file has is not read before it is written, nor is the number
\* of the block that a write has entered in its array.
InFiles ==
    UNION {Range(blocks[n]) : n \in DOMAIN blocks} \cup
    UNION {Range(Row(nodes[i])) : i \in DOMAIN nodes}

FsView ==
    <<[b \in Block \cap InFiles |-> disk[b]],
      IF writer.pc = "test" THEN [writer EXCEPT !.blk = 0] ELSE writer,
      attached, incidents, rvars, r2vars, editor, mounted>>

FsSymmetry == Permutations(Name) \cup Permutations(Data)

\* Bound: nothing follows the third kind of incident.
FewIncidents == Cardinality(incidents) <= 2
=============================================================================
