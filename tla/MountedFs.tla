------------------------------ MODULE MountedFs ----------------------------
(***************************************************************************)
(* The RAM disk with one of the two file systems mounted on it, behind the *)
(* wrappers of kernel/fs/fs.c, the mount table and the storage service     *)
(* that applications call.  Calls come one at a time, but for those of     *)
(* ramfs2 that change a file, which others interrupt: at any time a write, *)
(* and a create or a remove, may stand half way.                           *)
(***************************************************************************)
EXTENDS Ramfs, Ramfs2Nodes

VARIABLE mounted    \* the fs_t that mount_get_fs("ram0") returns, or "none"

vars == <<disk, attached, call, incidents, rvars, r2vars, r2open, mounted>>

Init ==
    /\ DiskInit
    /\ RamfsEmpty
    /\ Ramfs2Empty
    /\ writer = NoCall /\ editor = NoCall
    /\ mounted = "none"

\* storage_init: the buffer of the disk may fail to be allocated, which
\* nobody looks at.  (If the device or the file system's context cannot be
\* allocated nothing is mounted, as before the call.)  The kernel mounts
\* ramfs2; ramfs is there for whoever wants it.
StorageInit ==
    /\ mounted = "none"
    /\ mounted' \in {"ramfs", "ramfs2"}
    /\ attached' \in BOOLEAN
    /\ UNCHANGED <<disk, call, incidents, rvars, r2vars, r2open>>

\* The service finds no mount, or no memory for the two names.
ServiceRefuses(op, n) ==
    /\ Returns(op, n, <<>>, FALSE)
    /\ UNCHANGED <<disk, attached, incidents, rvars, r2vars, r2open, mounted>>

StorageService ==
    \E n \in Name, op \in {"create", "write", "remove"} : ServiceRefuses(op, n)

\* Bound: calls that follow these are not looked at; those under way end.
Spoilt ==
    incidents \cap {"grows", "junk_freed", "same_block", "same_node", "same_name"} # {}

Next ==
    \/ StorageInit
    \/ StorageService
    \/ /\ mounted = "ramfs" /\ ~Spoilt
       /\ RamfsCall
       /\ UNCHANGED <<attached, r2vars, r2open, mounted>>
    \/ /\ mounted = "ramfs2"
       /\ \/ ~Spoilt /\ (Ramfs2Call \/ OpenWrite \/ OpenNode)
          \/ WriteOn \/ NodeOn
       /\ UNCHANGED <<attached, rvars, mounted>>

Spec == Init /\ [][Next]_vars

-----------------------------------------------------------------------------

TypeOK == DiskTypeOK /\ RamfsTypeOK /\ Ramfs2TypeOK /\ WriterTypeOK /\ EditorTypeOK

\* No two files share a block: in ramfs2 under the condition of
\* BlocksExclusive, in ramfs under that of RowsDisjoint.  Both file systems stay
\* within the list, the map and the disk.
FsInvariant == TypeOK /\ BlocksExclusive /\ RowsDisjoint

\* What a caller that reads every file finds.
Readable ==
    IF mounted = "ramfs"
    THEN [n \in {nodes[i].name : i \in DOMAIN nodes} |-> ramfs_read(n)]
    ELSE [n \in DOMAIN blocks |-> ramfs2_read(n)]

FM == INSTANCE FileMap WITH files <- Readable

\* As long as nothing has happened but that a ramfs2 file was written again,
\* which loses its old blocks, both file systems are a map from names to
\* contents for the storage service, which takes the result 0 for success: a
\* call that returns 0 has done what was asked, one that returns an error has
\* damaged at most the file it wrote, also when the blocks ran out.
FileMapImplemented ==
    /\ FM!FileInit
    /\ [][incidents' \subseteq {"forgotten"} => FM!FileNext]_<<Readable, call>>

\* A file that a call does not name keeps its contents, also when writes
\* beyond the end of the disk, a missing disk, a renaming onto an existing
\* file or a create of a name that another create has just used have spoilt
\* others, and whatever was written into the blocks of a file whose removal is
\* under way.  What does break it: a ramfs file that grows over another's row,
\* blocks unmarked by mistake, two writes that take one block, calls that meet
\* at one node, and an interrupted create or remove that drops the files that
\* came into the list meanwhile.
OthersKeepTheirContents ==
    [][incidents' \cap {"grows", "junk_freed", "same_block", "same_node", "lost_node"} = {} =>
         \A n \in DOMAIN Readable :
            \/ call'.op = "format"
            \/ n \in {call'.name, call'.arg}
            \/ Removing /\ editor.n = n
            \/ n \in DOMAIN Readable' /\ Readable'[n] = Readable[n]]_<<Readable, call>>
=============================================================================
