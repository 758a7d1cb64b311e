-------------------------------- MODULE Ramfs ------------------------------
(***************************************************************************)
(* kernel/fs/ramfs/ramfs.c: a file is a row of blocks whose first one is   *)
(* chosen when the file is created, not when it is written.                *)
(***************************************************************************)
EXTENDS RamDisk

CONSTANTS
    MaxFree,    \* bound of next_free_block
    MaxNodes    \* bound of the list of files

ASSUME RamfsAssumption == MaxFree \in Nat /\ MaxNodes \in Nat

VARIABLES nodes, next_free_block

rvars == <<nodes, next_free_block>>

Node == [name : Name, size : 0 .. MaxLen, start_block : 0 .. MaxFree]

RamfsTypeOK ==
    /\ nodes \in Seq(Node) /\ Len(nodes) <= MaxNodes
    /\ next_free_block \in 0 .. MaxFree

\* ramfs_mount and ramfs_format: an empty list, all blocks unused.
RamfsEmpty == nodes = <<>> /\ next_free_block = 0

\* The first node with the name, 0 if there is none.
find_file(n) == SelectInSeq(nodes, LAMBDA f : f.name = n)

Row(f) == [i \in 1 .. f.size |-> f.start_block + i - 1]

\* ramfs_read of a whole file.
ramfs_read(n) == ReadBlocks(Row(nodes[find_file(n)]))

RamfsRefuses(op, n, arg) ==
    /\ Returns(op, n, arg, FALSE)
    /\ UNCHANGED <<rvars, disk, incidents>>

-----------------------------------------------------------------------------

ramfs_format ==
    /\ nodes' = <<>> /\ next_free_block' = 0
    /\ Returns("format", "", <<>>, TRUE)
    /\ UNCHANGED <<disk, incidents>>

\* A create fails if the name exists, or for want of memory.
ramfs_create(n) ==
    \/ RamfsRefuses("create", n, <<>>)
    \/ /\ find_file(n) = 0
       /\ Len(nodes) < MaxNodes
       /\ LET node == [name |-> n, size |-> 0, start_block |-> next_free_block]
          IN nodes' = <<node>> \o nodes
       /\ Returns("create", n, <<>>, TRUE)
       /\ UNCHANGED <<next_free_block, disk, incidents>>

\* What a write of k blocks to f meets that ramfs is not made for: f gets
\* more blocks than it has although blocks behind it were given out since
\* it was created, or the end of the disk, or no disk.
WriteIncidents(f, k) ==
    {what \in {"grows", "full", "no_disk"} :
        CASE what = "grows"   -> k > f.size /\ f.start_block # next_free_block
          [] what = "full"    -> k > 0 /\ f.start_block + k > BlockCount
          [] what = "no_disk" -> k > 0 /\ ~attached}

\* Every write, a rewrite too, moves next_free_block.
ramfs_write(n, content) ==
    LET f == find_file(n)  k == Len(content) IN
    \/ /\ f = 0
       /\ RamfsRefuses("write", n, content)
    \/ /\ f # 0
       /\ next_free_block + k <= MaxFree
       /\ nodes' = [nodes EXCEPT ![f].size = k]
       /\ next_free_block' = next_free_block + k
       /\ disk' = Written([i \in 1 .. k |-> nodes[f].start_block + i - 1], content)
       /\ Incident(WriteIncidents(nodes[f], k))
       /\ Returns("write", n, content, TRUE)

ramfs_remove(n) ==
    LET f == find_file(n) IN
    \/ /\ f = 0
       /\ RamfsRefuses("remove", n, <<>>)
    \/ /\ f # 0
       /\ nodes' = RemoveAt(nodes, f)
       /\ Returns("remove", n, <<>>, TRUE)
       /\ UNCHANGED <<next_free_block, disk, incidents>>

\* The new name may be another file's.
ramfs_rename(n, new) ==
    LET f == find_file(n) IN
    \/ /\ f = 0
       /\ RamfsRefuses("rename", n, new)
    \/ /\ f # 0
       /\ nodes' = [nodes EXCEPT ![f].name = new]
       /\ Incident(IF new # n /\ find_file(new) # 0 THEN {"renamed_over"} ELSE {})
       /\ Returns("rename", n, new, TRUE)
       /\ UNCHANGED <<next_free_block, disk>>

RamfsCall ==
    \/ \E n \in Name : ramfs_create(n) \/ ramfs_remove(n)
    \/ \E n \in Name, content \in Contents : ramfs_write(n, content)
    \/ \E n, new \in Name : ramfs_rename(n, new)
    \/ ramfs_format

-----------------------------------------------------------------------------

\* As long as no file has grown over blocks given out behind it, the rows of
\* any two files are disjoint, and all lie below next_free_block, where the
\* next file will begin.
RowsDisjoint ==
    "grows" \notin incidents =>
        \A i, j \in DOMAIN nodes :
            /\ nodes[i].start_block + nodes[i].size <= next_free_block
            /\ i # j => Range(Row(nodes[i])) \cap Range(Row(nodes[j])) = {}
=============================================================================
