------------------------------- MODULE FileMap -----------------------------
(***************************************************************************)
(* What the storage service of kernel/vm/kernel_services.c takes a file    *)
(* system for: a map from the names of the files to their contents, in     *)
(* which the result 0 of a call says that it has done what was asked.  (Of *)
(* a write kernel/fs/fs.h promises the number of bytes written instead,    *)
(* which neither file system returns.)  call is the last operation, with   *)
(* what it was asked and whether it returned 0.                            *)
(***************************************************************************)
EXTENDS FiniteSets

CONSTANT Name

VARIABLES files, call

FileInit ==
    /\ files = [n \in {} |-> <<>>]
    /\ call = [op |-> "none"]

Untouched(names) ==
    /\ DOMAIN files' \ names = DOMAIN files \ names
    /\ \A n \in DOMAIN files \ names : files'[n] = files[n]

Asked(op, n) == call'.op = op /\ call'.name = n

\* A new file is empty; creating an existing one is an error.
Create(n) ==
    /\ Asked("create", n)
    /\ Untouched({n})
    /\ IF call'.ok
       THEN n \notin DOMAIN files /\ n \in DOMAIN files' /\ files'[n] = <<>>
       ELSE files' = files

\* A write replaces the contents of an existing file.  One that returns an
\* error may leave the file in any state, but not another file.
Write(n) ==
    /\ Asked("write", n)
    /\ DOMAIN files' = DOMAIN files
    /\ Untouched({n})
    /\ call'.ok => n \in DOMAIN files /\ files'[n] = call'.arg

Remove(n) ==
    /\ Asked("remove", n)
    /\ Untouched({n})
    /\ IF call'.ok
       THEN n \in DOMAIN files /\ n \notin DOMAIN files'
       ELSE files' = files

\* The file has the new name, and the new name was free.
Rename(n) ==
    /\ Asked("rename", n)
    /\ Untouched({n, call'.arg})
    /\ IF call'.ok
       THEN /\ n \in DOMAIN files /\ files'[call'.arg] = files[n]
            /\ n # call'.arg =>
                 n \notin DOMAIN files' /\ call'.arg \notin DOMAIN files
       ELSE files' = files

Format ==
    /\ call'.op = "format"
    /\ IF call'.ok THEN DOMAIN files' = {} ELSE files' = files

FileNext ==
    \/ \E n \in Name : Create(n) \/ Write(n) \/ Remove(n) \/ Rename(n)
    \/ Format

FileSpec == FileInit /\ [][FileNext]_<<files, call>>
=============================================================================
