------------------------------- MODULE Storage -------------------------------
(***************************************************************************)
(* The server's storage directory, as file_manager.cpp uses it.            *)
(*                                                                         *)
(* Each path has two directory entries, the file itself and path + ".tmp". *)
(* An entry names an inode; an open stream keeps the inode it opened, also *)
(* after the entry was renamed.  The system calls are external to this     *)
(* repository and are modelled here by their effect: open, truncate,       *)
(* write at an offset, rename.  A call of FileManager that makes several   *)
(* of them is several operators here, because every session's thread makes *)
(* its calls on the same directory.                                        *)
(***************************************************************************)
EXTENDS Blocks, FiniteSets

CONSTANTS
    Path,       \* relative paths
    Ino,        \* inodes
    NoIno       \* an entry that does not exist, a stream that is not open

VARIABLES
    data,       \* data[n]: the bytes of inode n
    file,       \* file[p]: the inode of the entry p
    tmp,        \* tmp[p]: the inode of the entry tmp_path_for(p)
    versions    \* history: versions[p], every content that a rename gave p

storage == <<data, file, tmp, versions>>

StorageTypeOK ==
    /\ data \in [Ino -> Seq(Nat)]
    /\ file \in [Path -> Ino \cup {NoIno}]
    /\ tmp \in [Path -> Ino \cup {NoIno}]
    /\ \A p \in Path : versions[p] \subseteq Seq(Nat)

file_exists(p) == file[p] # NoIno

\* The bytes a stream opened on p now would read; <<>> when it cannot be opened.
Contents(p) == IF file_exists(p) THEN data[file[p]] ELSE <<>>

get_file_size(p) == Len(Contents(p))

\* Inodes without an entry and without a stream; fds is the set of open ones.
Unused(fds) ==
    {n \in Ino : n \notin fds /\ \A p \in Path : n # file[p] /\ n # tmp[p]}

\* open(tmp, O_TRUNC | O_CREAT): empties an existing file, whoever opened it.
\* Which inode a new file gets makes no difference; Ino bounds how many there are.
CreateTmp(p, n, fds) ==
    /\ tmp[p] # NoIno \/ Unused(fds) # {}
    /\ n = IF tmp[p] # NoIno THEN tmp[p] ELSE CHOOSE free \in Unused(fds) : TRUE
    /\ data' = [data EXCEPT ![n] = <<>>]
    /\ tmp' = [tmp EXCEPT ![p] = n]
    /\ UNCHANGED <<file, versions>>

\* Writes through an open stream go to its inode, whatever entry it has now.
WriteStream(n, off, bytes) ==
    /\ data' = [data EXCEPT ![n] = WriteAt(@, off, bytes)]
    /\ UNCHANGED <<file, tmp, versions>>

\* Mutant: the data is copied over the target instead of renamed.
CopyTmp(p) ==
    /\ IF file[p] = NoIno
       THEN file' = [file EXCEPT ![p] = tmp[p]] /\ data' = data
       ELSE file' = file /\ data' = [data EXCEPT ![file[p]] = data[tmp[p]]]
    /\ tmp' = [tmp EXCEPT ![p] = NoIno]
    /\ versions' = versions

\* atomic_rename_tmp when the .tmp file exists: the entry p names its inode.
RenameTmp(p) ==
    /\ file' = [file EXCEPT ![p] = tmp[p]]
    /\ tmp' = [tmp EXCEPT ![p] = NoIno]
    /\ versions' = [versions EXCEPT ![p] = @ \cup {data[tmp[p]]}]
    /\ UNCHANGED data
=============================================================================
