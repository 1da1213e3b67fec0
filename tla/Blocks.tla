------------------------------- MODULE Blocks -------------------------------
(***************************************************************************)
(* The block arithmetic of delta-sync, shared by client and server.        *)
(*                                                                         *)
(* A file's content is a sequence of bytes.  Block i of a file of block    *)
(* size bs is the bytes from offset i * bs on, bs of them or as many as    *)
(* are left.  A hash is represented by the bytes it was computed from:     *)
(* Adler-32 and SHA-256 are compared together and only for equality, and   *)
(* equal SHA-256 digests are taken to mean equal bytes.                    *)
(***************************************************************************)
EXTENDS Integers, Sequences

Hole == 0       \* what the file system returns for bytes that were never written

NumBlocks(size, bs) == (size + bs - 1) \div bs

\* The indices of the blocks of a file of the given size.
BlockIndices(size, bs) == 0 .. (NumBlocks(size, bs) - 1)

\* How many bytes are asked for when the block at off is read.
BlockLen(size, off, bs) == IF off + bs > size THEN size - off ELSE bs

\* Seek to off and read at most n bytes.
ReadBlock(content, off, n) ==
    [i \in 1 .. (IF off + n <= Len(content) THEN n ELSE Len(content) - off)
        |-> content[off + i]]

\* Seek to off and write data: bytes between the old end and off are holes,
\* and writing nothing does not extend the file.
WriteAt(content, off, data) ==
    IF data = <<>> THEN content
    ELSE [i \in 1 .. (IF off + Len(data) > Len(content) THEN off + Len(data) ELSE Len(content))
            |-> IF i > off /\ i <= off + Len(data) THEN data[i - off]
                ELSE IF i <= Len(content) THEN content[i] ELSE Hole]

\* compute_signatures: the hash of every block of the file.
Signatures(content, bs) ==
    [i \in BlockIndices(Len(content), bs) |->
        ReadBlock(content, i * bs, BlockLen(Len(content), i * bs, bs))]

\* Mutant: the comparison stops at the end of the server's file.
DifferingBlocks(content, clientSize, bs, sigs) ==
    {i \in BlockIndices(Len(content), bs) :
        LET block == ReadBlock(content, i * bs, BlockLen(Len(content), i * bs, bs))
        IN  i \notin DOMAIN sigs \/ sigs[i] # block}

\* Mutant: every block is asked for.
AllBlocks(content, clientSize, bs, sigs) ==
    BlockIndices(Len(content), bs) \cup BlockIndices(clientSize, bs)

\* The server asks for its block i again unless the client's signature matches.
BlockDiffers(block, i, sigs) ==
    \/ block = <<>>
    \/ i \notin DOMAIN sigs
    \/ sigs[i] # block

\* handle_signature_request: the blocks of the server's content that differ
\* from the client's signatures, and every block beyond the server's content.
NeededBlocks(content, clientSize, bs, sigs) ==
    {i \in BlockIndices(Len(content), bs) :
        BlockDiffers(ReadBlock(content, i * bs, BlockLen(Len(content), i * bs, bs)), i, sigs)}
    \cup (NumBlocks(Len(content), bs) .. (NumBlocks(clientSize, bs) - 1))

\* read_requested_blocks: the requested blocks that the file still has.
PresentBlocks(content, bs, indices) == {i \in indices : i * bs < Len(content)}

\* Mutant: the offset is computed from a one-based index.
BlockDataOneBased(content, bs, i) ==
    [type |-> "block",
     block_offset |-> (i - 1) * bs,
     data |-> ReadBlock(content, i * bs, BlockLen(Len(content), i * bs, bs))]

\* One DeltaSyncBlockData message, as the client fills it in.
BlockData(content, bs, i) ==
    [type |-> "block",
     block_offset |-> i * bs,
     data |-> ReadBlock(content, i * bs, BlockLen(Len(content), i * bs, bs))]
-----------------------------------------------------------------------------
\* The content that results from replacing the given blocks of old by those of
\* new and cutting or extending the result to the length of new.
Merge(old, new, bs, indices) ==
    [k \in 1 .. Len(new) |->
        IF ((k - 1) \div bs) \in indices THEN new[k]
        ELSE IF k <= Len(old) THEN old[k] ELSE Hole]
=============================================================================
