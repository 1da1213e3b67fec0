------------------------------ MODULE DeltaSync ------------------------------
(***************************************************************************)
(* One client that keeps one file in step with the server by delta-sync:   *)
(* TcpClient::connect and delta_sync_upload with the client's              *)
(* DeltaSyncEngine on one side, the session's hello, signature and block   *)
(* handlers with DeltaSyncHandler on the other, and the two directions of  *)
(* the TCP stream between them.  Nobody else touches the file on the       *)
(* server; Sessions models what happens when somebody does.                *)
(*                                                                         *)
(* The server's handlers run to completion between two frames, so each is  *)
(* one step.  The client awaits twice, for the block request and for the   *)
(* completion, and the local file may be edited by the user at any time.   *)
(* A lost connection drops what is in flight and leaves the files alone.   *)
(***************************************************************************)
EXTENDS Blocks, FiniteSets

CONSTANTS
    Content,                \* the contents the client's file can have
    NoFile,                 \* stands for a file that does not exist
    PreferredBlockSize,     \* the block size TcpClient::new is given
    ServerBlockSize,        \* the server's --block-size
    MinBlockSize,           \* 4096 in the code
    MaxBlockSize,           \* 1048576 in the code
    MaxSyncs,               \* bound: calls of delta_sync_upload
    MaxEdits,               \* bound: edits of the local file
    MaxLosses               \* bound: lost connections

ASSUME DeltaSyncAssumption ==
    /\ Content \subseteq Seq(Nat)
    /\ NoFile \notin Seq(Nat)
    /\ {PreferredBlockSize, ServerBlockSize, MinBlockSize, MaxBlockSize} \subseteq Nat \ {0}
    /\ {MaxSyncs, MaxEdits, MaxLosses} \subseteq Nat

VARIABLES
    local,          \* the client's file
    target,         \* the server's file, or NoFile
    tmp,            \* the server's .tmp file beside it, or NoFile
    phase,          \* where the client is
    block_size,     \* TcpClient.block_size
    negotiated,     \* Session.negotiated_block_size_
    c2s, s2c,       \* frames in flight, oldest first
    result,         \* what the last delta_sync_upload returned
    signed,         \* history: the content the signatures were computed from
    sync,           \* history: the content and the indices the blocks were read
                    \*   from, and whether the server had no .tmp file then
    syncs, edits, losses

vars == <<local, target, tmp, phase, block_size, negotiated, c2s, s2c, result,
          signed, sync, syncs, edits, losses>>
files == <<target, tmp>>
history == <<signed, sync>>

InRange(bs) == MinBlockSize <= bs /\ bs <= MaxBlockSize

\* The DeltaSyncEngine keeps the block size it was constructed with.
EngineBlockSize == PreferredBlockSize

TypeOK ==
    /\ local \in Content
    /\ {target, tmp} \subseteq Seq(Nat) \cup {NoFile}
    /\ phase \in {"offline", "idle", "await_request", "await_complete"}
    /\ {block_size, negotiated} \subseteq Nat \ {0}
    /\ \A i \in DOMAIN c2s :
         \/ c2s[i].type = "signatures" /\ \A j \in DOMAIN c2s[i].sigs : c2s[i].sigs[j] \in Seq(Nat)
         \/ c2s[i].type = "block" /\ c2s[i].block_offset \in Nat /\ c2s[i].data \in Seq(Nat)
    /\ \A i \in DOMAIN s2c :
         \/ s2c[i].type = "request" /\ s2c[i].indices \subseteq Nat
         \/ s2c[i].type = "complete" /\ s2c[i].status \in 1 .. 7
    /\ result \in {"none", "ok", "error"}
    /\ signed \in Content
    /\ sync.content \in Content /\ sync.indices \subseteq Nat /\ sync.fresh \in BOOLEAN
    /\ syncs \in 0 .. MaxSyncs /\ edits \in 0 .. MaxEdits /\ losses \in 0 .. MaxLosses

Init ==
    /\ local \in Content
    /\ target \in Content \cup {NoFile}
    /\ tmp = NoFile
    /\ phase = "offline"
    /\ block_size = PreferredBlockSize
    /\ negotiated = ServerBlockSize
    /\ c2s = <<>> /\ s2c = <<>>
    /\ result = "none"
    /\ signed = local
    /\ sync = [content |-> local, indices |-> {}, fresh |-> TRUE]
    /\ syncs = 0 /\ edits = 0 /\ losses = 0
-----------------------------------------------------------------------------
\* handle_client_hello: a new session takes the client's block size when it is
\* in range, and answers with the one it has then.
SessionBlockSize(preferred) == IF InRange(preferred) THEN preferred ELSE ServerBlockSize

\* connect: the client takes the session's block size when that is in range.
Connect ==
    /\ phase = "offline"
    /\ negotiated' = SessionBlockSize(block_size)
    /\ block_size' = IF InRange(negotiated') THEN negotiated' ELSE block_size
    /\ phase' = "idle"
    /\ UNCHANGED <<local, files, c2s, s2c, result, history, syncs, edits, losses>>

\* build_signature_request.
SignatureRequest(size, bs, sigs) ==
    [type |-> "signatures", file_size |-> size, block_size |-> bs, sigs |-> sigs]

\* delta_sync_upload, step 1: the signatures are computed with the engine's
\* block size and sent with the connection's.
SendSignatures ==
    /\ phase = "idle" /\ syncs < MaxSyncs
    /\ c2s' = Append(c2s, SignatureRequest(Len(local), block_size,
                                           Signatures(local, EngineBlockSize)))
    /\ signed' = local
    /\ phase' = "await_request"
    /\ result' = "none"
    /\ syncs' = syncs + 1
    /\ UNCHANGED <<local, files, block_size, negotiated, s2c, sync, edits, losses>>

\* handle_delta_sync_signature_request.
HandleSignatures ==
    /\ c2s # <<>> /\ Head(c2s).type = "signatures"
    /\ LET req == Head(c2s)
           needed == IF target = NoFile
                     THEN BlockIndices(req.file_size, req.block_size)
                     ELSE NeededBlocks(target, req.file_size, req.block_size, req.sigs)
       IN  s2c' = Append(s2c, [type |-> "request", indices |-> needed])
    /\ c2s' = Tail(c2s)
    /\ UNCHANGED <<local, files, phase, block_size, negotiated, result, history, syncs, edits, losses>>

\* The frame is decoded as a block request whatever its type is: in a
\* completion, field 2 is the status.
AsBlockRequest(frame) ==
    IF frame.type = "request" THEN frame.indices ELSE {frame.status}

\* The numbers of S in the order in which the server's loops append them.
Ascending(S) ==
    CHOOSE q \in [1 .. Cardinality(S) -> S] :
        /\ \A j, k \in DOMAIN q : j < k => q[j] < q[k]
        /\ \A i \in S : \E k \in DOMAIN q : q[k] = i

\* read_requested_blocks: one frame for each requested block that the file
\* still has, in the order of the request.
BlockFrames(content, indices) ==
    LET order == Ascending(PresentBlocks(content, EngineBlockSize, indices))
    IN  [k \in DOMAIN order |-> BlockData(content, EngineBlockSize, order[k])]

\* delta_sync_upload, steps 2 and 3: the blocks are read from the file as it is
\* now and sent one after the other.
SendBlocks ==
    /\ phase = "await_request" /\ s2c # <<>>
    /\ LET indices == AsBlockRequest(Head(s2c))
       IN  /\ c2s' = c2s \o BlockFrames(local, indices)
           /\ sync' = [content |-> local, indices |-> indices, fresh |-> tmp = NoFile]
    /\ s2c' = Tail(s2c)
    /\ phase' = "await_complete"
    /\ UNCHANGED <<local, files, block_size, negotiated, result, signed, syncs, edits, losses>>

\* Mutant: a full block counts as the last one, too.
IsFinalFull(data) == Len(data) <= negotiated

\* A block shorter than the negotiated size is taken to be the last one.
IsFinal(data) == Len(data) < negotiated

\* Mutant: the .tmp file is copied to the target and left behind.
HandleBlockDataCopy ==
    /\ c2s # <<>> /\ Head(c2s).type = "block"
    /\ LET block == Head(c2s)
           written == WriteAt(IF tmp = NoFile THEN <<>> ELSE tmp, block.block_offset, block.data)
       IN  /\ tmp' = written
           /\ IF IsFinal(block.data)
              THEN /\ target' = written
                   /\ s2c' = Append(s2c, [type |-> "complete", status |-> 1])
              ELSE UNCHANGED <<target, s2c>>
    /\ c2s' = Tail(c2s)
    /\ UNCHANGED <<local, phase, block_size, negotiated, result, history, syncs, edits, losses>>

\* Mutant: the completion is sent only when the target existed before.
HandleBlockDataSilent ==
    /\ c2s # <<>> /\ Head(c2s).type = "block"
    /\ LET block == Head(c2s)
           written == WriteAt(IF tmp = NoFile THEN <<>> ELSE tmp, block.block_offset, block.data)
       IN  IF IsFinal(block.data)
           THEN /\ target' = written
                /\ tmp' = NoFile
                /\ s2c' = IF target = NoFile THEN s2c
                          ELSE Append(s2c, [type |-> "complete", status |-> 1])
           ELSE /\ tmp' = written
                /\ UNCHANGED <<target, s2c>>
    /\ c2s' = Tail(c2s)
    /\ UNCHANGED <<local, phase, block_size, negotiated, result, history, syncs, edits, losses>>

\* handle_delta_sync_block_data: write the block into the .tmp file; after the
\* final block, rename it over the target and report.
HandleBlockData ==
    /\ c2s # <<>> /\ Head(c2s).type = "block"
    /\ LET block == Head(c2s)
           written == WriteAt(IF tmp = NoFile THEN <<>> ELSE tmp, block.block_offset, block.data)
       IN  IF IsFinal(block.data)
           THEN /\ target' = written
                /\ tmp' = NoFile
                /\ s2c' = Append(s2c, [type |-> "complete", status |-> 1])
           ELSE /\ tmp' = written
                /\ UNCHANGED <<target, s2c>>
    /\ c2s' = Tail(c2s)
    /\ UNCHANGED <<local, phase, block_size, negotiated, result, history, syncs, edits, losses>>

\* delta_sync_upload, step 4: any frame is decoded as a completion; in a block
\* request field 2 is missing or has the wrong wire type, which is an error.
ReadComplete ==
    /\ phase = "await_complete" /\ s2c # <<>>
    /\ result' = IF Head(s2c).type = "complete" /\ Head(s2c).status = 1 THEN "ok" ELSE "error"
    /\ s2c' = Tail(s2c)
    /\ phase' = "idle"
    /\ UNCHANGED <<local, files, block_size, negotiated, c2s, history, syncs, edits, losses>>

\* The user saves another version of the local file.
EditLocal ==
    /\ edits < MaxEdits
    /\ local' \in Content \ {local}
    /\ edits' = edits + 1
    /\ UNCHANGED <<files, phase, block_size, negotiated, c2s, s2c, result, history, syncs, losses>>

\* The connection breaks: the call the client is in fails, the session ends.
LoseConnection ==
    /\ phase # "offline" /\ losses < MaxLosses
    /\ phase' = "offline"
    /\ result' = IF phase = "idle" THEN result ELSE "error"
    /\ c2s' = <<>> /\ s2c' = <<>>
    /\ losses' = losses + 1
    /\ UNCHANGED <<local, files, block_size, negotiated, history, syncs, edits>>

Next ==
    \/ Connect \/ SendSignatures \/ SendBlocks \/ ReadComplete
    \/ HandleSignatures \/ HandleBlockData
    \/ EditLocal \/ LoseConnection

Spec == Init /\ [][Next]_vars

\* Client and server each go on as long as there is a frame to read; nothing
\* makes the user start a sync or edit the file, or the connection fail.
Fairness ==
    /\ WF_vars(SendBlocks) /\ WF_vars(ReadComplete)
    /\ WF_vars(HandleSignatures) /\ WF_vars(HandleBlockData)

FairSpec == Spec /\ Fairness
-----------------------------------------------------------------------------
\* A block request that the client has not read yet.
Requested == phase = "await_request" /\ s2c # <<>> /\ Head(s2c).type = "request"
ServerContent == IF target = NoFile THEN <<>> ELSE target

(***************************************************************************)
(* The request of handle_signature_request is enough: the server's file    *)
(* with the requested blocks replaced by the client's, cut to the client's *)
(* size, is the file that the client signed.                               *)
(***************************************************************************)
RequestSufficient ==
    Requested => Merge(ServerContent, signed, block_size, Head(s2c).indices) = signed

(***************************************************************************)
(* The server "requests only modified blocks": a requested block of the    *)
(* server's file is not the block the client has at that index.            *)
(***************************************************************************)
RequestMinimal ==
    Requested =>
        \A i \in Head(s2c).indices :
            ReadBlock(ServerContent, i * block_size, BlockLen(Len(ServerContent), i * block_size, block_size))
            # ReadBlock(signed, i * block_size, BlockLen(Len(signed), i * block_size, block_size))

(***************************************************************************)
(* When delta_sync_upload returns Ok, the .tmp file was empty when the     *)
(* blocks were sent, and every block of the client's file was among them,  *)
(* then the server has exactly the file the blocks were read from, even if *)
(* it was edited after it was signed.                                      *)
(***************************************************************************)
ExactWhenAllSent ==
    (/\ result = "ok"
     /\ sync.fresh
     /\ BlockIndices(Len(sync.content), block_size) \subseteq sync.indices)
    => target = sync.content

(***************************************************************************)
(* What the documentation promises of delta-sync without those conditions. *)
(* The code does not keep it: blocks that were not requested are holes.    *)
(***************************************************************************)
OkMeansReconstructed == result = "ok" => target = sync.content

(***************************************************************************)
(* After delta_sync_upload returned Ok nothing of it is left: no frame in  *)
(* either direction, which the next call would take for its own answer,    *)
(* and no .tmp file, which the next call would write into.                 *)
(***************************************************************************)
OkLeavesNothing ==
    result = "ok" => c2s = <<>> /\ s2c = <<>> /\ tmp = NoFile

\* A block that the server takes for the last one is on its way.
ShortBlockSent ==
    phase = "await_complete" /\ \E i \in DOMAIN c2s : c2s[i].type = "block" /\ IsFinal(c2s[i].data)

(***************************************************************************)
(* delta_sync_upload returns when a short block was among those it sent.   *)
(* Otherwise the server never takes a block for the last one, sends no     *)
(* completion, and the call waits for ever.                                *)
(***************************************************************************)
ReturnsAfterShortBlock == ShortBlockSent ~> phase # "await_complete"
=============================================================================
