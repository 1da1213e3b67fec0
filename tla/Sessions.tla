------------------------------ MODULE Sessions ------------------------------
(***************************************************************************)
(* The sessions of the server, one thread per client, working on one       *)
(* storage directory: Session::run and its message handlers with the       *)
(* Negotiator, ZeroCopySender, DeltaSyncHandler and FileManager they call. *)
(*                                                                         *)
(* A session reads a frame and runs its handler.  Each step here is one    *)
(* access to the shared directory or one operation on a file's lock; what  *)
(* a thread computes in between is part of the step before it.  Clients    *)
(* may send any message at any time: the requests are those of a set per   *)
(* session.  The locks are those of RWLock, which FileMutex implements.    *)
(***************************************************************************)
EXTENDS Storage

CONSTANTS
    Session,        \* the connected clients' sessions
    NoFile,         \* stands for an absent file in InitialFiles
    InitialFiles,   \* contents of the directory at start: functions from Path
    Requests,       \* Requests[s]: the messages that the client of s can send
    BlockSize,      \* the block size all sessions negotiated
    MaxRequests,    \* bound: MaxRequests[s] messages of session s
    MaxCrashes      \* bound: crashes of the server

ASSUME SessionsAssumption ==
    /\ NoIno \notin Ino
    /\ BlockSize \in Nat \ {0}
    /\ MaxRequests \in [Session -> Nat] /\ MaxCrashes \in Nat
    /\ \A f \in InitialFiles : \A p \in Path : f[p] = NoFile \/ f[p] \in Seq(Nat)
    /\ \E g \in [Path -> Ino] : \A p, q \in Path : p # q => g[p] # g[q]

\* The handlers that Session::run dispatches to.
Operations == {"negotiate", "download", "upload", "signatures", "block", "list", "unknown"}

\* What Session::run reads out of a frame for its handlers.
ASSUME RequestsAssumption ==
    \A s \in Session : \A r \in Requests[s] :
        /\ r.op \in Operations
        /\ r.op \notin {"list", "unknown"} => r.path \in Path
        /\ r.op \in {"download", "block"} => r.offset \in Nat
        /\ r.op = "upload" => /\ r.total_size \in Nat
                             /\ r.frames \in Seq([raw : BOOLEAN, bytes : Seq(Nat)])
        /\ r.op = "block" => r.data \in Seq(Nat)
        /\ r.op = "list" => r.recursive \in BOOLEAN

VARIABLES
    access,         \* the file locks the sessions hold
    pc,             \* where the thread of a session is
    req,            \* the message it is handling
    loc,            \* the handler's local variables
    reply,          \* the last answer of the session
    served,         \* messages read so far
    thrown,         \* an exception left a handler, which ends the process
    crashes

vars == <<storage, access, pc, req, loc, reply, served, thrown, crashes>>

Lock == INSTANCE RWLock WITH Thread <- Session

\* fd: the open stream; size, pos: sizes, offsets and counters; hash: a digest;
\* buf: bytes received or sent; asked: block indices; names: directory entries.
NoLocals == [fd |-> NoIno, size |-> 0, pos |-> 0, hash |-> <<>>, buf |-> <<>>,
             asked |-> {}, names |-> {}]
NoRequest == [op |-> "none"]
OpenStreams == {loc[s].fd : s \in Session}

Labels == {"ready", "closed", "negotiate", "neg_hash", "download", "dl_header", "dl_open",
           "dl_send", "upload", "up_recv", "up_open", "up_write", "up_rename", "signatures", "sig_lock",
           "sig_read", "block", "blk_lock", "blk_open", "blk_create", "blk_reopen", "blk_write",
           "blk_unlock", "blk_check", "blk_rename", "list", "ls_stat", "unknown"}
Replies == {"none", "fresh", "unchanged", "modified", "header", "error", "ack", "request",
            "ok", "mismatch", "listing"}

TypeOK ==
    /\ StorageTypeOK
    /\ Lock!TypeOK
    /\ pc \in [Session -> Labels]
    /\ \A s \in Session :
         /\ loc[s].fd \in Ino \cup {NoIno}
         /\ loc[s].size \in Nat /\ loc[s].pos \in Nat
         /\ {loc[s].hash, loc[s].buf} \subseteq Seq(Nat)
         /\ loc[s].asked \subseteq Nat
         /\ loc[s].names \subseteq Path \X {"file", "tmp"}
    /\ reply \in [Session -> Replies]
    /\ \A s \in Session : served[s] \in 0 .. MaxRequests[s]
    /\ thrown \in BOOLEAN
    /\ crashes \in 0 .. MaxCrashes

\* Every file that exists has an inode of its own.
Init ==
    /\ \E f \in InitialFiles :
         LET inode == CHOOSE g \in [Path -> Ino] : \A p, q \in Path : p # q => g[p] # g[q]
         IN  /\ file = [p \in Path |-> IF f[p] = NoFile THEN NoIno ELSE inode[p]]
             /\ data = [n \in Ino |-> IF \E p \in Path : file[p] = n
                                      THEN f[CHOOSE p \in Path : file[p] = n] ELSE <<>>]
             /\ versions = [p \in Path |-> IF f[p] = NoFile THEN {} ELSE {f[p]}]
    /\ tmp = [p \in Path |-> NoIno]
    /\ access = [s \in Session |-> Lock!NoAccess]
    /\ pc = [s \in Session |-> "ready"]
    /\ req = [s \in Session |-> NoRequest]
    /\ loc = [s \in Session |-> NoLocals]
    /\ reply = [s \in Session |-> "none"]
    /\ served = [s \in Session |-> 0]
    /\ thrown = FALSE
    /\ crashes = 0
-----------------------------------------------------------------------------
At(s, label) == pc[s] = label /\ ~thrown
Goto(s, label) == pc' = [pc EXCEPT ![s] = label]
path(s) == req[s].path

\* The handler answers and returns; its streams are closed.
Return(s, answer) ==
    /\ Goto(s, "ready")
    /\ loc' = [loc EXCEPT ![s] = NoLocals]
    /\ reply' = [reply EXCEPT ![s] = answer]
    /\ req' = [req EXCEPT ![s] = NoRequest]
    /\ UNCHANGED <<served, thrown, crashes>>

\* The handler goes on at label, with new values of its local variables.
Continue(s, label, locals) ==
    /\ Goto(s, label)
    /\ loc' = [loc EXCEPT ![s] = locals]
    /\ UNCHANGED <<req, reply, served, thrown, crashes>>

\* Session::run: read a frame and dispatch on its type.
Receive(s) ==
    /\ At(s, "ready") /\ served[s] < MaxRequests[s]
    /\ \E r \in Requests[s] :
         /\ req' = [req EXCEPT ![s] = r]
         /\ Goto(s, r.op)
    /\ served' = [served EXCEPT ![s] = @ + 1]
    /\ UNCHANGED <<storage, access, loc, reply, thrown, crashes>>
-----------------------------------------------------------------------------
\* Negotiator::negotiate: no file, or its size and then its digest.
Negotiate(s) ==
    /\ At(s, "negotiate")
    /\ IF file_exists(path(s))
       THEN Continue(s, "neg_hash", [loc[s] EXCEPT !.size = get_file_size(path(s))])
       ELSE Return(s, "fresh")
    /\ UNCHANGED <<storage, access>>

\* NoFile is the empty digest of a client that does not have the file.
ModeOfExisting(client, server) ==
    IF client # NoFile /\ client = server THEN "unchanged" ELSE "modified"

NegotiateHash(s) ==
    /\ At(s, "neg_hash")
    /\ Return(s, ModeOfExisting(req[s].hash, Contents(path(s))))
    /\ UNCHANGED <<storage, access>>
-----------------------------------------------------------------------------
\* Mutant: the offset is not compared with the size.
DownloadAnyOffset(s) ==
    /\ At(s, "download")
    /\ IF get_file_size(path(s)) = 0
       THEN Return(s, "error")
       ELSE Continue(s, "dl_header", [loc[s] EXCEPT !.size = get_file_size(path(s)) - req[s].offset])
    /\ UNCHANGED <<storage, access>>

\* ZeroCopySender::send_file: the size decides how many bytes will be sent;
\* no file, an empty file or an offset beyond the end is an error.
Download(s) ==
    /\ At(s, "download")
    /\ IF get_file_size(path(s)) <= req[s].offset
       THEN Return(s, "error")
       ELSE Continue(s, "dl_header", [loc[s] EXCEPT !.size = get_file_size(path(s)) - req[s].offset])
    /\ UNCHANGED <<storage, access>>

\* The header frame with the file's digest, and the raw-data header.
DownloadHeader(s) ==
    /\ At(s, "dl_header")
    /\ Goto(s, "dl_open")
    /\ loc' = [loc EXCEPT ![s].hash = Contents(path(s))]
    /\ reply' = [reply EXCEPT ![s] = "header"]
    /\ UNCHANGED <<storage, access, req, served, thrown, crashes>>

DownloadOpen(s) ==
    /\ At(s, "dl_open")
    /\ Continue(s, "dl_send", [loc[s] EXCEPT !.fd = file[path(s)]])
    /\ UNCHANGED <<storage, access>>

\* Mutant: each chunk is read from the file that the path names now.
DownloadSendByPath(s) ==
    /\ At(s, "dl_send")
    /\ LET from == req[s].offset + Len(loc[s].buf)
           remaining == loc[s].size - Len(loc[s].buf)
       IN  IF remaining = 0
           THEN Return(s, reply[s])
           ELSE \E n \in 1 .. remaining :
                  /\ from + n <= get_file_size(path(s))
                  /\ Continue(s, "dl_send",
                       [loc[s] EXCEPT !.buf = @ \o ReadBlock(Contents(path(s)), from, n)])
    /\ UNCHANGED <<storage, access>>

\* send_file_linux: sendfile() sends one byte or more while the file has any
\* left.  At the end of the file it returns 0 and the loop repeats unchanged,
\* which is no step here.
DownloadSend(s) ==
    /\ At(s, "dl_send")
    /\ LET from == req[s].offset + Len(loc[s].buf)
           remaining == loc[s].size - Len(loc[s].buf)
       IN  IF remaining = 0
           THEN Return(s, reply[s])
           ELSE \E n \in 1 .. remaining :
                  /\ from + n <= Len(data[loc[s].fd])
                  /\ Continue(s, "dl_send",
                       [loc[s] EXCEPT !.buf = @ \o ReadBlock(data[loc[s].fd], from, n)])
    /\ UNCHANGED <<storage, access>>
-----------------------------------------------------------------------------
\* handle_zero_copy_upload_request acknowledges at once.
Upload(s) ==
    /\ At(s, "upload")
    /\ Goto(s, "up_recv")
    /\ reply' = [reply EXCEPT ![s] = "ack"]
    /\ UNCHANGED <<storage, access, req, loc, served, thrown, crashes>>

\* Its loop: append the raw frames and skip others until total_size bytes came
\* or the connection is lost, which ends the session at the next read.  loc.pos
\* counts the frames that were read.
UploadReceive(s) ==
    /\ At(s, "up_recv")
    /\ Len(loc[s].buf) < req[s].total_size
    /\ IF loc[s].pos < Len(req[s].frames)
       THEN LET frame == req[s].frames[loc[s].pos + 1]
            IN  Continue(s, "up_recv",
                  [loc[s] EXCEPT !.pos = @ + 1,
                                 !.buf = IF frame.raw THEN @ \o frame.bytes ELSE @])
       ELSE /\ Goto(s, "closed")
            /\ loc' = [loc EXCEPT ![s] = NoLocals]
            /\ reply' = [reply EXCEPT ![s] = "error"]
            /\ req' = [req EXCEPT ![s] = NoRequest]
            /\ UNCHANGED <<served, thrown, crashes>>
    /\ UNCHANGED <<storage, access>>

\* Mutant: bytes beyond the announced size are saved, too.
UploadReceivedAtLeast(s) ==
    /\ At(s, "up_recv")
    /\ Len(loc[s].buf) >= req[s].total_size
    /\ Continue(s, "up_open", loc[s])
    /\ UNCHANGED <<storage, access>>

\* After the loop: exactly total_size bytes are saved, more are dropped
\* without an answer.
UploadReceived(s) ==
    /\ At(s, "up_recv")
    /\ Len(loc[s].buf) >= req[s].total_size
    /\ IF Len(loc[s].buf) = req[s].total_size
       THEN Continue(s, "up_open", loc[s])
       ELSE Return(s, reply[s])
    /\ UNCHANGED <<storage, access>>

\* write_file_atomic: open with truncation, then write; no lock is taken.
UploadOpen(s) ==
    /\ At(s, "up_open")
    /\ \E n \in Ino :
         /\ CreateTmp(path(s), n, OpenStreams)
         /\ Continue(s, "up_write", [loc[s] EXCEPT !.fd = n])
    /\ UNCHANGED access

UploadWrite(s) ==
    /\ At(s, "up_write")
    /\ WriteStream(loc[s].fd, 0, loc[s].buf)
    /\ Continue(s, "up_rename", [loc[s] EXCEPT !.fd = NoIno])
    /\ UNCHANGED access

\* atomic_rename_tmp, whose result is ignored here.
UploadRename(s) ==
    /\ At(s, "up_rename")
    /\ IF tmp[path(s)] # NoIno THEN RenameTmp(path(s)) ELSE UNCHANGED storage
    /\ Return(s, reply[s])
    /\ UNCHANGED access
-----------------------------------------------------------------------------
\* handle_signature_request: all blocks of an absent file; otherwise the size is
\* read before the lock is taken.
Signature(s) ==
    /\ At(s, "signatures")
    /\ IF file_exists(path(s))
       THEN Continue(s, "sig_lock", [loc[s] EXCEPT !.size = get_file_size(path(s))])
       ELSE Return(s, "request")
    /\ UNCHANGED <<storage, access>>

SignatureLock(s) ==
    /\ At(s, "sig_lock")
    /\ Lock!Grant(s, path(s), "read")
    /\ Continue(s, "sig_read", loc[s])
    /\ UNCHANGED storage

\* One block: read_block opens the file anew.
SignatureRead(s) ==
    /\ At(s, "sig_read")
    /\ loc[s].pos < NumBlocks(loc[s].size, BlockSize)
    /\ LET i == loc[s].pos
           want == BlockLen(loc[s].size, i * BlockSize, BlockSize)
           block == IF i * BlockSize < get_file_size(path(s))
                    THEN ReadBlock(Contents(path(s)), i * BlockSize, want) ELSE <<>>
       IN  Continue(s, "sig_read",
             [loc[s] EXCEPT !.pos = @ + 1,
                            !.asked = IF BlockDiffers(block, i, req[s].sigs) THEN @ \cup {i} ELSE @])
    /\ UNCHANGED <<storage, access>>

\* Mutant: the handler returns without release_read.
SignatureKeepLock(s) ==
    /\ At(s, "sig_read")
    /\ loc[s].pos >= NumBlocks(loc[s].size, BlockSize)
    /\ Return(s, "request")
    /\ UNCHANGED <<storage, access>>

\* release_read, the blocks beyond the server's file, and the answer.
SignatureAnswer(s) ==
    /\ At(s, "sig_read")
    /\ loc[s].pos >= NumBlocks(loc[s].size, BlockSize)
    /\ Lock!Release(s)
    /\ Return(s, "request")
    /\ UNCHANGED storage
-----------------------------------------------------------------------------
\* handle_block_data: a block whose digest is wrong is refused before anything
\* else happens.
Block(s) ==
    /\ At(s, "block")
    /\ IF req[s].hash # req[s].data THEN Return(s, "mismatch") ELSE Continue(s, "blk_lock", loc[s])
    /\ UNCHANGED <<storage, access>>

\* Mutant: the block is written under a read lock.
BlockLockShared(s) ==
    /\ At(s, "blk_lock")
    /\ Lock!Grant(s, path(s), "read")
    /\ Continue(s, "blk_open", loc[s])
    /\ UNCHANGED storage

BlockLock(s) ==
    /\ At(s, "blk_lock")
    /\ Lock!Grant(s, path(s), "write")
    /\ Continue(s, "blk_open", loc[s])
    /\ UNCHANGED storage

\* write_block_atomic: open the .tmp file without truncation; when that fails,
\* create it, close it and open it again.
BlockOpen(s) ==
    /\ At(s, "blk_open")
    /\ IF tmp[path(s)] # NoIno
       THEN Continue(s, "blk_write", [loc[s] EXCEPT !.fd = tmp[path(s)]])
       ELSE Continue(s, "blk_create", loc[s])
    /\ UNCHANGED <<storage, access>>

BlockCreate(s) ==
    /\ At(s, "blk_create")
    /\ \E n \in Ino : CreateTmp(path(s), n, OpenStreams)
    /\ Continue(s, "blk_reopen", loc[s])
    /\ UNCHANGED access

BlockReopen(s) ==
    /\ At(s, "blk_reopen")
    /\ Continue(s, "blk_write", [loc[s] EXCEPT !.fd = tmp[path(s)]])
    /\ UNCHANGED <<storage, access>>

\* A stream that could not be reopened fails the write.
BlockWrite(s) ==
    /\ At(s, "blk_write")
    /\ IF loc[s].fd # NoIno
       THEN WriteStream(loc[s].fd, req[s].offset, req[s].data)
       ELSE UNCHANGED storage
    /\ Continue(s, "blk_unlock", loc[s])
    /\ UNCHANGED access

\* is_final of Session::handle_delta_sync_block_data.
IsFinal(r) == Len(r.data) < BlockSize

\* release_write; an intermediate block is not answered.
BlockUnlock(s) ==
    /\ At(s, "blk_unlock")
    /\ Lock!Release(s)
    /\ IF loc[s].fd = NoIno THEN Return(s, "error")
       ELSE IF IsFinal(req[s]) THEN Continue(s, "blk_check", [loc[s] EXCEPT !.fd = NoIno])
       ELSE Return(s, reply[s])
    /\ UNCHANGED storage

\* Without the lock: the .tmp file is opened to be hashed, and not renamed when
\* it cannot be opened.
BlockCheck(s) ==
    /\ At(s, "blk_check")
    /\ IF tmp[path(s)] # NoIno THEN Continue(s, "blk_rename", loc[s]) ELSE Return(s, "ok")
    /\ UNCHANGED <<storage, access>>

BlockRename(s) ==
    /\ At(s, "blk_rename")
    /\ IF tmp[path(s)] # NoIno
       THEN RenameTmp(path(s)) /\ Return(s, "ok")
       ELSE UNCHANGED storage /\ Return(s, "error")
    /\ UNCHANGED access
-----------------------------------------------------------------------------
\* Mutant: the recursive listing does not skip the .tmp files.
ListingWithTmp(recursive) ==
    {<<p, "file">> : p \in {q \in Path : file_exists(q)}}
    \cup {<<p, "tmp">> : p \in {q \in Path : tmp[q] # NoIno}}

\* The entries that list_files visits: without .tmp files when recursive.
Listing(recursive) ==
    {<<p, "file">> : p \in {q \in Path : file_exists(q)}}
    \cup {<<p, "tmp">> : p \in {q \in Path : ~recursive /\ tmp[q] # NoIno}}

EntryInode(entry) == IF entry[2] = "file" THEN file[entry[1]] ELSE tmp[entry[1]]

List(s) ==
    /\ At(s, "list")
    /\ Continue(s, "ls_stat", [loc[s] EXCEPT !.names = Listing(req[s].recursive)])
    /\ UNCHANGED <<storage, access>>

\* file_size() of one entry; when the entry is gone it throws, and as nothing
\* catches the exception the process ends.
ListStat(s) ==
    /\ At(s, "ls_stat")
    /\ IF loc[s].names = {} THEN Return(s, "listing")
       ELSE \E entry \in loc[s].names :
              IF EntryInode(entry) # NoIno
              THEN Continue(s, "ls_stat", [loc[s] EXCEPT !.names = @ \ {entry}])
              ELSE thrown' = TRUE /\ UNCHANGED <<pc, req, loc, reply, served, crashes>>
    /\ UNCHANGED <<storage, access>>

\* The default case of Session::run, as for a stray raw frame.
Unknown(s) ==
    /\ At(s, "unknown")
    /\ Return(s, "error")
    /\ UNCHANGED <<storage, access>>
-----------------------------------------------------------------------------
\* The client is gone: sendfile() fails and the handler with it, or the next
\* read_frame does; either ends the session.
Disconnect(s) ==
    /\ At(s, "ready") \/ At(s, "dl_send")
    /\ Goto(s, "closed")
    /\ loc' = [loc EXCEPT ![s] = NoLocals]
    /\ req' = [req EXCEPT ![s] = NoRequest]
    /\ UNCHANGED <<storage, access, reply, served, thrown, crashes>>

\* The process is killed and started again: threads, streams and locks are
\* gone, the directory stays as it is, .tmp files included, and clients connect
\* anew.
CrashRestart ==
    /\ crashes < MaxCrashes
    /\ crashes' = crashes + 1
    /\ access' = [s \in Session |-> Lock!NoAccess]
    /\ pc' = [s \in Session |-> "ready"]
    /\ req' = [s \in Session |-> NoRequest]
    /\ loc' = [s \in Session |-> NoLocals]
    /\ reply' = [s \in Session |-> "none"]
    /\ thrown' = FALSE
    /\ UNCHANGED <<storage, served>>

\* The steps of a session's thread once it has a message.
Handle(s) ==
    \/ Negotiate(s) \/ NegotiateHash(s)
    \/ Download(s) \/ DownloadHeader(s) \/ DownloadOpen(s) \/ DownloadSend(s)
    \/ Upload(s) \/ UploadReceive(s) \/ UploadReceived(s)
    \/ UploadOpen(s) \/ UploadWrite(s) \/ UploadRename(s)
    \/ Signature(s) \/ SignatureLock(s) \/ SignatureRead(s) \/ SignatureAnswer(s)
    \/ Block(s) \/ BlockLock(s) \/ BlockOpen(s) \/ BlockCreate(s) \/ BlockReopen(s)
    \/ BlockWrite(s) \/ BlockUnlock(s) \/ BlockCheck(s) \/ BlockRename(s)
    \/ List(s) \/ ListStat(s) \/ Unknown(s)

Next == CrashRestart \/ \E s \in Session : Receive(s) \/ Handle(s) \/ Disconnect(s)

Spec == Init /\ [][Next]_vars

\* Every thread that can run does run; clients need not send anything.
Fairness == \A s \in Session : WF_vars(Handle(s))

FairSpec == Spec /\ Fairness
-----------------------------------------------------------------------------
\* What a path names is what some rename put there: no write ever reaches a
\* visible file, and a crash leaves the last renamed content.  README.md:73,
\* about write_file_atomic, write_block_atomic and atomic_rename_tmp.
VisibleOnlyByRename == \A p \in Path : file_exists(p) => Contents(p) \in versions[p]

\* The bytes of the raw ones among the first k frames of an upload.
Uploaded(r, k) ==
    LET raw[i \in 0 .. Len(r.frames)] ==
          IF i = 0 THEN <<>>
          ELSE IF r.frames[i].raw THEN raw[i - 1] \o r.frames[i].bytes ELSE raw[i - 1]
    IN  raw[k]

\* With uploads only, a path never names anything but its initial content or
\* the bytes of an upload that came in full: connections lost in the middle,
\* frames of other types, surplus bytes, crashes and .tmp files left over from
\* them never show (handle_zero_copy_upload_request, write_file_atomic).
WholeVersions ==
    \A p \in Path : \A v \in versions[p] :
        \/ \E f \in InitialFiles : f[p] = v
        \/ \E s \in Session : \E r \in Requests[s] :
             /\ r.op = "upload" /\ r.path = p /\ Len(v) = r.total_size
             /\ \E k \in 0 .. Len(r.frames) : Uploaded(r, k) = v

\* The bytes that a download sends are those from its offset on of one version
\* of the file, also when the file is replaced during the transfer:
\* send_file_linux keeps the stream it opened.
SingleVersionStream ==
    \A s \in Session : pc[s] = "dl_send" =>
        \E v \in versions[path(s)] : \A k \in 1 .. Len(loc[s].buf) :
            /\ req[s].offset + k <= Len(v)
            /\ loc[s].buf[k] = v[req[s].offset + k]

\* No exception leaves list_files because a file was renamed between the visit
\* of its entry and the query of its size.
NeverThrows == ~thrown

\* While a session writes a block of a path, no other session writes a block of
\* it or compares its blocks: "exclusive access for writes", README.md:72, for
\* those who take the lock.  An upload (write_file_atomic) takes none.
WritesExclusive ==
    \A s, t \in Session :
        s # t /\ pc[s] = "blk_write" /\ pc[t] \in {"blk_write", "sig_read"} => path(s) # path(t)

\* The file that a download opened has fewer bytes than its size was when the
\* download began: sendfile() returns 0 and the loop of send_file_linux, which
\* gives up at a negative result only, runs for ever.
Starved(s) == pc[s] = "dl_send" /\ Len(data[loc[s].fd]) < req[s].offset + loc[s].size

\* Every handler returns, so a session answers its client again: no lock is kept
\* and no thread waits for a lock for ever.  The exceptions are a download of
\* a file that was replaced by a shorter one before it was opened, and a
\* listing that ended the process.
HandlersReturn ==
    \A s \in Session :
        pc[s] \notin {"ready", "closed"} ~> pc[s] \in {"ready", "closed"} \/ Starved(s) \/ thrown
=============================================================================
