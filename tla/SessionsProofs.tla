--------------------------- MODULE SessionsProofs ---------------------------
(***************************************************************************)
(* For any sessions, messages and contents of the directory: block writes  *)
(* of one path exclude each other and the comparisons of its blocks, and   *)
(* handlers, streams and entries have their types.                         *)
(***************************************************************************)
EXTENDS Sessions, TLAPS

\* Where a handler is between acquire_write and release_write.
WriteLabels == {"blk_open", "blk_create", "blk_reopen", "blk_write", "blk_unlock"}

\* The access that a handler has where it needs one.
Holding ==
    \A s \in Session :
        /\ pc[s] \in WriteLabels => access[s] = <<path(s), "write">>
        /\ pc[s] = "sig_read" => access[s] = <<path(s), "read">>

\* The lock is that of a path and a mode, and only readers share a path.
Shape(a) == a = Lock!NoAccess \/ (a = <<a[1], a[2]>> /\ a[2] \in Lock!Mode)

Exclusion ==
    \A s, t \in Session :
        (/\ s # t /\ access[s] # Lock!NoAccess /\ access[t] # Lock!NoAccess
         /\ access[s][1] = access[t][1])
        => access[s][2] = "read" /\ access[t][2] = "read"

Tables ==
    /\ access = [s \in Session |-> access[s]] /\ \A s \in Session : Shape(access[s])
    /\ pc = [s \in Session |-> pc[s]]
    /\ req = [s \in Session |-> req[s]]

IInv == Tables /\ Holding /\ Exclusion

\* A step of a handler without the lock table: it enters no place that needs an
\* access, except from one that needs the same access.
LEMMA PlainStep ==
    ASSUME IInv, NEW s \in Session, NEW label, NEW r,
           access' = access, Goto(s, label), req' = [req EXCEPT ![s] = r],
           label \in WriteLabels => pc[s] \in WriteLabels /\ r = req[s],
           label = "sig_read" => pc[s] = "sig_read" /\ r = req[s]
    PROVE  IInv'
  <1>1. /\ pc'[s] = label /\ req'[s] = r
        /\ \A t \in Session \ {s} : pc'[t] = pc[t] /\ req'[t] = req[t]
        /\ Tables'
    BY Zenon DEF IInv, Tables, Goto
  <1>2. Holding'
    BY <1>1 DEF IInv, Holding, path
  <1>3. Exclusion'
    BY DEF IInv, Exclusion
  <1> QED
    BY <1>1, <1>2, <1>3 DEF IInv

LEMMA ContinueStep ==
    ASSUME IInv, NEW s \in Session, NEW label, NEW locals,
           access' = access, Continue(s, label, locals),
           label \in WriteLabels => pc[s] \in WriteLabels,
           label = "sig_read" => pc[s] = "sig_read"
    PROVE  IInv'
  <1>1. req' = [req EXCEPT ![s] = req[s]]
    BY DEF IInv, Tables, Continue
  <1> QED
    BY <1>1, PlainStep, Zenon DEF Continue

LEMMA ReturnStep ==
    ASSUME IInv, NEW s \in Session, NEW answer, access' = access, Return(s, answer)
    PROVE  IInv'
  BY PlainStep, Zenon DEF Return, WriteLabels

\* RWLock grants an access beside what the others hold.
LEMMA GrantStep ==
    ASSUME IInv, NEW s \in Session, NEW md \in Lock!Mode, NEW label, NEW locals,
           Lock!Grant(s, path(s), md), Continue(s, label, locals),
           label \in WriteLabels => md = "write",
           label = "sig_read" => md = "read"
    PROVE  IInv'
  <1>1. /\ access'[s] = <<path(s), md>> /\ pc'[s] = label /\ req' = req
        /\ \A t \in Session \ {s} : access'[t] = access[t] /\ pc'[t] = pc[t]
        /\ DOMAIN access' = Session
    BY DEF IInv, Tables, Lock!Grant, Continue, Goto
  <1>2. Tables'
    <2>1. /\ access' = [t \in Session |-> access'[t]] /\ pc' = [t \in Session |-> pc'[t]]
          /\ req' = [t \in Session |-> req'[t]]
      BY Zenon DEF IInv, Tables, Lock!Grant, Continue, Goto
    <2>2. \A t \in Session : Shape(access'[t])
      BY <1>1 DEF IInv, Tables, Shape
    <2> QED
      BY <2>1, <2>2 DEF Tables
  <1>3. Holding'
    BY <1>1 DEF IInv, Holding, path
  <1>4. \A t \in Session \ {s} :
          (access[t] # Lock!NoAccess /\ access[t][1] = path(s)) => md = "read" /\ access[t][2] = "read"
    BY DEF IInv, Tables, Shape, Lock!Grant, Lock!Compatible
  <1>5. Exclusion'
    BY <1>1, <1>4 DEF IInv, Exclusion
  <1> QED
    BY <1>2, <1>3, <1>5 DEF IInv

LEMMA ReleaseStep ==
    ASSUME IInv, NEW s \in Session, NEW label, NEW r,
           Lock!Release(s), Goto(s, label), req' = [req EXCEPT ![s] = r],
           label \notin WriteLabels, label # "sig_read"
    PROVE  IInv'
  <1>1. /\ access'[s] = Lock!NoAccess /\ pc'[s] = label
        /\ \A t \in Session \ {s} :
             access'[t] = access[t] /\ pc'[t] = pc[t] /\ req'[t] = req[t]
    BY DEF IInv, Tables, Lock!Release, Goto
  <1>2. Tables'
    <2>1. /\ access' = [t \in Session |-> access'[t]] /\ pc' = [t \in Session |-> pc'[t]]
          /\ req' = [t \in Session |-> req'[t]]
      BY Zenon DEF IInv, Tables, Lock!Release, Goto
    <2>2. \A t \in Session : Shape(access'[t])
      BY <1>1, SMTT(30) DEF IInv, Tables, Shape
    <2> QED
      BY <2>1, <2>2 DEF Tables
  <1>3. Holding'
    BY <1>1 DEF IInv, Holding, path
  <1>4. Exclusion'
    BY <1>1 DEF IInv, Exclusion
  <1> QED
    BY <1>2, <1>3, <1>4 DEF IInv
-----------------------------------------------------------------------------
LEMMA HandleStep ==
    ASSUME IInv, NEW s \in Session, Handle(s)
    PROVE  IInv'
  <1>0. req = [req EXCEPT ![s] = req[s]]
    BY DEF IInv, Tables
  <1>1. CASE Negotiate(s)
    BY <1>1, ContinueStep, ReturnStep DEF Negotiate, At, WriteLabels
  <1>2. CASE NegotiateHash(s)
    BY <1>2, ContinueStep, ReturnStep DEF NegotiateHash, At, WriteLabels
  <1>3. CASE Download(s)
    BY <1>3, ContinueStep, ReturnStep DEF Download, At, WriteLabels
  <1>4. CASE DownloadHeader(s)
    BY <1>4, <1>0, PlainStep DEF DownloadHeader, WriteLabels
  <1>5. CASE DownloadOpen(s)
    BY <1>5, ContinueStep, ReturnStep DEF DownloadOpen, At, WriteLabels
  <1>6. CASE DownloadSend(s)
    BY <1>6, ContinueStep, ReturnStep, Zenon DEF DownloadSend, At, WriteLabels
  <1>7. CASE Upload(s)
    BY <1>7, <1>0, PlainStep, SMTT(30) DEF Upload, WriteLabels
  <1>8. CASE UploadReceive(s)
    <2>1. CASE loc[s].pos < Len(req[s].frames)
      BY <1>8, <2>1, ContinueStep DEF UploadReceive, WriteLabels
    <2>2. CASE ~(loc[s].pos < Len(req[s].frames))
      BY <1>8, <2>2, PlainStep, Zenon DEF UploadReceive, WriteLabels
    <2> QED
      BY <2>1, <2>2
  <1>9. CASE UploadReceived(s)
    BY <1>9, ContinueStep, ReturnStep DEF UploadReceived, At, WriteLabels
  <1>10. CASE UploadOpen(s)
    BY <1>10, ContinueStep, ReturnStep DEF UploadOpen, At, WriteLabels
  <1>11. CASE UploadWrite(s)
    BY <1>11, ContinueStep, ReturnStep DEF UploadWrite, At, WriteLabels
  <1>12. CASE UploadRename(s)
    BY <1>12, ContinueStep, ReturnStep DEF UploadRename, At, WriteLabels
  <1>13. CASE Signature(s)
    BY <1>13, ContinueStep, ReturnStep DEF Signature, At, WriteLabels
  <1>14. CASE SignatureLock(s)
    BY <1>14, GrantStep DEF SignatureLock, Lock!Mode, WriteLabels
  <1>15. CASE SignatureRead(s)
    BY <1>15, ContinueStep, ReturnStep DEF SignatureRead, At, WriteLabels
  <1>16. CASE SignatureAnswer(s)
    BY <1>16, ReleaseStep, Zenon DEF SignatureAnswer, Return, WriteLabels
  <1>17. CASE Block(s)
    BY <1>17, ContinueStep, ReturnStep DEF Block, At, WriteLabels
  <1>18. CASE BlockLock(s)
    BY <1>18, GrantStep DEF BlockLock, Lock!Mode, WriteLabels
  <1>19. CASE BlockOpen(s)
    BY <1>19, ContinueStep, ReturnStep DEF BlockOpen, At, WriteLabels
  <1>20. CASE BlockCreate(s)
    BY <1>20, ContinueStep, ReturnStep DEF BlockCreate, At, WriteLabels
  <1>21. CASE BlockReopen(s)
    BY <1>21, ContinueStep, ReturnStep DEF BlockReopen, At, WriteLabels
  <1>22. CASE BlockWrite(s)
    BY <1>22, ContinueStep, ReturnStep DEF BlockWrite, At, WriteLabels
  <1>23. CASE BlockUnlock(s)
    BY <1>23, <1>0, ReleaseStep, SMTT(30) DEF BlockUnlock, Return, Continue, WriteLabels
  <1>24. CASE BlockCheck(s)
    BY <1>24, ContinueStep, ReturnStep DEF BlockCheck, At, WriteLabels
  <1>25. CASE BlockRename(s)
    BY <1>25, ContinueStep, ReturnStep DEF BlockRename, At, WriteLabels
  <1>26. CASE List(s)
    BY <1>26, ContinueStep, ReturnStep DEF List, At, WriteLabels
  <1>27. CASE ListStat(s)
    <2>1. CASE loc[s].names = {}
      BY <1>27, <2>1, ReturnStep DEF ListStat
    <2>2. ASSUME NEW entry \in loc[s].names,
                 Continue(s, "ls_stat", [loc[s] EXCEPT !.names = @ \ {entry}])
          PROVE  IInv'
      BY <1>27, <2>2, ContinueStep DEF ListStat, WriteLabels
    <2>3. CASE UNCHANGED <<pc, req>>
      BY <1>27, <2>3, SMTT(30) DEF ListStat, IInv, Tables, Holding, Exclusion, path
    <2> QED
      BY <1>27, <2>1, <2>2, <2>3, Zenon DEF ListStat
  <1>28. CASE Unknown(s)
    BY <1>28, ContinueStep, ReturnStep DEF Unknown, At, WriteLabels
  <1> QED
    BY <1>1, <1>2, <1>3, <1>4, <1>5, <1>6, <1>7, <1>8, <1>9, <1>10, <1>11,
       <1>12, <1>13, <1>14, <1>15, <1>16, <1>17, <1>18, <1>19, <1>20, <1>21,
       <1>22, <1>23, <1>24, <1>25, <1>26, <1>27, <1>28, SMTT(30) DEF Handle

(***************************************************************************)
(* The inductive invariant of the lock discipline: for every set of        *)
(* sessions and messages, a thread is between acquire and release of       *)
(* DeltaSyncHandler only with the access of its message's path.            *)
(***************************************************************************)
THEOREM Invariance == Spec => []IInv
  <1>1. Init => IInv
    BY SMTT(30) DEF Init, IInv, Tables, Shape, Holding, Exclusion, WriteLabels, Lock!NoAccess
  <1>2. IInv /\ [Next]_vars => IInv'
    <2> SUFFICES ASSUME IInv, [Next]_vars PROVE IInv'
      OBVIOUS
    <2>1. CASE CrashRestart
      BY <2>1 DEF CrashRestart, IInv, Tables, Shape, Holding, Exclusion, WriteLabels, Lock!NoAccess
    <2>2. ASSUME NEW s \in Session, Receive(s) PROVE IInv'
      <3>1. PICK r \in Requests[s] : req' = [req EXCEPT ![s] = r] /\ Goto(s, r.op)
        BY <2>2, Zenon DEF Receive
      <3>2. r.op \notin WriteLabels /\ r.op # "sig_read"
        BY RequestsAssumption DEF Operations, WriteLabels
      <3> QED
        BY <2>2, <3>1, <3>2, PlainStep, Zenon DEF Receive
    <2>3. ASSUME NEW s \in Session, Handle(s) PROVE IInv'
      BY <2>3, HandleStep
    <2>4. ASSUME NEW s \in Session, Disconnect(s) PROVE IInv'
      BY <2>4, PlainStep, Zenon DEF Disconnect, WriteLabels
    <2>5. CASE UNCHANGED vars
      BY <2>5, SMTT(30) DEF vars, IInv, Tables, Holding, Exclusion, path
    <2> QED
      BY <2>1, <2>2, <2>3, <2>4, <2>5 DEF Next
  <1> QED
    BY <1>1, <1>2, PTL DEF Spec

(***************************************************************************)
(* A block write excludes the block writes and the comparisons of other    *)
(* sessions on the same path (handle_block_data, handle_signature_request).*)
(***************************************************************************)
THEOREM ExclusiveWrites == Spec => []WritesExclusive
  <1>1. IInv => WritesExclusive
    <2> SUFFICES ASSUME IInv, NEW s \in Session, NEW t \in Session, s # t,
                        pc[s] = "blk_write", pc[t] \in {"blk_write", "sig_read"},
                        path(s) = path(t)
                 PROVE  FALSE
      BY DEF WritesExclusive
    <2>1. access[s] = <<path(s), "write">>
      BY SMTT(30) DEF IInv, Holding, WriteLabels
    <2>2. access[t] = <<path(t), "write">> \/ access[t] = <<path(t), "read">>
      BY SMTT(30) DEF IInv, Holding, WriteLabels
    <2> QED
      BY <2>1, <2>2 DEF IInv, Exclusion, Lock!NoAccess
  <1> QED
    BY <1>1, Invariance, PTL
-----------------------------------------------------------------------------
(* Types and control. *)

LEMMA ElementOf ==
    ASSUME NEW S, NEW q \in Seq(S), NEW i \in 1 .. Len(q)
    PROVE  q[i] \in S
  OBVIOUS

LEMMA LengthOf ==
    ASSUME NEW S, NEW q \in Seq(S)
    PROVE  Len(q) \in Nat
  OBVIOUS

Locals ==
    [fd : Ino \cup {NoIno}, size : Nat, pos : Nat, hash : Seq(Nat), buf : Seq(Nat),
     asked : SUBSET Nat, names : SUBSET (Path \X {"file", "tmp"})]

\* The message that brings a thread to a label.
OpOf(label) ==
    CASE label \in {"negotiate", "neg_hash"} -> "negotiate"
      [] label \in {"download", "dl_header", "dl_open", "dl_send"} -> "download"
      [] label \in {"upload", "up_recv", "up_open", "up_write", "up_rename"} -> "upload"
      [] label \in {"signatures", "sig_lock", "sig_read"} -> "signatures"
      [] label \in {"block", "blk_lock", "blk_open", "blk_create", "blk_reopen", "blk_write",
                    "blk_unlock", "blk_check", "blk_rename"} -> "block"
      [] label \in {"list", "ls_stat"} -> "list"
      [] OTHER -> "unknown"

Idle == {"ready", "closed"}

\* A handler has a message of its kind; its locals are fresh when it starts; a
\* download that goes on has found the file, and has it open when it sends.
ThreadOK(label, r, l, rs) ==
    /\ label \in Labels /\ l \in Locals
    /\ label \notin Idle => r \in rs /\ r.op = OpOf(label)
    /\ label \in Operations \cup Idle => l = NoLocals
    /\ label \in {"dl_header", "dl_open"} => file[r.path] # NoIno /\ l.buf = <<>>
    /\ label \in {"dl_send", "up_write"} => l.fd \in Ino

Stored ==
    /\ data \in [Ino -> Seq(Nat)]
    /\ file \in [Path -> Ino \cup {NoIno}]
    /\ tmp \in [Path -> Ino \cup {NoIno}]
    /\ versions \in [Path -> SUBSET Seq(Nat)]

Control ==
    /\ Stored
    /\ pc = [s \in Session |-> pc[s]]
    /\ req = [s \in Session |-> req[s]]
    /\ loc = [s \in Session |-> loc[s]]
    /\ \A s \in Session : ThreadOK(pc[s], req[s], loc[s], Requests[s])

\* A file that exists goes on existing: nothing removes one.
FilesStay == \A p \in Path : file[p] # NoIno => file'[p] # NoIno

\* One thread goes on, with a message and locals that fit its new place.
LEMMA ThreadStep ==
    ASSUME Control, Stored', FilesStay, NEW s \in Session, NEW label, NEW r, NEW l,
           Goto(s, label), req' = [req EXCEPT ![s] = r], loc' = [loc EXCEPT ![s] = l],
           ThreadOK(label, r, l, Requests[s])'
    PROVE  Control'
  <1>1. /\ pc'[s] = label /\ req'[s] = r /\ loc'[s] = l
        /\ \A t \in Session \ {s} : pc'[t] = pc[t] /\ req'[t] = req[t] /\ loc'[t] = loc[t]
        /\ pc' = [t \in Session |-> pc'[t]]
        /\ req' = [t \in Session |-> req'[t]]
        /\ loc' = [t \in Session |-> loc'[t]]
    BY Zenon DEF Control, Goto
  <1>2. ASSUME NEW t \in Session \ {s}
        PROVE  ThreadOK(pc[t], req[t], loc[t], Requests[t])'
    <2>1. ThreadOK(pc[t], req[t], loc[t], Requests[t])
      BY DEF Control
    <2>2. pc[t] \in {"dl_header", "dl_open"} => req[t].path \in Path
      BY <2>1, RequestsAssumption DEF ThreadOK, OpOf, Idle
    <2>3. pc[t] \in {"dl_header", "dl_open"} => file'[req[t].path] # NoIno
      BY <2>1, <2>2 DEF FilesStay, ThreadOK
    <2> QED
      BY <1>1, <2>1, <2>3 DEF ThreadOK
  <1> QED
    BY <1>1, <1>2, Zenon DEF Control

LEMMA NoLocalsType == NoLocals \in Locals
  BY DEF NoLocals, Locals

\* A handler that returns, or ends the session.
LEMMA IdleStep ==
    ASSUME Control, Stored', FilesStay, NEW s \in Session, NEW label \in Idle,
           Goto(s, label), req' = [req EXCEPT ![s] = NoRequest],
           loc' = [loc EXCEPT ![s] = NoLocals]
    PROVE  Control'
  <1>1. ThreadOK(label, NoRequest, NoLocals, Requests[s])'
    BY NoLocalsType DEF ThreadOK, Idle, Labels
  <1> QED
    BY <1>1, ThreadStep, Zenon

\* A handler that goes on.
LEMMA GoOnStep ==
    ASSUME Control, Stored', FilesStay, NEW s \in Session, pc[s] \notin Idle,
           NEW label \in Labels \ (Idle \cup Operations), NEW l \in Locals,
           Goto(s, label), req' = req, loc' = [loc EXCEPT ![s] = l],
           OpOf(label) = OpOf(pc[s]),
           label \in {"dl_header", "dl_open"} => file'[path(s)] # NoIno /\ l.buf = <<>>,
           label \in {"dl_send", "up_write"} => l.fd \in Ino
    PROVE  Control'
  <1>1. ThreadOK(pc[s], req[s], loc[s], Requests[s])
    BY DEF Control
  <1>2. req' = [req EXCEPT ![s] = req[s]]
    BY Zenon DEF Control
  <1>3. ThreadOK(label, req[s], l, Requests[s])'
    BY <1>1, <1>2, SMTT(30) DEF ThreadOK, path, Control
  <1> QED
    BY <1>2, <1>3, ThreadStep, Zenon

\* What is read and what is written are sequences of bytes.
LEMMA ReadType ==
    ASSUME NEW c \in Seq(Nat), NEW off \in Nat, NEW n \in Nat
    PROVE  ReadBlock(c, off, n) \in Seq(Nat)
  <1> DEFINE m == IF off + n <= Len(c) THEN n ELSE Len(c) - off
  <1>1. m \in Int /\ \A i \in 1 .. m : c[off + i] \in Nat
    <2>1. Len(c) \in Nat
      OBVIOUS
    <2>2. m \in Int /\ \A i \in 1 .. m : off + i \in 1 .. Len(c)
      BY <2>1
    <2> QED
      BY <2>2
  <1>2. ReadBlock(c, off, n) = [i \in 1 .. m |-> c[off + i]]
    BY DEF ReadBlock
  <1> HIDE DEF m
  <1>3. CASE m >= 0
    BY <1>1, <1>2, <1>3
  <1>4. CASE m < 0
    <2>1. 1 .. m = 1 .. 0
      BY <1>1, <1>4
    <2>2. [i \in 1 .. 0 |-> c[off + i]] \in Seq(Nat)
      OBVIOUS
    <2> QED
      BY <1>2, <2>1, <2>2, Zenon
  <1> QED
    BY <1>1, <1>3, <1>4

LEMMA WriteType ==
    ASSUME NEW c \in Seq(Nat), NEW off \in Nat, NEW bytes \in Seq(Nat)
    PROVE  WriteAt(c, off, bytes) \in Seq(Nat)
  <1> DEFINE m == IF off + Len(bytes) > Len(c) THEN off + Len(bytes) ELSE Len(c)
             byte(i) == IF i > off /\ i <= off + Len(bytes) THEN bytes[i - off]
                        ELSE IF i <= Len(c) THEN c[i] ELSE Hole
  <1>1. Len(c) \in Nat /\ Len(bytes) \in Nat /\ m \in Nat
    OBVIOUS
  <1>2. \A i \in 1 .. m : byte(i) \in Nat
    BY <1>1 DEF Hole
  <1>3. [i \in 1 .. m |-> byte(i)] \in Seq(Nat)
    BY <1>1, <1>2
  <1> QED
    BY <1>3 DEF WriteAt

\* The bytes a stream on a path would read.
LEMMA ContentsType ==
    ASSUME Stored, NEW p \in Path
    PROVE  Contents(p) \in Seq(Nat) /\ get_file_size(p) \in Nat
  <1>1. Contents(p) \in Seq(Nat)
    BY DEF Stored, Contents, file_exists
  <1> QED
    BY <1>1 DEF get_file_size

\* open(tmp, O_TRUNC | O_CREAT).
LEMMA CreateStored ==
    ASSUME Stored, NEW p \in Path, NEW n \in Ino, NEW fds, CreateTmp(p, n, fds)
    PROVE  Stored' /\ FilesStay
  BY DEF Stored, CreateTmp, FilesStay

LEMMA WriteStored ==
    ASSUME Stored, NEW n \in Ino, NEW off \in Nat, NEW bytes \in Seq(Nat),
           WriteStream(n, off, bytes)
    PROVE  Stored' /\ FilesStay
  <1>1. WriteAt(data[n], off, bytes) \in Seq(Nat)
    BY WriteType DEF Stored
  <1> QED
    BY <1>1 DEF Stored, WriteStream, FilesStay

\* atomic_rename_tmp.
LEMMA RenameStored ==
    ASSUME Stored, NEW p \in Path, tmp[p] # NoIno, RenameTmp(p)
    PROVE  Stored' /\ FilesStay
  <1>1. tmp[p] \in Ino /\ data[tmp[p]] \in Seq(Nat)
    BY DEF Stored
  <1>2. versions' \in [Path -> SUBSET Seq(Nat)]
    BY <1>1 DEF Stored, RenameTmp
  <1>3. file' \in [Path -> Ino \cup {NoIno}] /\ tmp' \in [Path -> Ino \cup {NoIno}]
    BY <1>1 DEF Stored, RenameTmp
  <1>4. FilesStay
    BY <1>1 DEF Stored, RenameTmp, FilesStay
  <1> QED
    BY <1>2, <1>3, <1>4 DEF Stored, RenameTmp

LEMMA SameStored ==
    ASSUME Stored, UNCHANGED storage
    PROVE  Stored' /\ FilesStay
  BY DEF Stored, storage, FilesStay

\* What is known of a thread that handles a message.
LEMMA Handling ==
    ASSUME Control, NEW s \in Session, pc[s] \notin Idle
    PROVE  /\ Stored /\ loc[s] \in Locals /\ loc = [loc EXCEPT ![s] = loc[s]]
           /\ req[s] \in Requests[s] /\ req[s].op = OpOf(pc[s])
           /\ OpOf(pc[s]) \notin {"list", "unknown"} => path(s) \in Path
           /\ OpOf(pc[s]) \in {"download", "block"} => req[s].offset \in Nat
           /\ OpOf(pc[s]) = "block" => req[s].data \in Seq(Nat)
           /\ OpOf(pc[s]) = "upload" => /\ req[s].total_size \in Nat
                                       /\ req[s].frames \in Seq([raw : BOOLEAN, bytes : Seq(Nat)])
           /\ OpOf(pc[s]) = "list" => req[s].recursive \in BOOLEAN
  <1>1. ThreadOK(pc[s], req[s], loc[s], Requests[s])
    BY DEF Control
  <1>2. req[s] \in Requests[s] /\ req[s].op = OpOf(pc[s]) /\ loc[s] \in Locals
    BY <1>1 DEF ThreadOK
  <1>3. Stored /\ loc = [loc EXCEPT ![s] = loc[s]]
    BY Zenon DEF Control
  <1> QED
    BY <1>2, <1>3, RequestsAssumption DEF path

\* The handlers that only read: negotiation, download, listing.
LEMMA ControlRead ==
    ASSUME Control, NEW s \in Session,
           \/ Negotiate(s) \/ NegotiateHash(s) \/ Download(s) \/ DownloadHeader(s)
           \/ DownloadOpen(s) \/ DownloadSend(s) \/ List(s) \/ ListStat(s) \/ Unknown(s)
    PROVE  Control'
  <1>1. UNCHANGED storage /\ pc[s] \notin Idle
    BY Zenon DEF Negotiate, NegotiateHash, Download, DownloadHeader, DownloadOpen, DownloadSend, List,
           ListStat, Unknown, At, Idle
  <1>2. Stored /\ Stored' /\ FilesStay /\ loc[s] \in Locals
    BY <1>1, Handling, SameStored
  <1>3. ASSUME NEW answer, Return(s, answer) PROVE Control'
    BY <1>2, <1>3, IdleStep, Zenon DEF Return, Idle
  <1>4. CASE Negotiate(s)
    <2>1. pc[s] = "negotiate" /\ path(s) \in Path
      BY <1>1, <1>4, Handling DEF Negotiate, At, OpOf
    <2> DEFINE l == [loc[s] EXCEPT !.size = get_file_size(path(s))]
    <2>2. l \in Locals
      BY <1>2, <2>1, ContentsType, Zenon DEF Locals
    <2> HIDE DEF l
    <2>3. ASSUME Continue(s, "neg_hash", l) PROVE Control'
      BY <1>1, <1>2, <2>1, <2>2, <2>3, GoOnStep, Zenon DEF Continue, Labels, Idle, Operations, OpOf
    <2> QED
      BY <1>3, <1>4, <2>3 DEF Negotiate, l
  <1>5. CASE NegotiateHash(s)
    BY <1>3, <1>5 DEF NegotiateHash
  <1>6. CASE Download(s)
    <2>1. pc[s] = "download" /\ path(s) \in Path /\ req[s].offset \in Nat
      BY <1>1, <1>6, Handling DEF Download, At, OpOf
    <2> DEFINE size == get_file_size(path(s)) - req[s].offset
               l == [loc[s] EXCEPT !.size = size]
    <2>2. ASSUME Continue(s, "dl_header", l), ~(get_file_size(path(s)) <= req[s].offset)
          PROVE Control'
      <3>1. get_file_size(path(s)) \in Nat /\ get_file_size(path(s)) # 0 /\ size \in Nat
        BY <1>2, <2>1, <2>2, ContentsType
      <3>2. file[path(s)] # NoIno
        BY <3>1 DEF get_file_size, Contents, file_exists
      <3>3. loc[s].buf = <<>>
        BY <2>1 DEF Control, ThreadOK, NoLocals, Operations
      <3> HIDE DEF size
      <3>4. l \in Locals /\ l.buf = loc[s].buf
        BY <1>2, <3>1, Zenon DEF Locals
      <3> HIDE DEF l
      <3>5. file' = file
        BY <1>1 DEF storage
      <3> QED
        BY <1>1, <1>2, <2>1, <2>2, <3>2, <3>3, <3>4, <3>5, GoOnStep, Zenon
           DEF Continue, Labels, Idle, Operations, OpOf
    <2> QED
      BY <1>3, <1>6, <2>2 DEF Download
  <1>7. CASE DownloadHeader(s)
    <2>1. pc[s] = "dl_header" /\ path(s) \in Path
      BY <1>1, <1>7, Handling DEF DownloadHeader, At, OpOf
    <2>2. file[path(s)] # NoIno /\ loc[s].buf = <<>> /\ file' = file
      BY <1>1, <2>1 DEF Control, ThreadOK, path, storage
    <2> DEFINE l == [loc[s] EXCEPT !.hash = Contents(path(s))]
    <2>3. l \in Locals /\ l.buf = loc[s].buf
      BY <1>2, <2>1, ContentsType, Zenon DEF Locals
    <2>4. loc' = [loc EXCEPT ![s] = l]
      BY <1>7, Zenon DEF DownloadHeader, Control
    <2> HIDE DEF l
    <2> QED
      BY <1>1, <1>2, <1>7, <2>1, <2>2, <2>3, <2>4, GoOnStep, Zenon
         DEF DownloadHeader, Labels, Idle, Operations, OpOf
  <1>8. CASE DownloadOpen(s)
    <2>1. pc[s] = "dl_open" /\ path(s) \in Path
      BY <1>1, <1>8, Handling DEF DownloadOpen, At, OpOf
    <2>2. file[path(s)] \in Ino
      BY <1>2, <2>1 DEF Control, ThreadOK, path, Stored
    <2> DEFINE l == [loc[s] EXCEPT !.fd = file[path(s)]]
    <2>3. l \in Locals /\ l.fd \in Ino
      BY <1>2, <2>2, Zenon DEF Locals
    <2> HIDE DEF l
    <2>4. Continue(s, "dl_send", l)
      BY <1>8 DEF DownloadOpen, l
    <2> QED
      BY <1>1, <1>2, <2>1, <2>3, <2>4, GoOnStep, Zenon DEF Continue, Labels, Idle, Operations, OpOf
  <1>9. CASE DownloadSend(s)
    <2>1. pc[s] = "dl_send" /\ req[s].offset \in Nat
      BY <1>1, <1>9, Handling, Zenon DEF DownloadSend, At, OpOf
    <2>2. loc[s].fd \in Ino /\ data[loc[s].fd] \in Seq(Nat)
      BY <1>2, <2>1 DEF Control, ThreadOK, Stored
    <2>3. loc[s].buf \in Seq(Nat) /\ loc[s].size \in Nat
      BY <1>2 DEF Locals
    <2>4. ASSUME NEW n \in 1 .. (loc[s].size - Len(loc[s].buf)),
                 Continue(s, "dl_send",
                   [loc[s] EXCEPT !.buf = @ \o ReadBlock(data[loc[s].fd],
                                                         req[s].offset + Len(loc[s].buf), n)])
          PROVE  Control'
      <3>1. n \in Nat /\ req[s].offset + Len(loc[s].buf) \in Nat
        BY <2>1, <2>3
      <3> DEFINE more == loc[s].buf \o ReadBlock(data[loc[s].fd], req[s].offset + Len(loc[s].buf), n)
                 l == [loc[s] EXCEPT !.buf = more]
      <3>2. more \in Seq(Nat)
        <4>1. ReadBlock(data[loc[s].fd], req[s].offset + Len(loc[s].buf), n) \in Seq(Nat)
          BY <2>2, <3>1, ReadType, Zenon
        <4> QED
          BY <2>3, <4>1
      <3> HIDE DEF more
      <3>3. l \in Locals /\ l.fd = loc[s].fd
        BY <1>2, <3>2, Zenon DEF Locals
      <3>4. Continue(s, "dl_send", l)
        BY <2>4 DEF more
      <3> HIDE DEF l
      <3> QED
        BY <1>1, <1>2, <2>1, <2>2, <3>3, <3>4, GoOnStep, Zenon DEF Continue, Labels, Idle, Operations, OpOf
    <2> QED
      BY <1>3, <1>9, <2>4, Zenon DEF DownloadSend
  <1>10. CASE List(s)
    <2>1. pc[s] = "list"
      BY <1>10 DEF List, At
    <2> DEFINE l == [loc[s] EXCEPT !.names = Listing(req[s].recursive)]
    <2>2. Listing(req[s].recursive) \in SUBSET (Path \X {"file", "tmp"})
      BY DEF Listing
    <2>3. l \in Locals
      BY <1>2, <2>2, Zenon DEF Locals
    <2> HIDE DEF l
    <2>4. Continue(s, "ls_stat", l)
      BY <1>10 DEF List, l
    <2> QED
      BY <1>1, <1>2, <2>1, <2>3, <2>4, GoOnStep, Zenon DEF Continue, Labels, Idle, Operations, OpOf
  <1>11. CASE ListStat(s)
    <2>1. pc[s] = "ls_stat" /\ loc[s].names \in SUBSET (Path \X {"file", "tmp"})
      BY <1>2, <1>11 DEF ListStat, At, Locals
    <2>2. ASSUME NEW entry \in loc[s].names,
                 Continue(s, "ls_stat", [loc[s] EXCEPT !.names = @ \ {entry}])
          PROVE  Control'
      <3> DEFINE l == [loc[s] EXCEPT !.names = @ \ {entry}]
      <3>1. loc[s].names \ {entry} \in SUBSET (Path \X {"file", "tmp"})
        BY <2>1
      <3>2. l \in Locals
        BY <1>2, <3>1, Zenon DEF Locals
      <3> HIDE DEF l
      <3> QED
        BY <1>1, <1>2, <2>1, <2>2, <3>2, GoOnStep, Zenon DEF Continue, Labels, Idle, Operations, OpOf, l
    <2>3. CASE UNCHANGED <<pc, req, loc>>
      BY <1>1, <1>2, <2>3, Zenon DEF Control, ThreadOK, storage
    <2> QED
      BY <1>3, <1>11, <2>2, <2>3, Zenon DEF ListStat
  <1>12. CASE Unknown(s)
    BY <1>3, <1>12 DEF Unknown
  <1> QED
    BY <1>4, <1>5, <1>6, <1>7, <1>8, <1>9, <1>10, <1>11, <1>12

\* The upload's handlers.
LEMMA ControlUpload ==
    ASSUME Control, NEW s \in Session,
           \/ Upload(s) \/ UploadReceive(s) \/ UploadReceived(s)
           \/ UploadOpen(s) \/ UploadWrite(s) \/ UploadRename(s)
    PROVE  Control'
  <1>1. /\ pc[s] \in {"upload", "up_recv", "up_open", "up_write", "up_rename"}
        /\ pc[s] \notin Idle /\ OpOf(pc[s]) = "upload"
    BY DEF Upload, UploadReceive, UploadReceived, UploadOpen, UploadWrite, UploadRename, At, Idle, OpOf
  <1>2. /\ Stored /\ loc[s] \in Locals /\ path(s) \in Path
        /\ req[s].frames \in Seq([raw : BOOLEAN, bytes : Seq(Nat)])
        /\ loc = [loc EXCEPT ![s] = loc[s]]
    BY <1>1, Handling
  <1>3. ASSUME NEW answer, Return(s, answer), Stored', FilesStay PROVE Control'
    BY <1>3, IdleStep, Zenon DEF Return, Idle
  <1>4. UNCHANGED storage => Stored' /\ FilesStay
    BY <1>2, SameStored
  <1>5. CASE Upload(s)
    <2>1. UNCHANGED storage /\ Goto(s, "up_recv") /\ req' = req /\ loc' = loc
      BY <1>5 DEF Upload
    <2>2. loc' = [loc EXCEPT ![s] = loc[s]]
      BY <1>2, <2>1, Zenon
    <2>3. Stored' /\ FilesStay
      BY <1>4, <2>1
    <2>4. "up_recv" \in Labels \ (Idle \cup Operations) /\ OpOf("up_recv") = OpOf(pc[s])
      BY <1>1 DEF Labels, Idle, Operations, OpOf
    <2> QED
      BY <1>1, <1>2, <2>1, <2>2, <2>3, <2>4, GoOnStep, Zenon
  <1>6. CASE UploadReceive(s)
    <2>1. CASE loc[s].pos < Len(req[s].frames)
      <3> DEFINE frame == req[s].frames[loc[s].pos + 1]
                 more == IF frame.raw THEN loc[s].buf \o frame.bytes ELSE loc[s].buf
                 l == [loc[s] EXCEPT !.pos = @ + 1, !.buf = more]
      <3>1. loc[s].pos \in Nat /\ loc[s].buf \in Seq(Nat)
        BY <1>2 DEF Locals
      <3>2. loc[s].pos + 1 \in 1 .. Len(req[s].frames) /\ loc[s].pos + 1 \in Nat
        BY <1>2, <2>1, <3>1
      <3>3. frame \in [raw : BOOLEAN, bytes : Seq(Nat)]
        BY <1>2, <3>2, ElementOf, Zenon
      <3>4. Continue(s, "up_recv", l)
        BY <1>6, <2>1, Zenon DEF UploadReceive
      <3>5. more \in Seq(Nat)
        BY <3>1, <3>3
      <3> HIDE DEF more
      <3>6. l \in Locals
        BY <1>2, <3>2, <3>5, Zenon DEF Locals
      <3> HIDE DEF l
      <3>7. UNCHANGED storage
        BY <1>6 DEF UploadReceive
      <3> QED
        BY <1>1, <1>4, <3>4, <3>6, <3>7, GoOnStep, Zenon DEF Continue, Labels, Idle, Operations, OpOf
    <2>2. CASE ~(loc[s].pos < Len(req[s].frames))
      BY <1>4, <1>6, <2>2, IdleStep, Zenon DEF UploadReceive, Idle
    <2> QED
      BY <2>1, <2>2
  <1>7. CASE UploadReceived(s)
    <2>1. ASSUME Continue(s, "up_open", loc[s]) PROVE Control'
      BY <1>1, <1>2, <1>4, <1>7, <2>1, GoOnStep, Zenon
         DEF UploadReceived, Continue, Labels, Idle, Operations, OpOf
    <2> QED
      BY <1>3, <1>4, <1>7, <2>1 DEF UploadReceived
  <1>8. CASE UploadOpen(s)
    <2>1. PICK n \in Ino : /\ CreateTmp(path(s), n, OpenStreams)
                           /\ Continue(s, "up_write", [loc[s] EXCEPT !.fd = n])
      BY <1>8, Zenon DEF UploadOpen
    <2> DEFINE l == [loc[s] EXCEPT !.fd = n]
    <2>2. l \in Locals /\ l.fd \in Ino
      BY <1>2, Zenon DEF Locals
    <2>3. Continue(s, "up_write", l)
      BY <2>1
    <2> HIDE DEF l
    <2>4. Stored' /\ FilesStay
      BY <1>2, <2>1, CreateStored
    <2> QED
      BY <1>1, <2>2, <2>3, <2>4, GoOnStep, Zenon DEF Continue, Labels, Idle, Operations, OpOf
  <1>9. CASE UploadWrite(s)
    <2>1. loc[s].fd \in Ino /\ loc[s].buf \in Seq(Nat)
      BY <1>9 DEF UploadWrite, At, Control, ThreadOK, Locals
    <2> DEFINE l == [loc[s] EXCEPT !.fd = NoIno]
    <2>2. l \in Locals
      BY <1>2, Zenon DEF Locals
    <2>3. Continue(s, "up_rename", l)
      BY <1>9 DEF UploadWrite
    <2> HIDE DEF l
    <2>4. Stored' /\ FilesStay
      BY <1>2, <1>9, <2>1, WriteStored, Zenon DEF UploadWrite
    <2> QED
      BY <1>1, <2>2, <2>3, <2>4, GoOnStep, Zenon DEF Continue, Labels, Idle, Operations, OpOf
  <1>10. CASE UploadRename(s)
    <2>1. Stored' /\ FilesStay
      BY <1>2, <1>4, <1>10, RenameStored DEF UploadRename
    <2> QED
      BY <1>3, <1>10, <2>1 DEF UploadRename
  <1> QED
    BY <1>5, <1>6, <1>7, <1>8, <1>9, <1>10

\* The handlers of delta sync: signatures and blocks.
LEMMA ControlDelta ==
    ASSUME Control, NEW s \in Session,
           \/ Signature(s) \/ SignatureLock(s) \/ SignatureRead(s) \/ SignatureAnswer(s)
           \/ Block(s) \/ BlockLock(s) \/ BlockOpen(s) \/ BlockCreate(s) \/ BlockReopen(s)
           \/ BlockWrite(s) \/ BlockUnlock(s) \/ BlockCheck(s) \/ BlockRename(s)
    PROVE  Control'
  <1> DEFINE Deltas == {"signatures", "sig_lock", "sig_read", "block", "blk_lock", "blk_open",
                        "blk_create", "blk_reopen", "blk_write", "blk_unlock", "blk_check",
                        "blk_rename"}
  <1>1. /\ pc[s] \in Deltas /\ pc[s] \notin Idle
        /\ OpOf(pc[s]) \in {"signatures", "block"}
    BY DEF Signature, SignatureLock, SignatureRead, SignatureAnswer, Block, BlockLock, BlockOpen,
           BlockCreate, BlockReopen, BlockWrite, BlockUnlock, BlockCheck, BlockRename, At, Idle, OpOf
  <1>2. /\ Stored /\ loc[s] \in Locals /\ path(s) \in Path
        /\ OpOf(pc[s]) = "block" => req[s].offset \in Nat /\ req[s].data \in Seq(Nat)
    BY <1>1, Handling
  <1>3. ASSUME NEW answer, Return(s, answer), Stored', FilesStay PROVE Control'
    BY <1>3, IdleStep, Zenon DEF Return, Idle
  <1>4. UNCHANGED storage => Stored' /\ FilesStay
    BY <1>2, SameStored
  <1>5. ASSUME NEW label \in Deltas \ Operations, OpOf(label) = OpOf(pc[s]), NEW l \in Locals,
               Continue(s, label, l), Stored', FilesStay
        PROVE  Control'
    <2>1. label \in Labels \ (Idle \cup Operations)
      BY DEF Labels, Idle
    <2>2. label \notin {"dl_header", "dl_open", "dl_send", "up_write"}
      OBVIOUS
    <2> QED
      BY <1>1, <1>5, <2>1, <2>2, GoOnStep, Zenon DEF Continue
  <1>6. ASSUME NEW n \in Ino \cup {NoIno} PROVE [loc[s] EXCEPT !.fd = n] \in Locals
    BY <1>2, Zenon DEF Locals
  <1>7. ASSUME NEW label \in Deltas \ Operations, OpOf(label) = OpOf(pc[s]),
               Continue(s, label, loc[s]), Stored', FilesStay
        PROVE  Control'
    BY <1>2, <1>5, <1>7
  <1>8. CASE Signature(s)
    <2> DEFINE l == [loc[s] EXCEPT !.size = get_file_size(path(s))]
    <2>1. l \in Locals
      BY <1>2, ContentsType, Zenon DEF Locals
    <2> HIDE DEF l
    <2>2. pc[s] = "signatures" /\ UNCHANGED storage
      BY <1>8 DEF Signature, At
    <2>3. ASSUME Continue(s, "sig_lock", l) PROVE Control'
      BY <1>4, <1>5, <2>1, <2>2, <2>3 DEF OpOf, Operations
    <2> QED
      BY <1>3, <1>4, <1>8, <2>2, <2>3 DEF Signature, l
  <1>9. CASE SignatureLock(s)
    BY <1>4, <1>7, <1>9 DEF SignatureLock, At, OpOf, Operations
  <1>10. CASE SignatureRead(s)
    <2> DEFINE i == loc[s].pos
               want == BlockLen(loc[s].size, i * BlockSize, BlockSize)
               block == IF i * BlockSize < get_file_size(path(s))
                        THEN ReadBlock(Contents(path(s)), i * BlockSize, want) ELSE <<>>
               wanted == IF BlockDiffers(block, i, req[s].sigs) THEN loc[s].asked \cup {i}
                         ELSE loc[s].asked
               l == [loc[s] EXCEPT !.pos = @ + 1, !.asked = wanted]
    <2>1. Continue(s, "sig_read", l)
      BY <1>10, Zenon DEF SignatureRead
    <2>2. loc[s].pos \in Nat /\ loc[s].asked \in SUBSET Nat
      BY <1>2 DEF Locals
    <2> HIDE DEF block
    <2>3. wanted \in SUBSET Nat /\ loc[s].pos + 1 \in Nat
      BY <2>2
    <2> HIDE DEF wanted
    <2>4. l \in Locals
      BY <1>2, <2>3, Zenon DEF Locals
    <2> HIDE DEF l
    <2> QED
      BY <1>4, <1>5, <1>10, <2>1, <2>4 DEF SignatureRead, At, OpOf, Operations
  <1>11. CASE SignatureAnswer(s)
    BY <1>3, <1>4, <1>11 DEF SignatureAnswer
  <1>12. CASE Block(s)
    BY <1>3, <1>4, <1>7, <1>12 DEF Block, At, OpOf, Operations
  <1>13. CASE BlockLock(s)
    BY <1>4, <1>7, <1>13 DEF BlockLock, At, OpOf, Operations
  <1>14. CASE BlockOpen(s)
    <2> DEFINE l == [loc[s] EXCEPT !.fd = tmp[path(s)]]
    <2>1. l \in Locals
      BY <1>2, <1>6 DEF Stored
    <2> HIDE DEF l
    <2>2. pc[s] = "blk_open" /\ UNCHANGED storage
      BY <1>14 DEF BlockOpen, At
    <2>3. ASSUME Continue(s, "blk_write", l) PROVE Control'
      BY <1>4, <1>5, <2>1, <2>2, <2>3 DEF OpOf, Operations
    <2>4. ASSUME Continue(s, "blk_create", loc[s]) PROVE Control'
      BY <1>4, <1>7, <2>2, <2>4 DEF OpOf, Operations
    <2> QED
      BY <1>14, <2>3, <2>4 DEF BlockOpen, l
  <1>15. CASE BlockCreate(s)
    <2>1. Stored' /\ FilesStay
      BY <1>2, <1>15, CreateStored DEF BlockCreate
    <2> QED
      BY <1>7, <1>15, <2>1 DEF BlockCreate, At, OpOf, Operations
  <1>16. CASE BlockReopen(s)
    <2> DEFINE l == [loc[s] EXCEPT !.fd = tmp[path(s)]]
    <2>1. l \in Locals
      BY <1>2, <1>6 DEF Stored
    <2>2. Continue(s, "blk_write", l)
      BY <1>16 DEF BlockReopen
    <2> HIDE DEF l
    <2> QED
      BY <1>4, <1>5, <1>16, <2>1, <2>2 DEF BlockReopen, At, OpOf, Operations
  <1>17. CASE BlockWrite(s)
    <2>1. pc[s] = "blk_write" /\ req[s].offset \in Nat /\ req[s].data \in Seq(Nat)
      BY <1>2, <1>17 DEF BlockWrite, At, OpOf
    <2>2. loc[s].fd # NoIno => loc[s].fd \in Ino
      BY <1>2, SMTT(30) DEF Locals
    <2>3. Stored' /\ FilesStay
      BY <1>2, <1>4, <1>17, <2>1, <2>2, WriteStored DEF BlockWrite
    <2> QED
      BY <1>7, <1>17, <2>1, <2>3 DEF BlockWrite, OpOf, Operations
  <1>18. CASE BlockUnlock(s)
    <2> DEFINE l == [loc[s] EXCEPT !.fd = NoIno]
    <2>1. l \in Locals
      BY <1>6
    <2> HIDE DEF l
    <2>2. pc[s] = "blk_unlock" /\ UNCHANGED storage
      BY <1>18 DEF BlockUnlock, At
    <2>3. ASSUME Continue(s, "blk_check", l) PROVE Control'
      BY <1>4, <1>5, <2>1, <2>2, <2>3 DEF OpOf, Operations
    <2> QED
      BY <1>3, <1>4, <1>18, <2>2, <2>3, Zenon DEF BlockUnlock, l
  <1>19. CASE BlockCheck(s)
    BY <1>3, <1>4, <1>7, <1>19 DEF BlockCheck, At, OpOf, Operations
  <1>20. CASE BlockRename(s)
    <2>1. Stored' /\ FilesStay
      BY <1>2, <1>4, <1>20, RenameStored DEF BlockRename
    <2> QED
      BY <1>3, <1>20, <2>1, SMTT(30) DEF BlockRename
  <1> QED
    BY <1>8, <1>9, <1>10, <1>11, <1>12, <1>13, <1>14, <1>15, <1>16, <1>17, <1>18, <1>19, <1>20

\* Session::run reads a frame: the handler's locals are fresh.
LEMMA ControlReceive ==
    ASSUME Control, NEW s \in Session, Receive(s)
    PROVE  Control'
  <1>1. PICK r \in Requests[s] : req' = [req EXCEPT ![s] = r] /\ Goto(s, r.op)
    BY Zenon DEF Receive
  <1>2. pc[s] = "ready" /\ loc' = loc /\ UNCHANGED storage
    BY DEF Receive, At
  <1>3. loc[s] = NoLocals /\ Stored
    BY <1>2 DEF Control, ThreadOK, Idle
  <1>4. loc' = [loc EXCEPT ![s] = NoLocals]
    BY <1>2, <1>3, Zenon DEF Control
  <1>5. r.op \in Operations
    BY RequestsAssumption
  <1>6. /\ r.op \in Labels /\ r.op = OpOf(r.op)
        /\ r.op \notin {"dl_header", "dl_open", "dl_send", "up_write"}
    BY <1>5 DEF Operations, Labels, OpOf
  <1>7. ThreadOK(r.op, r, NoLocals, Requests[s])'
    BY <1>6, NoLocalsType DEF ThreadOK
  <1>8. Stored' /\ FilesStay
    BY <1>2, <1>3, SameStored
  <1> QED
    BY <1>1, <1>4, <1>7, <1>8, ThreadStep, Zenon

LEMMA ControlInit == Init => Control
  <1> SUFFICES ASSUME Init PROVE Control
    OBVIOUS
  <1> DEFINE inode == CHOOSE g \in [Path -> Ino] : \A p, q \in Path : p # q => g[p] # g[q]
  <1>1. PICK f \in InitialFiles :
          /\ file = [p \in Path |-> IF f[p] = NoFile THEN NoIno ELSE inode[p]]
          /\ data = [n \in Ino |-> IF \E p \in Path : file[p] = n
                                   THEN f[CHOOSE p \in Path : file[p] = n] ELSE <<>>]
          /\ versions = [p \in Path |-> IF f[p] = NoFile THEN {} ELSE {f[p]}]
    BY Zenon DEF Init
  <1>2. inode \in [Path -> Ino]
    BY SessionsAssumption, Zenon
  <1> HIDE DEF inode
  <1>3. \A p \in Path : f[p] = NoFile \/ f[p] \in Seq(Nat)
    BY SessionsAssumption, Zenon
  <1>4. file \in [Path -> Ino \cup {NoIno}] /\ tmp \in [Path -> Ino \cup {NoIno}]
    BY <1>1, <1>2, Zenon DEF Init
  <1>5. versions \in [Path -> SUBSET Seq(Nat)]
    BY <1>1, <1>3, Zenon
  <1>6. ASSUME NEW n \in Ino PROVE data[n] \in Seq(Nat)
    <2>1. CASE \E p \in Path : file[p] = n
      <3> DEFINE p == CHOOSE p \in Path : file[p] = n
      <3>1. p \in Path /\ file[p] = n
        BY <2>1, Zenon
      <3>2. data[n] = f[p]
        BY <1>1, <2>1, Zenon
      <3> HIDE DEF p
      <3>3. f[p] # NoFile
        BY <1>1, <3>1, SessionsAssumption, Zenon
      <3> QED
        BY <1>3, <3>1, <3>2, <3>3, Zenon
    <2>2. CASE ~ \E p \in Path : file[p] = n
      <3>1. data[n] = <<>>
        BY <1>1, <2>2, Zenon
      <3> QED
        BY <3>1
    <2> QED
      BY <2>1, <2>2
  <1>7. Stored
    <2>1. data = [n \in Ino |-> data[n]]
      BY <1>1, ZenonT(30)
    <2> QED
      BY <1>4, <1>5, <1>6, <2>1, Zenon DEF Stored
  <1>8. \A s \in Session : ThreadOK(pc[s], req[s], loc[s], Requests[s])
    BY NoLocalsType DEF Init, ThreadOK, Idle, Labels
  <1> QED
    BY <1>7, <1>8, Zenon DEF Init, Control

\* The invariant of types and control, for every action of the model.
LEMMA ControlInvariance == Spec => []Control
  <1>1. Control /\ [Next]_vars => Control'
    <2> SUFFICES ASSUME Control, [Next]_vars PROVE Control'
      OBVIOUS
    <2>1. ASSUME UNCHANGED storage PROVE Stored' /\ FilesStay
      BY <2>1, SameStored DEF Control
    <2>2. CASE CrashRestart
      <3>1. /\ Stored' /\ pc' = [s \in Session |-> "ready"]
            /\ req' = [s \in Session |-> NoRequest] /\ loc' = [s \in Session |-> NoLocals]
        BY <2>1, <2>2 DEF CrashRestart
      <3>2. \A s \in Session : ThreadOK(pc[s], req[s], loc[s], Requests[s])'
        BY <3>1, NoLocalsType DEF ThreadOK, Idle, Labels
      <3> QED
        BY <3>1, <3>2, Zenon DEF Control
    <2>3. ASSUME NEW s \in Session, Receive(s) PROVE Control'
      BY <2>3, ControlReceive
    <2>4. ASSUME NEW s \in Session, Handle(s) PROVE Control'
      BY <2>4, ControlRead, ControlUpload, ControlDelta, Zenon DEF Handle
    <2>5. ASSUME NEW s \in Session, Disconnect(s) PROVE Control'
      BY <2>1, <2>5, IdleStep, Zenon DEF Disconnect, Idle
    <2>6. CASE UNCHANGED vars
      BY <2>6, Zenon DEF vars, storage, Control, Stored, ThreadOK
    <2> QED
      BY <2>2, <2>3, <2>4, <2>5, <2>6 DEF Next
  <1> QED
    BY <1>1, ControlInit, PTL DEF Spec

\* What the threads leave alone, or change in one way only.
Sides ==
    /\ access \in [Session -> (Path \X Lock!Mode) \cup {Lock!NoAccess}]
    /\ reply \in [Session -> Replies]
    /\ served = [s \in Session |-> served[s]]
    /\ \A s \in Session : served[s] \in 0 .. MaxRequests[s]
    /\ thrown \in BOOLEAN
    /\ crashes \in 0 .. MaxCrashes

\* A step that answers, or takes or gives back a lock, and counts nothing.
LEMMA SidesStep ==
    ASSUME Sides, NEW s \in Session, NEW answer \in Replies,
           NEW a \in (Path \X Lock!Mode) \cup {Lock!NoAccess},
           access' = access \/ access' = [access EXCEPT ![s] = a],
           reply' = reply \/ reply' = [reply EXCEPT ![s] = answer],
           served' = served, thrown' \in BOOLEAN, crashes' = crashes
    PROVE  Sides'
  <1>1. access' \in [Session -> (Path \X Lock!Mode) \cup {Lock!NoAccess}]
    BY Zenon DEF Sides
  <1>2. reply' \in [Session -> Replies]
    BY Zenon DEF Sides
  <1> QED
    BY <1>1, <1>2, Zenon DEF Sides

LEMMA SidesHandle ==
    ASSUME Control, Sides, NEW s \in Session, Handle(s)
    PROVE  Sides'
  <1>1. reply[s] \in Replies /\ {"none", "fresh", "unchanged", "modified", "header", "error", "ack",
                                "request", "ok", "mismatch", "listing"} \subseteq Replies
    BY DEF Sides, Replies
  <1>2. Lock!NoAccess \in (Path \X Lock!Mode) \cup {Lock!NoAccess} /\ thrown \in BOOLEAN
    BY DEF Sides
  <1>3. ASSUME NEW answer \in Replies, Return(s, answer), access' = access PROVE Sides'
    BY <1>2, <1>3, SidesStep, Zenon DEF Return
  <1>4. ASSUME NEW label, NEW l, Continue(s, label, l), access' = access PROVE Sides'
    BY <1>1, <1>2, <1>4, SidesStep DEF Continue
  <1>5. ASSUME NEW mode \in Lock!Mode, Lock!Grant(s, path(s), mode), path(s) \in Path,
               NEW label, NEW l, Continue(s, label, l)
        PROVE  Sides'
    BY <1>1, <1>2, <1>5, SidesStep, Zenon DEF Continue, Lock!Grant
  <1>6. ASSUME Lock!Release(s), NEW answer \in Replies, Return(s, answer) PROVE Sides'
    BY <1>2, <1>6, SidesStep, Zenon DEF Return, Lock!Release
  <1>7. ASSUME Lock!Release(s), NEW label, NEW l, Continue(s, label, l) PROVE Sides'
    BY <1>1, <1>2, <1>7, SidesStep, Zenon DEF Continue, Lock!Release
  <1>8. CASE Negotiate(s)
    BY <1>1, <1>3, <1>4, <1>8 DEF Negotiate
  <1>9. CASE NegotiateHash(s)
    BY <1>1, <1>3, <1>9 DEF NegotiateHash, ModeOfExisting
  <1>10. CASE Download(s)
    BY <1>1, <1>3, <1>4, <1>10 DEF Download
  <1>11. CASE DownloadHeader(s)
    BY <1>1, <1>2, <1>11, SidesStep, Zenon DEF DownloadHeader
  <1>12. CASE DownloadOpen(s)
    BY <1>4, <1>12 DEF DownloadOpen
  <1>13. CASE DownloadSend(s)
    BY <1>1, <1>3, <1>4, <1>13, Zenon DEF DownloadSend
  <1>14. CASE Upload(s)
    BY <1>1, <1>2, <1>14, SidesStep, Zenon DEF Upload
  <1>15. CASE UploadReceive(s)
    <2>1. CASE loc[s].pos < Len(req[s].frames)
      BY <1>4, <1>15, <2>1, Zenon DEF UploadReceive
    <2>2. CASE ~(loc[s].pos < Len(req[s].frames))
      <3>1. access' = access /\ reply' = [reply EXCEPT ![s] = "error"]
            /\ UNCHANGED <<served, thrown, crashes>>
        BY <1>15, <2>2, Zenon DEF UploadReceive
      <3> QED
        BY <1>1, <1>2, <3>1, SidesStep, Zenon
    <2> QED
      BY <2>1, <2>2
  <1>16. CASE UploadReceived(s)
    BY <1>1, <1>3, <1>4, <1>16 DEF UploadReceived
  <1>17. CASE UploadOpen(s)
    BY <1>4, <1>17 DEF UploadOpen
  <1>18. CASE UploadWrite(s)
    BY <1>4, <1>18 DEF UploadWrite
  <1>19. CASE UploadRename(s)
    BY <1>1, <1>3, <1>19 DEF UploadRename
  <1>20. CASE Signature(s)
    BY <1>1, <1>3, <1>4, <1>20 DEF Signature
  <1>21. CASE SignatureLock(s)
    <2>1. path(s) \in Path
      BY <1>21, Handling DEF SignatureLock, At, OpOf, Idle
    <2> QED
      BY <1>5, <1>21, <2>1 DEF SignatureLock, Lock!Mode
  <1>22. CASE SignatureRead(s)
    BY <1>4, <1>22 DEF SignatureRead
  <1>23. CASE SignatureAnswer(s)
    BY <1>1, <1>6, <1>23 DEF SignatureAnswer
  <1>24. CASE Block(s)
    BY <1>1, <1>3, <1>4, <1>24 DEF Block
  <1>25. CASE BlockLock(s)
    <2>1. path(s) \in Path
      BY <1>25, Handling DEF BlockLock, At, OpOf, Idle
    <2> QED
      BY <1>5, <1>25, <2>1 DEF BlockLock, Lock!Mode
  <1>26. CASE BlockOpen(s)
    BY <1>4, <1>26 DEF BlockOpen
  <1>27. CASE BlockCreate(s)
    BY <1>4, <1>27 DEF BlockCreate
  <1>28. CASE BlockReopen(s)
    BY <1>4, <1>28 DEF BlockReopen
  <1>29. CASE BlockWrite(s)
    BY <1>4, <1>29 DEF BlockWrite
  <1>30. CASE BlockUnlock(s)
    BY <1>1, <1>6, <1>7, <1>30, Zenon DEF BlockUnlock
  <1>31. CASE BlockCheck(s)
    BY <1>1, <1>3, <1>4, <1>31 DEF BlockCheck
  <1>32. CASE BlockRename(s)
    BY <1>1, <1>3, <1>32 DEF BlockRename
  <1>33. CASE List(s)
    BY <1>4, <1>33 DEF List
  <1>34. CASE ListStat(s)
    <2>1. access' = access
      BY <1>34 DEF ListStat
    <2>2. CASE thrown' = TRUE /\ UNCHANGED <<reply, served, crashes>>
      BY <1>1, <1>2, <2>1, <2>2, SidesStep
    <2> QED
      BY <1>1, <1>3, <1>4, <1>34, <2>1, <2>2, Zenon DEF ListStat
  <1>35. CASE Unknown(s)
    BY <1>1, <1>3, <1>35 DEF Unknown
  <1> QED
    BY <1>8, <1>9, <1>10, <1>11, <1>12, <1>13, <1>14, <1>15, <1>16, <1>17, <1>18, <1>19, <1>20,
       <1>21, <1>22, <1>23, <1>24, <1>25, <1>26, <1>27, <1>28, <1>29, <1>30, <1>31, <1>32, <1>33,
       <1>34, <1>35, Zenon DEF Handle

(***************************************************************************)
(* Type correctness for any sessions, messages and directory, through      *)
(* every interleaving, lost connection and crash: streams are open where   *)
(* they are read and written, counters stay in their bounds and an answer  *)
(* is one that Session sends.                                              *)
(***************************************************************************)
THEOREM TypeCorrect == Spec => []TypeOK
  <1>1. Init => Sides
    <2> SUFFICES ASSUME Init PROVE Sides
      OBVIOUS
    <2>1. \A s \in Session : 0 \in 0 .. MaxRequests[s]
      BY SessionsAssumption
    <2>2. 0 \in 0 .. MaxCrashes /\ "none" \in Replies
      BY SessionsAssumption DEF Replies
    <2> QED
      BY <2>1, <2>2, Zenon DEF Init, Sides
  <1>2. Control /\ Sides /\ [Next]_vars => Sides'
    <2> SUFFICES ASSUME Control, Sides, [Next]_vars PROVE Sides'
      OBVIOUS
    <2>1. CASE CrashRestart
      <3>1. crashes' \in 0 .. MaxCrashes
        BY <2>1, SessionsAssumption DEF CrashRestart, Sides
      <3>2. "none" \in Replies
        BY DEF Replies
      <3> QED
        BY <2>1, <3>1, <3>2, Zenon DEF CrashRestart, Sides
    <2>2. ASSUME NEW s \in Session, Receive(s) PROVE Sides'
      <3>1. served[s] + 1 \in 0 .. MaxRequests[s]
        BY <2>2, SessionsAssumption DEF Receive, Sides
      <3>2. served' = [served EXCEPT ![s] = served[s] + 1]
        BY <2>2 DEF Receive
      <3>3. /\ served' = [t \in Session |-> served'[t]]
            /\ \A t \in Session : served'[t] \in 0 .. MaxRequests[t]
        BY <3>1, <3>2, Zenon DEF Sides
      <3> QED
        BY <2>2, <3>3, Zenon DEF Receive, Sides
    <2>3. ASSUME NEW s \in Session, Handle(s) PROVE Sides'
      BY <2>3, SidesHandle
    <2>4. ASSUME NEW s \in Session, Disconnect(s) PROVE Sides'
      BY <2>4, Zenon DEF Disconnect, Sides
    <2>5. CASE UNCHANGED vars
      BY <2>5, Zenon DEF vars, Sides
    <2> QED
      BY <2>1, <2>2, <2>3, <2>4, <2>5 DEF Next
  <1>3. Control /\ Sides => TypeOK
    <2> SUFFICES ASSUME Control, Sides PROVE TypeOK
      OBVIOUS
    <2>1. \A s \in Session : pc[s] \in Labels /\ loc[s] \in Locals
      BY DEF Control, ThreadOK
    <2>2. pc \in [Session -> Labels]
      BY <2>1, Zenon DEF Control
    <2>3. StorageTypeOK
      BY Zenon DEF Control, Stored, StorageTypeOK
    <2>4. Lock!TypeOK
      BY Zenon DEF Sides, Lock!TypeOK, Lock!Access
    <2>5. ASSUME NEW s \in Session
          PROVE  /\ loc[s].fd \in Ino \cup {NoIno}
                 /\ loc[s].size \in Nat /\ loc[s].pos \in Nat
                 /\ {loc[s].hash, loc[s].buf} \subseteq Seq(Nat)
                 /\ loc[s].asked \subseteq Nat
                 /\ loc[s].names \subseteq Path \X {"file", "tmp"}
      BY <2>1 DEF Locals
    <2> QED
      BY <2>2, <2>3, <2>4, <2>5, Zenon DEF Sides, TypeOK
  <1> QED
    BY <1>1, <1>2, <1>3, ControlInvariance, PTL DEF Spec
=============================================================================
