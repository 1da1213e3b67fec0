----------------------- MODULE SessionsReadersProofs -----------------------
(***************************************************************************)
(* What readers see, for any number of clients that do not write each      *)
(* other's paths (OneWriter): what a path names was put there by a rename, *)
(* and a download sends one version.  The code does not keep two sessions  *)
(* from writing one path at a time, and then VisibleOnlyByRename fails.    *)
(* With uploads alone (UploadsOnly), a path names whole uploads.           *)
(* Recursive listings (RecursiveLists) do not throw.                       *)
(***************************************************************************)
EXTENDS SessionsProofs

Writes == {"upload", "block"}

\* No two clients write the same path.
OneWriter ==
    \A s, t \in Session : s # t =>
        \A r \in Requests[s], q \in Requests[t] :
            r.op \in Writes /\ q.op \in Writes => r.path # q.path

\* No inode has two entries.
Entries ==
    \A p, q \in Path :
        /\ file[p] # NoIno => file[p] # tmp[q]
        /\ p # q /\ file[p] # NoIno => file[p] # file[q]
        /\ p # q /\ tmp[p] # NoIno => tmp[p] # tmp[q]

\* The bytes of buf are those of c from off on.
Extract(c, off, buf) == \A k \in 1 .. Len(buf) : off + k <= Len(c) /\ buf[k] = c[off + k]

\* A write goes to the .tmp file that the path has now; a download has open an
\* inode that is no .tmp file, with a content that was renamed, and has sent
\* the bytes of it.
StreamOK(label, r, l) ==
    /\ label = "up_write" => l.fd = tmp[r.path]
    /\ label = "blk_write" /\ l.fd # NoIno => l.fd = tmp[r.path]
    /\ label = "dl_send" =>
         /\ \A p \in Path : l.fd # tmp[p]
         /\ data[l.fd] \in versions[r.path]
         /\ Extract(data[l.fd], r.offset, l.buf)

Streams == \A s \in Session : StreamOK(pc[s], req[s], loc[s])

Sound == Entries /\ Streams /\ VisibleOnlyByRename

\* Uploads only: a buffer holds the raw bytes of the frames read so far, and a
\* .tmp file that is about to be renamed holds the whole buffer.
UploadOK(label, r, l) ==
    /\ label = "up_recv" => l.pos \in 0 .. Len(r.frames) /\ l.buf = Uploaded(r, l.pos)
    /\ label \in {"up_open", "up_write", "up_rename"} =>
         /\ Len(l.buf) = r.total_size
         /\ \E k \in 0 .. Len(r.frames) : l.buf = Uploaded(r, k)
    /\ label = "up_write" => data[l.fd] = <<>>
    /\ label = "up_rename" /\ tmp[r.path] # NoIno => data[tmp[r.path]] = l.buf

Whole == WholeVersions /\ \A s \in Session : UploadOK(pc[s], req[s], loc[s])

UploadsOnly == \A s \in Session : \A r \in Requests[s] : r.op # "block"

\* Clients list recursively, as App.tsx does.
RecursiveLists == \A s \in Session : \A r \in Requests[s] : r.op = "list" => r.recursive

\* A listing has visited files only, and they are still there.
ListedStay ==
    \A s \in Session : pc[s] = "ls_stat" =>
        \A entry \in loc[s].names : entry[2] = "file" /\ file[entry[1]] # NoIno

\* A step of one thread.
Moved(s) ==
    \A t \in Session \ {s} : pc'[t] = pc[t] /\ req'[t] = req[t] /\ loc'[t] = loc[t]

LEMMA ReturnMoved ==
    ASSUME Control, NEW s \in Session, NEW answer, Return(s, answer)
    PROVE  Moved(s) /\ pc'[s] = "ready"
  BY Zenon DEF Control, Return, Goto, Moved

LEMMA ContinueMoved ==
    ASSUME Control, NEW s \in Session, NEW label, NEW l, Continue(s, label, l)
    PROVE  Moved(s) /\ pc'[s] = label /\ req'[s] = req[s] /\ loc'[s] = l
  BY Zenon DEF Control, Continue, Goto, Moved

StreamLabels == {"up_write", "blk_write", "dl_send"}

\* The steps of a thread that leave the directory alone and open no stream.
LEMMA QuietSteps ==
    ASSUME Control, NEW s \in Session,
           \/ Receive(s) \/ Disconnect(s) \/ Negotiate(s) \/ NegotiateHash(s) \/ Download(s)
           \/ DownloadHeader(s) \/ Signature(s) \/ SignatureLock(s) \/ SignatureRead(s)
           \/ SignatureAnswer(s) \/ Block(s) \/ BlockLock(s) \/ BlockUnlock(s) \/ BlockCheck(s)
           \/ List(s) \/ ListStat(s) \/ Unknown(s)
    PROVE  /\ UNCHANGED storage /\ Moved(s)
           /\ pc'[s] \notin StreamLabels \cup {"up_recv", "up_open", "up_rename"}
  <1> DEFINE Quiet == /\ Moved(s)
                      /\ pc'[s] \notin StreamLabels \cup {"up_recv", "up_open", "up_rename"}
  <1>1. UNCHANGED storage
    BY DEF Receive, Disconnect, Negotiate, NegotiateHash, Download, DownloadHeader, Signature,
           SignatureLock, SignatureRead, SignatureAnswer, Block, BlockLock, BlockUnlock, BlockCheck,
           List, ListStat, Unknown
  <1>2. ASSUME NEW answer, Return(s, answer) PROVE Quiet
    BY <1>2, ReturnMoved DEF StreamLabels
  <1>3. ASSUME NEW label, label \notin StreamLabels \cup {"up_recv", "up_open", "up_rename"},
               NEW l, Continue(s, label, l)
        PROVE  Quiet
    BY <1>3, ContinueMoved
  <1>4. CASE Receive(s)
    <2>1. PICK r \in Requests[s] : req' = [req EXCEPT ![s] = r] /\ Goto(s, r.op)
      BY <1>4, Zenon DEF Receive
    <2>2. r.op \in Operations
      BY RequestsAssumption, Zenon
    <2>3. Moved(s) /\ pc'[s] = r.op
      BY <1>4, <2>1, Zenon DEF Control, Receive, Goto, Moved
    <2> QED
      BY <1>1, <2>2, <2>3, Zenon DEF Operations, StreamLabels
  <1>5. CASE Disconnect(s)
    <2>1. Moved(s) /\ pc'[s] = "closed"
      BY <1>5, Zenon DEF Control, Disconnect, Goto, Moved
    <2> QED
      BY <1>1, <2>1 DEF StreamLabels
  <1>6. CASE Negotiate(s)
    BY <1>2, <1>3, <1>6 DEF Negotiate, StreamLabels
  <1>7. CASE NegotiateHash(s)
    BY <1>2, <1>7, Zenon DEF NegotiateHash
  <1>8. CASE Download(s)
    BY <1>2, <1>3, <1>8 DEF Download, StreamLabels
  <1>9. CASE DownloadHeader(s)
    <2>1. Moved(s) /\ pc'[s] = "dl_open"
      BY <1>9, Zenon DEF Control, DownloadHeader, Goto, Moved
    <2> QED
      BY <1>1, <2>1 DEF StreamLabels
  <1>10. CASE Signature(s)
    BY <1>2, <1>3, <1>10 DEF Signature, StreamLabels
  <1>11. CASE SignatureLock(s)
    BY <1>3, <1>11 DEF SignatureLock, StreamLabels
  <1>12. CASE SignatureRead(s)
    BY <1>3, <1>12 DEF SignatureRead, StreamLabels
  <1>13. CASE SignatureAnswer(s)
    BY <1>2, <1>13, Zenon DEF SignatureAnswer
  <1>14. CASE Block(s)
    BY <1>2, <1>3, <1>14, Zenon DEF Block, StreamLabels
  <1>15. CASE BlockLock(s)
    BY <1>3, <1>15, Zenon DEF BlockLock, StreamLabels
  <1>16. CASE BlockUnlock(s)
    <2>1. "blk_check" \notin StreamLabels \cup {"up_recv", "up_open", "up_rename"}
      BY DEF StreamLabels
    <2> QED
      BY <1>2, <1>3, <1>16, <2>1, Zenon DEF BlockUnlock
  <1>17. CASE BlockCheck(s)
    BY <1>2, <1>3, <1>17, Zenon DEF BlockCheck, StreamLabels
  <1>18. CASE List(s)
    BY <1>3, <1>18 DEF List, StreamLabels
  <1>19. CASE ListStat(s)
    <2>1. "ls_stat" \notin StreamLabels \cup {"up_recv", "up_open", "up_rename"}
      BY DEF StreamLabels
    <2>2. CASE UNCHANGED <<pc, req, loc>>
      BY <1>19, <2>1, <2>2, Zenon DEF ListStat, At, Moved
    <2> QED
      BY <1>2, <1>3, <1>19, <2>1, <2>2, Zenon DEF ListStat
  <1>20. CASE Unknown(s)
    BY <1>2, <1>20 DEF Unknown
  <1> QED
    BY <1>1, <1>4, <1>5, <1>6, <1>7, <1>8, <1>9, <1>10, <1>11, <1>12, <1>13, <1>14, <1>15, <1>16,
       <1>17, <1>18, <1>19, <1>20, Zenon

\* A step of a thread that leaves the directory alone.
LEMMA SoundCalm ==
    ASSUME Sound, NEW s \in Session, UNCHANGED storage, Moved(s),
           StreamOK(pc[s], req[s], loc[s])'
    PROVE  Sound'
  <1>1. data' = data /\ file' = file /\ tmp' = tmp /\ versions' = versions
    BY DEF storage
  <1>2. ASSUME NEW t \in Session \ {s} PROVE StreamOK(pc[t], req[t], loc[t])'
    <2>1. StreamOK(pc[t], req[t], loc[t])
      BY DEF Sound, Streams
    <2>2. pc'[t] = pc[t] /\ req'[t] = req[t] /\ loc'[t] = loc[t]
      BY DEF Moved
    <2> QED
      BY <1>1, <2>1, <2>2, Zenon DEF StreamOK
  <1>3. Streams'
    BY <1>2, Zenon DEF Streams
  <1>4. Entries' /\ VisibleOnlyByRename'
    BY <1>1, Zenon DEF Sound, Entries, VisibleOnlyByRename, file_exists, Contents
  <1> QED
    BY <1>3, <1>4 DEF Sound

\* Two writers are on different paths.
LEMMA Apart ==
    ASSUME Control, OneWriter, NEW s \in Session, NEW t \in Session \ {s},
           OpOf(pc[s]) \in Writes, OpOf(pc[t]) \in Writes
    PROVE  path(s) # path(t)
  <1>1. pc[s] \notin Idle /\ pc[t] \notin Idle
    BY DEF OpOf, Idle, Writes
  <1>2. /\ req[s] \in Requests[s] /\ req[s].op \in Writes
        /\ req[t] \in Requests[t] /\ req[t].op \in Writes
    BY <1>1, Handling
  <1> QED
    BY <1>2, Zenon DEF OneWriter, path

\* Opening a .tmp file disturbs no file, and no stream but of its path.
LEMMA CreateSound ==
    ASSUME Stored, Entries, VisibleOnlyByRename, NEW p \in Path, NEW n \in Ino, NEW fds,
           CreateTmp(p, n, fds)
    PROVE  /\ Entries' /\ VisibleOnlyByRename' /\ tmp'[p] = n /\ data'[n] = <<>>
           /\ \A q \in Path \ {p} : tmp'[q] = tmp[q] /\ tmp[q] # n
           /\ \A m \in Ino \ {n} : data'[m] = data[m]
           /\ n = tmp[p] \/ n \notin fds
           /\ versions' = versions
  <1>1. (n = tmp[p] /\ tmp[p] # NoIno) \/ n \in Unused(fds)
    <2>1. CASE tmp[p] # NoIno
      BY <2>1 DEF CreateTmp
    <2>2. CASE tmp[p] = NoIno
      <3>1. n = CHOOSE free \in Unused(fds) : TRUE
        BY <2>2 DEF CreateTmp
      <3>2. Unused(fds) # {}
        BY <2>2 DEF CreateTmp
      <3> QED
        BY <3>1, <3>2, Zenon
    <2> QED
      BY <2>1, <2>2
  <1>2. n \notin fds \/ n = tmp[p]
    BY <1>1 DEF Unused
  <1>3. \A q \in Path : file[q] # n /\ (q # p => tmp[q] # n)
    BY <1>1 DEF Unused, Entries
  <1>4. /\ tmp'[p] = n /\ data'[n] = <<>>
        /\ \A q \in Path \ {p} : tmp'[q] = tmp[q]
        /\ \A m \in Ino \ {n} : data'[m] = data[m]
        /\ file' = file /\ versions' = versions
    BY Zenon DEF CreateTmp, Stored
  <1>5. n # NoIno
    BY SessionsAssumption
  <1>6. Entries'
    BY <1>3, <1>4, <1>5 DEF Entries
  <1>7. VisibleOnlyByRename'
    BY <1>3, <1>4, Zenon DEF VisibleOnlyByRename, file_exists, Contents, Stored
  <1> QED
    BY <1>2, <1>3, <1>4, <1>6, <1>7

\* A stream of another thread, when s creates, writes or renames the .tmp file
\* of its path: n is the inode that s changes, if any.
LEMMA OtherStream ==
    ASSUME Control, Sound, OneWriter, NEW s \in Session, NEW t \in Session \ {s}, Moved(s),
           OpOf(pc[s]) \in Writes, NEW n,
           \A q \in Path \ {path(s)} : tmp'[q] = tmp[q],
           \A m \in Ino \ {n} : data'[m] = data[m],
           pc[t] = "dl_send" => loc[t].fd # n /\ loc[t].fd # tmp'[path(s)],
           \A q \in Path : versions[q] \subseteq versions'[q]
    PROVE  StreamOK(pc[t], req[t], loc[t])'
  <1>1. pc'[t] = pc[t] /\ req'[t] = req[t] /\ loc'[t] = loc[t]
    BY DEF Moved
  <1>2. StreamOK(pc[t], req[t], loc[t]) /\ ThreadOK(pc[t], req[t], loc[t], Requests[t])
    BY DEF Sound, Streams, Control
  <1>3. CASE pc[t] \in {"up_write", "blk_write"}
    <2>1. OpOf(pc[t]) \in Writes /\ pc[t] \notin Idle /\ OpOf(pc[t]) \notin {"list", "unknown"}
      BY <1>3 DEF OpOf, Writes, Idle
    <2>2. path(t) \in Path /\ path(t) # path(s)
      BY <2>1, Handling, Apart
    <2>3. tmp'[req[t].path] = tmp[req[t].path]
      BY <2>2 DEF path
    <2> QED
      BY <1>1, <1>2, <1>3, <2>3, Zenon DEF StreamOK
  <1>4. CASE pc[t] = "dl_send"
    <2>1. loc[t].fd \in Ino /\ path(t) \in Path
      BY <1>2, <1>4, Handling DEF ThreadOK, OpOf, Idle
    <2>2. data'[loc[t].fd] = data[loc[t].fd] /\ data[loc[t].fd] \in versions'[req[t].path]
      BY <1>2, <1>4, <2>1 DEF StreamOK, path
    <2>3. \A q \in Path : loc[t].fd # tmp'[q]
      BY <1>2, <1>4 DEF StreamOK
    <2>4. Extract(data'[loc[t].fd], req[t].offset, loc[t].buf)
      BY <1>2, <1>4, <2>2, Zenon DEF StreamOK
    <2>5. "dl_send" \notin {"up_write", "blk_write"}
      OBVIOUS
    <2> QED
      BY <1>1, <1>4, <2>2, <2>3, <2>4, <2>5, Zenon DEF StreamOK
  <1>5. CASE pc[t] \notin StreamLabels
    BY <1>1, <1>5 DEF StreamOK, StreamLabels
  <1> QED
    BY <1>3, <1>4, <1>5 DEF StreamLabels

\* open(tmp, O_TRUNC | O_CREAT) of an upload, or for a first block.
LEMMA SoundCreate ==
    ASSUME Control, Sound, OneWriter, NEW s \in Session, OpOf(pc[s]) \in Writes, Moved(s),
           NEW n \in Ino, CreateTmp(path(s), n, OpenStreams),
           pc'[s] \notin {"blk_write", "dl_send"},
           pc'[s] = "up_write" => req'[s] = req[s] /\ loc'[s].fd = n
    PROVE  Sound'
  <1>1. path(s) \in Path /\ Stored
    BY Handling DEF OpOf, Idle, Writes
  <1>2. /\ Entries' /\ VisibleOnlyByRename' /\ tmp'[path(s)] = n
        /\ \A q \in Path \ {path(s)} : tmp'[q] = tmp[q]
        /\ \A m \in Ino \ {n} : data'[m] = data[m]
        /\ n = tmp[path(s)] \/ n \notin OpenStreams
        /\ versions' = versions
    BY <1>1, CreateSound DEF Sound
  <1>3. ASSUME NEW t \in Session \ {s} PROVE StreamOK(pc[t], req[t], loc[t])'
    <2>1. pc[t] = "dl_send" => loc[t].fd # n
      <3> SUFFICES ASSUME pc[t] = "dl_send" PROVE loc[t].fd # n
        OBVIOUS
      <3>1. \A p \in Path : loc[t].fd # tmp[p]
        BY Zenon DEF Sound, Streams, StreamOK
      <3>2. loc[t].fd \in OpenStreams
        BY Zenon DEF OpenStreams
      <3> QED
        BY <1>1, <1>2, <3>1, <3>2, Zenon
    <2> QED
      BY <1>2, <2>1, OtherStream, Zenon
  <1>4. StreamOK(pc[s], req[s], loc[s])'
    BY <1>2 DEF StreamOK, path
  <1> QED
    BY <1>2, <1>3, <1>4, Zenon DEF Sound, Streams

\* A write through the stream of an upload or a block.
LEMMA SoundWrite ==
    ASSUME Control, Sound, OneWriter, NEW s \in Session, OpOf(pc[s]) \in Writes, Moved(s),
           tmp[path(s)] # NoIno, NEW off, NEW bytes, WriteStream(tmp[path(s)], off, bytes),
           pc'[s] \notin StreamLabels
    PROVE  Sound'
  <1>1. path(s) \in Path /\ Stored
    BY Handling DEF OpOf, Idle, Writes
  <1>2. /\ \A m \in Ino \ {tmp[path(s)]} : data'[m] = data[m]
        /\ file' = file /\ tmp' = tmp /\ versions' = versions
    BY <1>1, Zenon DEF WriteStream, Stored
  <1>3. Entries'
    BY <1>2, Zenon DEF Sound, Entries
  <1>4. VisibleOnlyByRename'
    <2> SUFFICES ASSUME NEW q \in Path, file[q] # NoIno PROVE data'[file[q]] \in versions[q]
      BY <1>2, Zenon DEF VisibleOnlyByRename, file_exists, Contents
    <2>1. file[q] \in Ino /\ file[q] # tmp[path(s)]
      BY <1>1 DEF Sound, Entries, Stored
    <2>2. data[file[q]] \in versions[q]
      BY DEF Sound, VisibleOnlyByRename, file_exists, Contents
    <2> QED
      BY <1>2, <2>1, <2>2, Zenon
  <1>5. ASSUME NEW t \in Session \ {s} PROVE StreamOK(pc[t], req[t], loc[t])'
    <2>1. pc[t] = "dl_send" => loc[t].fd # tmp[path(s)]
      BY <1>1 DEF Sound, Streams, StreamOK
    <2> QED
      BY <1>2, <2>1, OtherStream
  <1>6. StreamOK(pc[s], req[s], loc[s])'
    BY DEF StreamOK, StreamLabels
  <1> QED
    BY <1>3, <1>4, <1>5, <1>6, Zenon DEF Sound, Streams

\* atomic_rename_tmp.
LEMMA SoundRename ==
    ASSUME Control, Sound, OneWriter, NEW s \in Session, OpOf(pc[s]) \in Writes, Moved(s),
           tmp[path(s)] # NoIno, RenameTmp(path(s)), pc'[s] \notin StreamLabels
    PROVE  Sound'
  <1>1. path(s) \in Path /\ Stored
    BY Handling DEF OpOf, Idle, Writes
  <1>2. /\ file'[path(s)] = tmp[path(s)] /\ tmp'[path(s)] = NoIno /\ data' = data
        /\ \A q \in Path \ {path(s)} : file'[q] = file[q] /\ tmp'[q] = tmp[q]
        /\ \A q \in Path : versions[q] \subseteq versions'[q]
        /\ data[tmp[path(s)]] \in versions'[path(s)]
    BY <1>1, Zenon DEF RenameTmp, Stored
  <1>3. Entries'
    BY <1>1, <1>2 DEF Sound, Entries
  <1>4. VisibleOnlyByRename'
    BY <1>1, <1>2 DEF Sound, VisibleOnlyByRename, file_exists, Contents
  <1>5. ASSUME NEW t \in Session \ {s} PROVE StreamOK(pc[t], req[t], loc[t])'
    <2>1. pc[t] = "dl_send" => loc[t].fd # NoIno
      BY SessionsAssumption DEF Control, ThreadOK
    <2> QED
      BY <1>2, <2>1, OtherStream, Zenon
  <1>6. StreamOK(pc[s], req[s], loc[s])'
    BY DEF StreamOK, StreamLabels
  <1> QED
    BY <1>3, <1>4, <1>5, <1>6, Zenon DEF Sound, Streams

\* sendfile() goes on where it was.
LEMMA ReadOn ==
    ASSUME NEW c \in Seq(Nat), NEW buf \in Seq(Nat), NEW off \in Nat, NEW n \in Nat,
           off + Len(buf) + n <= Len(c),
           Extract(c, off, buf)
    PROVE  Extract(c, off, buf \o ReadBlock(c, off + Len(buf), n))
  <1> SUFFICES ASSUME NEW k \in 1 .. Len(buf \o ReadBlock(c, off + Len(buf), n))
               PROVE  off + k <= Len(c) /\ (buf \o ReadBlock(c, off + Len(buf), n))[k] = c[off + k]
    BY Zenon DEF Extract
  <1> DEFINE from == off + Len(buf)
             block == [i \in 1 .. n |-> c[from + i]]
  <1>1. Len(buf) \in Nat /\ Len(c) \in Nat /\ from \in Nat
    OBVIOUS
  <1>2. ReadBlock(c, from, n) = block
    BY <1>1 DEF ReadBlock
  <1>3. block \in Seq(Nat)
    BY <1>1, <1>2, ReadType, Zenon
  <1>4. Len(block) = n
    BY <1>1, <1>3
  <1>5. \A i \in 1 .. n : block[i] = c[from + i]
    OBVIOUS
  <1> HIDE DEF block
  <1>6. k \in 1 .. (Len(buf) + n) /\ off + k <= Len(c)
    BY <1>1, <1>2, <1>3, <1>4
  <1>7. (buf \o block)[k] = IF k <= Len(buf) THEN buf[k] ELSE block[k - Len(buf)]
    <2>1. k \in 1 .. (Len(buf) + Len(block))
      BY <1>4, <1>6
    <2> QED
      BY <1>3, <2>1
  <1>8. CASE k <= Len(buf)
    BY <1>1, <1>2, <1>6, <1>7, <1>8 DEF Extract
  <1>9. CASE ~(k <= Len(buf))
    <2>1. k - Len(buf) \in 1 .. n /\ from + (k - Len(buf)) = off + k
      BY <1>1, <1>6, <1>9
    <2>2. block[k - Len(buf)] = c[off + k]
      BY <1>5, <2>1
    <2> QED
      BY <1>2, <1>6, <1>7, <1>9, <2>2
  <1> QED
    BY <1>8, <1>9

\* The download's stream: opened on the file, read on from where it was.
LEMMA SoundDownload ==
    ASSUME Control, Sound, NEW s \in Session, DownloadOpen(s) \/ DownloadSend(s)
    PROVE  Sound'
  <1>1. /\ UNCHANGED storage /\ pc[s] \in {"dl_open", "dl_send"} /\ pc[s] \notin Idle
        /\ OpOf(pc[s]) = "download"
    BY Zenon DEF DownloadOpen, DownloadSend, At, Idle, OpOf
  <1>2. /\ Stored /\ loc[s] \in Locals /\ path(s) \in Path /\ req[s].offset \in Nat
        /\ ThreadOK(pc[s], req[s], loc[s], Requests[s])
    BY <1>1, Handling DEF Control
  <1>3. data' = data /\ tmp' = tmp /\ versions' = versions
    BY <1>1 DEF storage
  <1>4. CASE DownloadOpen(s)
    <2> DEFINE n == file[path(s)]
               l == [loc[s] EXCEPT !.fd = n]
    <2>1. pc[s] = "dl_open"
      BY <1>4 DEF DownloadOpen, At
    <2>2. n # NoIno /\ loc[s].buf = <<>>
      BY <1>2, <2>1 DEF ThreadOK, path
    <2>3. data[n] \in versions[path(s)] /\ \A q \in Path : n # tmp[q]
      BY <1>2, <2>2, Zenon DEF Sound, Entries, VisibleOnlyByRename, file_exists, Contents
    <2>4. Continue(s, "dl_send", l)
      BY <1>4 DEF DownloadOpen
    <2>5. l.fd = n /\ l.buf = loc[s].buf
      BY <1>2, Zenon DEF Locals
    <2> HIDE DEF l, n
    <2>6. Moved(s) /\ pc'[s] = "dl_send" /\ req'[s] = req[s] /\ loc'[s] = l
      BY <2>4, ContinueMoved
    <2>7. l.buf = <<>>
      BY <2>2, <2>5
    <2>8. Extract(data[n], req[s].offset, l.buf)
      BY <2>7 DEF Extract
    <2>9. "dl_send" \notin {"up_write", "blk_write"}
      OBVIOUS
    <2>10. StreamOK(pc[s], req[s], loc[s])'
      BY <1>3, <2>3, <2>5, <2>6, <2>8, <2>9, Zenon DEF StreamOK, path
    <2> QED
      BY <1>1, <2>6, <2>10, SoundCalm
  <1>5. CASE DownloadSend(s)
    <2> DEFINE from == req[s].offset + Len(loc[s].buf)
               remaining == loc[s].size - Len(loc[s].buf)
    <2>1. pc[s] = "dl_send"
      BY <1>5, Zenon DEF DownloadSend, At
    <2>2. StreamOK("dl_send", req[s], loc[s]) /\ loc[s].fd \in Ino /\ loc[s].buf \in Seq(Nat)
          /\ data[loc[s].fd] \in Seq(Nat) /\ loc[s].size \in Nat
      BY <1>2, <2>1, Zenon DEF Sound, Streams, ThreadOK, Locals, Stored
    <2>3. ASSUME NEW answer, Return(s, answer) PROVE Sound'
      BY <1>1, <2>3, ReturnMoved, SoundCalm, Zenon DEF StreamOK
    <2>4. ASSUME NEW n \in 1 .. remaining, from + n <= Len(data[loc[s].fd]),
                 Continue(s, "dl_send",
                   [loc[s] EXCEPT !.buf = @ \o ReadBlock(data[loc[s].fd], from, n)])
          PROVE  Sound'
      <3> DEFINE c == data[loc[s].fd]
                 more == loc[s].buf \o ReadBlock(c, from, n)
                 l == [loc[s] EXCEPT !.buf = more]
      <3>1. n \in Nat
        BY <2>2
      <3>2. Extract(c, req[s].offset, loc[s].buf)
        BY <2>2, Zenon DEF StreamOK
      <3>3. req[s].offset + Len(loc[s].buf) + n <= Len(c)
        BY <2>4
      <3> HIDE DEF c
      <3>4. c \in Seq(Nat)
        BY <2>2 DEF c
      <3>5. Extract(c, req[s].offset, more)
        BY <1>2, <2>2, <3>1, <3>2, <3>3, <3>4, ReadOn, Zenon
      <3>6. Continue(s, "dl_send", l)
        BY <2>4 DEF c
      <3> HIDE DEF more
      <3>7. l.fd = loc[s].fd /\ l.buf = more
        BY <1>2, Zenon DEF Locals
      <3> HIDE DEF l
      <3>8. Moved(s) /\ pc'[s] = "dl_send" /\ req'[s] = req[s] /\ loc'[s] = l
        BY <3>6, ContinueMoved
      <3>9. (\A p \in Path : loc[s].fd # tmp[p]) /\ c \in versions[req[s].path]
        BY <2>2 DEF StreamOK, c
      <3>10. "dl_send" \notin {"up_write", "blk_write"}
        OBVIOUS
      <3>11. StreamOK("dl_send", req[s], l)
        BY <3>5, <3>7, <3>9, <3>10, Zenon DEF StreamOK, c
      <3>12. StreamOK(pc[s], req[s], loc[s])'
        BY <1>3, <3>8, <3>11, Zenon DEF StreamOK
      <3> QED
        BY <1>1, <3>8, <3>12, SoundCalm
    <2> QED
      BY <1>5, <2>3, <2>4, Zenon DEF DownloadSend
  <1> QED
    BY <1>4, <1>5

LEMMA SoundHandle ==
    ASSUME Control, Sound, OneWriter, NEW s \in Session, Handle(s)
    PROVE  Sound'
  <1>1. ASSUME UNCHANGED storage, Moved(s), pc'[s] \notin StreamLabels PROVE Sound'
    BY <1>1, SoundCalm DEF StreamOK, StreamLabels
  <1>2. CASE \/ Negotiate(s) \/ NegotiateHash(s) \/ Download(s) \/ DownloadHeader(s) \/ Signature(s)
             \/ SignatureLock(s) \/ SignatureRead(s) \/ SignatureAnswer(s) \/ Block(s)
             \/ BlockLock(s) \/ BlockUnlock(s) \/ BlockCheck(s) \/ List(s) \/ ListStat(s)
             \/ Unknown(s)
    BY <1>1, <1>2, QuietSteps, Zenon
  <1>3. CASE DownloadOpen(s) \/ DownloadSend(s)
    BY <1>3, SoundDownload
  <1>4. CASE Upload(s)
    <2>1. UNCHANGED storage /\ Moved(s) /\ pc'[s] = "up_recv"
      BY <1>4, Zenon DEF Upload, Control, Goto, Moved
    <2> QED
      BY <1>1, <2>1 DEF StreamLabels
  <1>5. CASE UploadReceive(s)
    <2>1. UNCHANGED storage
      BY <1>5 DEF UploadReceive
    <2>2. CASE \E l : Continue(s, "up_recv", l)
      BY <1>1, <2>1, <2>2, ContinueMoved DEF StreamLabels
    <2>3. CASE ~ \E l : Continue(s, "up_recv", l)
      <3>1. Moved(s) /\ pc'[s] = "closed"
        BY <1>5, <2>3, Zenon DEF UploadReceive, Control, Goto, Moved
      <3> QED
        BY <1>1, <2>1, <3>1 DEF StreamLabels
    <2> QED
      BY <2>2, <2>3
  <1>6. CASE UploadReceived(s)
    <2>1. UNCHANGED storage
      BY <1>6 DEF UploadReceived
    <2>2. Moved(s) /\ pc'[s] \in {"up_open", "ready"}
      BY <1>6, ReturnMoved, ContinueMoved DEF UploadReceived
    <2> QED
      BY <1>1, <2>1, <2>2 DEF StreamLabels
  <1>7. CASE UploadOpen(s)
    <2>1. PICK n \in Ino : /\ CreateTmp(path(s), n, OpenStreams)
                           /\ Continue(s, "up_write", [loc[s] EXCEPT !.fd = n])
      BY <1>7, Zenon DEF UploadOpen
    <2>2. OpOf(pc[s]) \in Writes /\ loc[s] \in Locals
      BY <1>7 DEF UploadOpen, At, OpOf, Writes, Control, ThreadOK
    <2> DEFINE l == [loc[s] EXCEPT !.fd = n]
    <2>3. l.fd = n
      BY <2>2, Zenon DEF Locals
    <2>4. Continue(s, "up_write", l)
      BY <2>1
    <2> HIDE DEF l
    <2>5. Moved(s) /\ pc'[s] = "up_write" /\ req'[s] = req[s] /\ loc'[s].fd = n
      BY <2>3, <2>4, ContinueMoved
    <2> QED
      BY <2>1, <2>2, <2>5, SoundCreate
  <1>8. CASE UploadWrite(s)
    <2>1. pc[s] = "up_write" /\ OpOf(pc[s]) \in Writes
      BY <1>8 DEF UploadWrite, At, OpOf, Writes
    <2>2. loc[s].fd = tmp[path(s)] /\ tmp[path(s)] # NoIno
      BY <2>1, SessionsAssumption DEF Sound, Streams, StreamOK, Control, ThreadOK, path
    <2>3. Moved(s) /\ pc'[s] = "up_rename"
      BY <1>8, ContinueMoved DEF UploadWrite
    <2>4. pc'[s] \notin StreamLabels
      BY <2>3 DEF StreamLabels
    <2>5. WriteStream(tmp[path(s)], 0, loc[s].buf)
      BY <1>8, <2>2 DEF UploadWrite
    <2> QED
      BY <2>1, <2>2, <2>3, <2>4, <2>5, SoundWrite
  <1>9. CASE UploadRename(s)
    <2>1. OpOf(pc[s]) \in Writes
      BY <1>9 DEF UploadRename, At, OpOf, Writes
    <2>2. Moved(s) /\ pc'[s] \notin StreamLabels
      BY <1>9, ReturnMoved DEF UploadRename, StreamLabels
    <2> QED
      BY <1>1, <1>9, <2>1, <2>2, SoundRename, Zenon DEF UploadRename
  <1>10. CASE BlockOpen(s) \/ BlockReopen(s)
    <2>1. UNCHANGED storage /\ loc[s] \in Locals /\ tmp' = tmp
      BY <1>10 DEF BlockOpen, BlockReopen, storage, Control, ThreadOK
    <2> DEFINE l == [loc[s] EXCEPT !.fd = tmp[path(s)]]
    <2>2. l.fd = tmp[path(s)]
      BY <2>1, Zenon DEF Locals
    <2> HIDE DEF l
    <2>3. ASSUME Continue(s, "blk_write", l) PROVE Sound'
      <3>1. Moved(s) /\ pc'[s] = "blk_write" /\ req'[s] = req[s] /\ loc'[s] = l
        BY <2>3, ContinueMoved
      <3>2. StreamOK(pc[s], req[s], loc[s])'
        BY <2>1, <2>2, <3>1 DEF StreamOK, path
      <3> QED
        BY <2>1, <3>1, <3>2, SoundCalm
    <2>4. ASSUME Continue(s, "blk_create", loc[s]) PROVE Sound'
      BY <1>1, <2>1, <2>4, ContinueMoved DEF StreamLabels
    <2> QED
      BY <1>10, <2>3, <2>4 DEF BlockOpen, BlockReopen, l
  <1>11. CASE BlockCreate(s)
    <2>1. PICK n \in Ino : CreateTmp(path(s), n, OpenStreams)
      BY <1>11, Zenon DEF BlockCreate
    <2>2. OpOf(pc[s]) \in Writes
      BY <1>11 DEF BlockCreate, At, OpOf, Writes
    <2>3. Moved(s) /\ pc'[s] = "blk_reopen"
      BY <1>11, ContinueMoved DEF BlockCreate
    <2> QED
      BY <2>1, <2>2, <2>3, SoundCreate
  <1>12. CASE BlockWrite(s)
    <2>1. pc[s] = "blk_write" /\ OpOf(pc[s]) \in Writes
      BY <1>12 DEF BlockWrite, At, OpOf, Writes
    <2>2. Moved(s) /\ pc'[s] = "blk_unlock"
      BY <1>12, ContinueMoved DEF BlockWrite
    <2>3. pc'[s] \notin StreamLabels
      BY <2>2 DEF StreamLabels
    <2>4. CASE loc[s].fd # NoIno
      <3>1. loc[s].fd = tmp[path(s)]
        BY <2>1, <2>4 DEF Sound, Streams, StreamOK, path
      <3>2. WriteStream(tmp[path(s)], req[s].offset, req[s].data)
        BY <1>12, <2>4, <3>1 DEF BlockWrite
      <3> QED
        BY <2>1, <2>2, <2>3, <2>4, <3>1, <3>2, SoundWrite
    <2>5. CASE loc[s].fd = NoIno
      BY <1>1, <1>12, <2>2, <2>3, <2>5 DEF BlockWrite
    <2> QED
      BY <2>4, <2>5
  <1>13. CASE BlockRename(s)
    <2>1. OpOf(pc[s]) \in Writes
      BY <1>13 DEF BlockRename, At, OpOf, Writes
    <2>2. Moved(s) /\ pc'[s] \notin StreamLabels
      BY <1>13, ReturnMoved DEF BlockRename, StreamLabels
    <2> QED
      BY <1>1, <1>13, <2>1, <2>2, SoundRename DEF BlockRename
  <1> QED
    BY <1>2, <1>3, <1>4, <1>5, <1>6, <1>7, <1>8, <1>9, <1>10, <1>11, <1>12, <1>13, Zenon DEF Handle

LEMMA SoundInit == Init => Sound
  <1> SUFFICES ASSUME Init PROVE Sound
    OBVIOUS
  <1> DEFINE inode == CHOOSE g \in [Path -> Ino] : \A p, q \in Path : p # q => g[p] # g[q]
  <1>1. PICK f \in InitialFiles :
          /\ file = [p \in Path |-> IF f[p] = NoFile THEN NoIno ELSE inode[p]]
          /\ data = [n \in Ino |-> IF \E p \in Path : file[p] = n
                                   THEN f[CHOOSE p \in Path : file[p] = n] ELSE <<>>]
          /\ versions = [p \in Path |-> IF f[p] = NoFile THEN {} ELSE {f[p]}]
    BY Zenon DEF Init
  <1>2. inode \in [Path -> Ino] /\ \A p, q \in Path : p # q => inode[p] # inode[q]
    BY SessionsAssumption, Zenon
  <1> HIDE DEF inode
  <1>3. \A p \in Path : tmp[p] = NoIno
    BY Zenon DEF Init
  <1>4. ASSUME NEW p \in Path, file[p] # NoIno
        PROVE  f[p] # NoFile /\ file[p] = inode[p] /\ file[p] \in Ino
    BY <1>1, <1>2, <1>4, Zenon
  <1>5. Entries
    BY <1>2, <1>3, <1>4, Zenon DEF Entries
  <1>6. Streams
    BY Zenon DEF Init, Streams, StreamOK
  <1>7. VisibleOnlyByRename
    <2> SUFFICES ASSUME NEW p \in Path, file[p] # NoIno PROVE data[file[p]] \in versions[p]
      BY Zenon DEF VisibleOnlyByRename, file_exists, Contents
    <2> DEFINE owner == CHOOSE q \in Path : file[q] = file[p]
    <2>1. owner \in Path /\ file[owner] = file[p]
      BY Zenon
    <2>2. data[file[p]] = f[owner]
      BY <1>1, <1>4, Zenon
    <2> HIDE DEF owner
    <2>3. owner = p
      BY <2>1, <1>5, Zenon DEF Entries
    <2>4. versions[p] = {f[p]}
      BY <1>1, <1>4, Zenon
    <2> QED
      BY <2>2, <2>3, <2>4, Zenon
  <1> QED
    BY <1>5, <1>6, <1>7 DEF Sound

\* The invariant of the directory and its streams when paths have one writer.
LEMMA SoundInvariance ==
    ASSUME OneWriter
    PROVE  Spec => []Sound
  <1>1. Control /\ Sound /\ [Next]_vars => Sound'
    <2> SUFFICES ASSUME Control, Sound, [Next]_vars PROVE Sound'
      OBVIOUS
    <2>1. CASE CrashRestart
      <3>1. /\ data' = data /\ file' = file /\ tmp' = tmp /\ versions' = versions
            /\ pc' = [s \in Session |-> "ready"]
        BY <2>1 DEF CrashRestart, storage
      <3>2. Entries' /\ VisibleOnlyByRename'
        BY <3>1, Zenon DEF Sound, Entries, VisibleOnlyByRename, file_exists, Contents
      <3>3. Streams'
        BY <3>1 DEF Streams, StreamOK
      <3> QED
        BY <3>2, <3>3 DEF Sound
    <2>2. ASSUME NEW s \in Session, Receive(s) \/ Disconnect(s) PROVE Sound'
      <3>1. UNCHANGED storage /\ Moved(s) /\ pc'[s] \notin StreamLabels
        BY <2>2, QuietSteps
      <3> QED
        BY <3>1, SoundCalm DEF StreamOK, StreamLabels
    <2>3. ASSUME NEW s \in Session, Handle(s) PROVE Sound'
      BY <2>3, SoundHandle
    <2>4. CASE UNCHANGED vars
      BY <2>4, Zenon DEF vars, storage, Sound, Entries, Streams, StreamOK, VisibleOnlyByRename,
                         file_exists, Contents
    <2> QED
      BY <2>1, <2>2, <2>3, <2>4 DEF Next
  <1> QED
    BY <1>1, ControlInvariance, SoundInit, PTL DEF Spec

(***************************************************************************)
(* When no two clients write the same path, what a path names is always a  *)
(* content that atomic_rename_tmp put there, for any number of sessions,   *)
(* uploads, blocks and crashes.  Without the hypothesis TLC finds the      *)
(* counterexample of the run of two uploads.                               *)
(***************************************************************************)
THEOREM RenamedContents ==
    ASSUME OneWriter
    PROVE  Spec => []VisibleOnlyByRename
  <1>1. Sound => VisibleOnlyByRename
    BY DEF Sound
  <1> QED
    BY <1>1, SoundInvariance, PTL

(***************************************************************************)
(* When no two clients write the same path, a download sends bytes of one  *)
(* version of the file only, however often the file is replaced meanwhile  *)
(* (send_file_linux).                                                      *)
(***************************************************************************)
THEOREM OneVersionPerDownload ==
    ASSUME OneWriter
    PROVE  Spec => []SingleVersionStream
  <1>1. Sound => SingleVersionStream
    BY Zenon DEF Sound, Streams, StreamOK, Extract, SingleVersionStream, path
  <1> QED
    BY <1>1, SoundInvariance, PTL

\* The steps of a thread that are not part of a listing.
LEMMA NoListing ==
    ASSUME Control, NEW s \in Session, Handle(s), ~List(s), ~ListStat(s)
    PROVE  Moved(s) /\ pc'[s] # "ls_stat" /\ thrown' = thrown /\ FilesStay
  <1> DEFINE Aside == Moved(s) /\ pc'[s] # "ls_stat" /\ thrown' = thrown
  <1>1. UNCHANGED storage => FilesStay
    BY DEF storage, FilesStay
  <1>2. ASSUME NEW p, NEW n, NEW fds, CreateTmp(p, n, fds) PROVE FilesStay
    BY <1>2 DEF CreateTmp, FilesStay
  <1>3. ASSUME NEW n, NEW off, NEW bytes, WriteStream(n, off, bytes) PROVE FilesStay
    BY <1>3 DEF WriteStream, FilesStay
  <1>4. ASSUME NEW p, tmp[p] # NoIno, RenameTmp(p) PROVE FilesStay
    BY <1>4 DEF RenameTmp, FilesStay, Control, Stored
  <1>5. ASSUME NEW answer, Return(s, answer) PROVE Aside
    BY <1>5, ReturnMoved, Zenon DEF Return
  <1>6. ASSUME NEW label, label # "ls_stat", NEW l, Continue(s, label, l) PROVE Aside
    BY <1>6, ContinueMoved, Zenon DEF Continue
  <1> HIDE DEF Aside
  <1>7. CASE Negotiate(s)
    BY <1>1, <1>5, <1>6, <1>7 DEF Negotiate, Aside
  <1>8. CASE NegotiateHash(s)
    BY <1>1, <1>5, <1>8 DEF NegotiateHash, Aside
  <1>9. CASE Download(s)
    BY <1>1, <1>5, <1>6, <1>9 DEF Download, Aside
  <1>10. CASE DownloadHeader(s)
    <2>1. Moved(s) /\ pc'[s] = "dl_open" /\ thrown' = thrown /\ UNCHANGED storage
      BY <1>10, Zenon DEF DownloadHeader, Control, Goto, Moved
    <2> QED
      BY <1>1, <2>1
  <1>11. CASE DownloadOpen(s)
    BY <1>1, <1>6, <1>11 DEF DownloadOpen, Aside
  <1>12. CASE DownloadSend(s)
    <2>1. Aside
      BY <1>5, <1>6, <1>12, "dl_send" # "ls_stat", "blk_check" # "ls_stat", Zenon DEF DownloadSend
    <2> QED
      BY <1>1, <1>12, <2>1 DEF DownloadSend, Aside
  <1>13. CASE Upload(s)
    <2>1. Moved(s) /\ pc'[s] = "up_recv" /\ thrown' = thrown /\ UNCHANGED storage
      BY <1>13, Zenon DEF Upload, Control, Goto, Moved
    <2> QED
      BY <1>1, <2>1
  <1>14. CASE UploadReceive(s)
    <2>1. UNCHANGED storage
      BY <1>14 DEF UploadReceive
    <2>2. CASE \E l : Continue(s, "up_recv", l)
      BY <1>1, <1>6, <2>1, <2>2 DEF Aside
    <2>3. CASE ~ \E l : Continue(s, "up_recv", l)
      <3>1. Moved(s) /\ pc'[s] = "closed" /\ thrown' = thrown
        BY <1>14, <2>3, Zenon DEF UploadReceive, Control, Goto, Moved
      <3> QED
        BY <1>1, <2>1, <3>1
    <2> QED
      BY <2>2, <2>3
  <1>15. CASE UploadReceived(s)
    BY <1>1, <1>5, <1>6, <1>15 DEF UploadReceived, Aside
  <1>16. CASE UploadOpen(s)
    <2>1. Aside
      BY <1>5, <1>6, <1>16 DEF UploadOpen
    <2>2. FilesStay
      BY <1>1, <1>2, <1>3, <1>4, <1>16 DEF UploadOpen
    <2> QED
      BY <2>1, <2>2 DEF Aside
  <1>17. CASE UploadWrite(s)
    <2>1. Aside
      BY <1>5, <1>6, <1>17 DEF UploadWrite
    <2>2. FilesStay
      BY <1>1, <1>2, <1>3, <1>4, <1>17 DEF UploadWrite
    <2> QED
      BY <2>1, <2>2 DEF Aside
  <1>18. CASE UploadRename(s)
    <2>1. Aside
      BY <1>5, <1>6, <1>18 DEF UploadRename
    <2>2. FilesStay
      BY <1>1, <1>2, <1>3, <1>4, <1>18 DEF UploadRename
    <2> QED
      BY <2>1, <2>2 DEF Aside
  <1>19. CASE Signature(s)
    BY <1>1, <1>5, <1>6, <1>19 DEF Signature, Aside
  <1>20. CASE SignatureLock(s)
    BY <1>1, <1>6, <1>20 DEF SignatureLock, Aside
  <1>21. CASE SignatureRead(s)
    BY <1>1, <1>6, <1>21 DEF SignatureRead, Aside
  <1>22. CASE SignatureAnswer(s)
    BY <1>1, <1>5, <1>22 DEF SignatureAnswer, Aside
  <1>23. CASE Block(s)
    BY <1>1, <1>5, <1>6, <1>23 DEF Block, Aside
  <1>24. CASE BlockLock(s)
    BY <1>1, <1>6, <1>24 DEF BlockLock, Aside
  <1>25. CASE BlockOpen(s)
    BY <1>1, <1>5, <1>6, <1>25 DEF BlockOpen, Aside
  <1>26. CASE BlockCreate(s)
    <2>1. Aside
      BY <1>5, <1>6, <1>26 DEF BlockCreate
    <2>2. FilesStay
      BY <1>1, <1>2, <1>3, <1>4, <1>26 DEF BlockCreate
    <2> QED
      BY <2>1, <2>2 DEF Aside
  <1>27. CASE BlockReopen(s)
    BY <1>1, <1>6, <1>27 DEF BlockReopen, Aside
  <1>28. CASE BlockWrite(s)
    <2>1. Aside
      BY <1>5, <1>6, <1>28 DEF BlockWrite
    <2>2. FilesStay
      BY <1>1, <1>2, <1>3, <1>4, <1>28 DEF BlockWrite
    <2> QED
      BY <2>1, <2>2 DEF Aside
  <1>29. CASE BlockUnlock(s)
    <2>1. Aside
      BY <1>5, <1>6, <1>29, "dl_send" # "ls_stat", "blk_check" # "ls_stat", Zenon DEF BlockUnlock
    <2> QED
      BY <1>1, <1>29, <2>1 DEF BlockUnlock, Aside
  <1>30. CASE BlockCheck(s)
    BY <1>1, <1>5, <1>6, <1>30 DEF BlockCheck, Aside
  <1>31. CASE BlockRename(s)
    <2>1. Aside
      BY <1>5, <1>6, <1>31 DEF BlockRename
    <2>2. FilesStay
      BY <1>1, <1>2, <1>3, <1>4, <1>31 DEF BlockRename
    <2> QED
      BY <2>1, <2>2 DEF Aside
  <1>32. CASE Unknown(s)
    BY <1>1, <1>5, <1>32 DEF Unknown, Aside
  <1> QED
    BY <1>7, <1>8, <1>9, <1>10, <1>11, <1>12, <1>13, <1>14, <1>15, <1>16, <1>17, <1>18, <1>19,
       <1>20, <1>21, <1>22, <1>23, <1>24, <1>25, <1>26, <1>27, <1>28, <1>29, <1>30,
       <1>31, <1>32, Zenon DEF Handle

(***************************************************************************)
(* When every client lists recursively, as App.tsx does, no exception      *)
(* leaves list_files: a recursive listing skips the .tmp files, and        *)
(* nothing removes any other entry between its visit and its stat.         *)
(***************************************************************************)
THEOREM ListingIsSafe ==
    ASSUME RecursiveLists
    PROVE  Spec => []NeverThrows
  <1> DEFINE Calm == ListedStay /\ ~thrown
  <1>1. Init => Calm
    BY DEF Init, ListedStay
  <1>2. ASSUME Control, Calm, NEW s \in Session, Moved(s), FilesStay, thrown' = thrown,
               pc'[s] = "ls_stat" => \A entry \in loc'[s].names :
                                       entry[2] = "file" /\ file'[entry[1]] # NoIno
        PROVE  Calm'
    <2>1. ASSUME NEW t \in Session \ {s}, pc'[t] = "ls_stat", NEW entry \in loc'[t].names
          PROVE  entry[2] = "file" /\ file'[entry[1]] # NoIno
      <3>1. pc[t] = "ls_stat" /\ entry \in loc[t].names
        BY <1>2, <2>1 DEF Moved
      <3>2. entry[2] = "file" /\ file[entry[1]] # NoIno
        BY <1>2, <3>1 DEF ListedStay
      <3>3. entry[1] \in Path
        BY <1>2, <3>1 DEF Control, ThreadOK, Locals
      <3> QED
        BY <1>2, <3>2, <3>3 DEF FilesStay
    <2> QED
      BY <1>2, <2>1, Zenon DEF ListedStay
  <1>3. Control /\ Calm /\ [Next]_vars => Calm'
    <2> SUFFICES ASSUME Control, Calm, [Next]_vars PROVE Calm'
      OBVIOUS
    <2>1. ASSUME UNCHANGED storage PROVE FilesStay
      BY <2>1 DEF storage, FilesStay
    <2>2. CASE CrashRestart
      BY <2>2, Zenon DEF CrashRestart, ListedStay
    <2>3. ASSUME NEW s \in Session, Receive(s) PROVE Calm'
      <3>1. PICK r \in Requests[s] : req' = [req EXCEPT ![s] = r] /\ Goto(s, r.op)
        BY <2>3, Zenon DEF Receive
      <3>2. Moved(s) /\ pc'[s] = r.op /\ thrown' = thrown
        BY <2>3, <3>1, Zenon DEF Receive, Control, Goto, Moved
      <3>3. r.op # "ls_stat"
        BY RequestsAssumption DEF Operations
      <3> QED
        BY <1>2, <2>1, <2>3, <3>2, <3>3 DEF Receive
    <2>4. ASSUME NEW s \in Session, Disconnect(s) PROVE Calm'
      <3>1. Moved(s) /\ pc'[s] = "closed" /\ thrown' = thrown
        BY <2>4, Zenon DEF Disconnect, Control, Goto, Moved
      <3> QED
        BY <1>2, <2>1, <2>4, <3>1, Zenon DEF Disconnect
    <2>5. ASSUME NEW s \in Session, List(s) PROVE Calm'
      <3> DEFINE l == [loc[s] EXCEPT !.names = Listing(req[s].recursive)]
      <3>1. loc[s] \in Locals /\ req[s] \in Requests[s] /\ req[s].op = "list"
        BY <2>5, Handling DEF List, At, OpOf, Idle
      <3>2. l.names = Listing(req[s].recursive)
        BY <3>1, Zenon DEF Locals
      <3>3. \A entry \in Listing(req[s].recursive) : entry[2] = "file" /\ file[entry[1]] # NoIno
        BY <3>1 DEF RecursiveLists, Listing, file_exists
      <3>4. Continue(s, "ls_stat", l) /\ UNCHANGED storage
        BY <2>5 DEF List
      <3> HIDE DEF l
      <3>5. Moved(s) /\ loc'[s] = l /\ thrown' = thrown /\ file' = file
        BY <3>4, ContinueMoved, Zenon DEF Continue, storage
      <3> QED
        BY <1>2, <2>1, <3>2, <3>3, <3>4, <3>5, Zenon
    <2>6. ASSUME NEW s \in Session, ListStat(s) PROVE Calm'
      <3>1. /\ UNCHANGED storage /\ file' = file /\ loc[s] \in Locals
            /\ \A entry \in loc[s].names : entry[2] = "file" /\ file[entry[1]] # NoIno
        BY <2>6 DEF ListStat, At, storage, ListedStay, Control, ThreadOK
      <3>2. ASSUME NEW answer, Return(s, answer) PROVE Calm'
        BY <1>2, <2>1, <3>1, <3>2, ReturnMoved, Zenon DEF Return
      <3>3. ASSUME NEW entry \in loc[s].names,
                   Continue(s, "ls_stat", [loc[s] EXCEPT !.names = @ \ {entry}])
            PROVE  Calm'
        <4> DEFINE l == [loc[s] EXCEPT !.names = @ \ {entry}]
        <4>1. l.names = loc[s].names \ {entry}
          BY <3>1, Zenon DEF Locals
        <4>2. Continue(s, "ls_stat", l)
          BY <3>3
        <4> HIDE DEF l
        <4>3. Moved(s) /\ loc'[s] = l /\ thrown' = thrown
          BY <4>2, ContinueMoved, Zenon DEF Continue
        <4> QED
          BY <1>2, <2>1, <3>1, <4>1, <4>3
      <3>4. \A entry \in loc[s].names : EntryInode(entry) # NoIno
        BY <3>1 DEF EntryInode
      <3> QED
        BY <2>6, <3>2, <3>3, <3>4, Zenon DEF ListStat
    <2>7. ASSUME NEW s \in Session, Handle(s), ~List(s), ~ListStat(s) PROVE Calm'
      BY <1>2, <2>7, NoListing
    <2>8. CASE UNCHANGED vars
      BY <2>8, Zenon DEF vars, storage, ListedStay
    <2> QED
      BY <2>2, <2>3, <2>4, <2>5, <2>6, <2>7, <2>8 DEF Next
  <1>4. Calm => NeverThrows
    BY DEF NeverThrows
  <1> QED
    BY <1>1, <1>3, <1>4, ControlInvariance, PTL DEF Spec
-----------------------------------------------------------------------------
(* What uploads leave behind. *)

\* What Uploaded is for one more frame.
FrameByFrame(r) ==
    Len(r.frames) \in Nat =>
      /\ Uploaded(r, 0) = <<>>
      /\ \A k \in 0 .. Len(r.frames) : k < Len(r.frames) =>
           Uploaded(r, k + 1) =
             IF r.frames[k + 1].raw THEN Uploaded(r, k) \o r.frames[k + 1].bytes
             ELSE Uploaded(r, k)

LEMMA NothingRead == NoLocals.pos = 0 /\ NoLocals.buf = <<>>
  BY DEF NoLocals

\* Writing the buffer into an empty file.
LEMMA WriteWhole ==
    ASSUME NEW buf \in Seq(Nat)
    PROVE  WriteAt(<<>>, 0, buf) = buf
  <1>1. CASE buf = <<>>
    BY <1>1 DEF WriteAt
  <1>2. CASE buf # <<>>
    <2>1. Len(buf) \in Nat /\ Len(buf) > 0
      BY <1>2
    <2>2. WriteAt(<<>>, 0, buf) = [i \in 1 .. Len(buf) |-> buf[i]]
      BY <1>2, <2>1 DEF WriteAt
    <2> QED
      BY <2>2
  <1> QED
    BY <1>1, <1>2

UploadLabels == {"up_recv", "up_open", "up_write", "up_rename"}

\* A step of s that leaves the .tmp files of other paths alone.
LEMMA OtherUpload ==
    ASSUME Control, Sound, Whole, OneWriter, NEW s \in Session, NEW t \in Session \ {s}, Moved(s),
           OpOf(pc[s]) \in Writes,
           \A q \in Path \ {path(s)} :
             tmp'[q] = tmp[q] /\ (tmp[q] # NoIno => data'[tmp[q]] = data[tmp[q]])
    PROVE  UploadOK(pc[t], req[t], loc[t])'
  <1>1. pc'[t] = pc[t] /\ req'[t] = req[t] /\ loc'[t] = loc[t]
    BY DEF Moved
  <1>2. /\ UploadOK(pc[t], req[t], loc[t]) /\ StreamOK(pc[t], req[t], loc[t])
        /\ ThreadOK(pc[t], req[t], loc[t], Requests[t])
    BY DEF Whole, Sound, Streams, Control
  <1>3. CASE pc[t] \in UploadLabels
    <2>1. OpOf(pc[t]) \in Writes /\ pc[t] \notin Idle /\ OpOf(pc[t]) \notin {"list", "unknown"}
      BY <1>3 DEF OpOf, Writes, Idle, UploadLabels
    <2>2. path(t) \in Path /\ path(t) # path(s)
      BY <2>1, Handling, Apart
    <2>3. /\ tmp'[req[t].path] = tmp[req[t].path]
          /\ tmp[req[t].path] # NoIno => data'[tmp[req[t].path]] = data[tmp[req[t].path]]
      BY <2>2 DEF path
    <2>4. pc[t] = "up_write" => loc[t].fd = tmp[req[t].path] /\ loc[t].fd # NoIno
      BY <1>2, SessionsAssumption, Zenon DEF StreamOK, ThreadOK
    <2> QED
      BY <1>1, <1>2, <2>3, <2>4, Zenon DEF UploadOK
  <1>4. CASE pc[t] \notin UploadLabels
    BY <1>1, <1>4, Zenon DEF UploadOK, UploadLabels
  <1> QED
    BY <1>3, <1>4

LEMMA WholeCalm ==
    ASSUME Whole, NEW s \in Session, UNCHANGED storage, Moved(s),
           UploadOK(pc[s], req[s], loc[s])'
    PROVE  Whole'
  <1>1. data' = data /\ tmp' = tmp /\ versions' = versions
    BY Zenon DEF storage
  <1>2. ASSUME NEW t \in Session \ {s} PROVE UploadOK(pc[t], req[t], loc[t])'
    <2>1. UploadOK(pc[t], req[t], loc[t])
      BY Zenon DEF Whole
    <2>2. pc'[t] = pc[t] /\ req'[t] = req[t] /\ loc'[t] = loc[t]
      BY DEF Moved
    <2> QED
      BY <1>1, <2>1, <2>2, Zenon DEF UploadOK
  <1>3. WholeVersions'
    BY <1>1, Zenon DEF Whole, WholeVersions
  <1> QED
    BY <1>2, <1>3, Zenon DEF Whole

\* handle_zero_copy_upload_request, from its answer to the rename.
LEMMA WholeUpload ==
    ASSUME Control, Sound, Whole, OneWriter, NEW s \in Session, FrameByFrame(req[s]),
           \/ Upload(s) \/ UploadReceive(s) \/ UploadReceived(s)
           \/ UploadOpen(s) \/ UploadWrite(s) \/ UploadRename(s)
    PROVE  Whole'
  <1>1. /\ pc[s] \in {"upload"} \cup UploadLabels /\ pc[s] \notin Idle
        /\ OpOf(pc[s]) = "upload" /\ OpOf(pc[s]) \in Writes
    BY DEF Upload, UploadReceive, UploadReceived, UploadOpen, UploadWrite, UploadRename, At, Idle,
           OpOf, UploadLabels, Writes
  <1>2. /\ Stored /\ loc[s] \in Locals /\ path(s) \in Path
        /\ req[s] \in Requests[s] /\ req[s].op = "upload" /\ req[s].total_size \in Nat
        /\ req[s].frames \in Seq([raw : BOOLEAN, bytes : Seq(Nat)])
        /\ UploadOK(pc[s], req[s], loc[s]) /\ ThreadOK(pc[s], req[s], loc[s], Requests[s])
    BY <1>1, Handling DEF Whole, Control
  <1>3. Len(req[s].frames) \in Nat
    BY <1>2, LengthOf, Zenon
  <1>4. ASSUME UNCHANGED storage, Moved(s), pc'[s] \notin UploadLabels PROVE Whole'
    BY <1>4, WholeCalm, Zenon DEF UploadOK, UploadLabels
  <1>5. CASE Upload(s)
    <2>1. /\ UNCHANGED storage /\ Moved(s) /\ pc'[s] = "up_recv" /\ req'[s] = req[s]
          /\ loc'[s] = loc[s]
      BY <1>5, Zenon DEF Upload, Control, Goto, Moved
    <2>2. loc[s] = NoLocals
      BY <1>2, <1>5, ZenonT(30) DEF Upload, At, ThreadOK, Operations
    <2>3. loc[s].pos = 0 /\ loc[s].buf = <<>>
      BY <2>2, NothingRead, Zenon
    <2>4. Uploaded(req[s], 0) = <<>> /\ 0 \in 0 .. Len(req[s].frames)
      <3>1. Uploaded(req[s], 0) = <<>>
        BY <1>3, Zenon DEF FrameByFrame
      <3>2. 0 \in 0 .. Len(req[s].frames)
        BY <1>3
      <3> QED
        BY <3>1, <3>2, Zenon
    <2>5. UploadOK("up_recv", req[s], loc[s])'
      BY <2>1, <2>3, <2>4 DEF UploadOK
    <2> QED
      BY <2>1, <2>5, WholeCalm, Zenon
  <1>6. CASE UploadReceive(s)
    <2>1. UNCHANGED storage /\ pc[s] = "up_recv"
      BY <1>6 DEF UploadReceive, At
    <2>2. loc[s].pos \in 0 .. Len(req[s].frames) /\ loc[s].buf = Uploaded(req[s], loc[s].pos)
      BY <1>2, <2>1, Zenon DEF UploadOK
    <2>3. CASE loc[s].pos < Len(req[s].frames)
      <3> DEFINE frame == req[s].frames[loc[s].pos + 1]
                 more == IF frame.raw THEN loc[s].buf \o frame.bytes ELSE loc[s].buf
                 l == [loc[s] EXCEPT !.pos = @ + 1, !.buf = more]
      <3>1. Continue(s, "up_recv", l)
        BY <1>6, <2>3, Zenon DEF UploadReceive
      <3>2. more = Uploaded(req[s], loc[s].pos + 1)
        BY <1>3, <2>2, <2>3, Zenon DEF FrameByFrame
      <3>3. loc[s].pos + 1 \in 0 .. Len(req[s].frames)
        BY <1>3, <2>2, <2>3
      <3> HIDE DEF more
      <3>4. l.pos = loc[s].pos + 1 /\ l.buf = more
        BY <1>2, Zenon DEF Locals
      <3> HIDE DEF l
      <3>5. Moved(s) /\ pc'[s] = "up_recv" /\ req'[s] = req[s] /\ loc'[s] = l
        BY <3>1, ContinueMoved, Zenon
      <3>6. UploadOK(pc[s], req[s], loc[s])'
        BY <3>2, <3>3, <3>4, <3>5, Zenon DEF UploadOK
      <3> QED
        BY <2>1, <3>5, <3>6, WholeCalm, Zenon
    <2>4. CASE ~(loc[s].pos < Len(req[s].frames))
      <3>1. Moved(s) /\ pc'[s] = "closed"
        BY <1>6, <2>4, Zenon DEF UploadReceive, Control, Goto, Moved
      <3> QED
        BY <1>4, <2>1, <3>1, Zenon DEF UploadLabels
    <2> QED
      BY <2>3, <2>4
  <1>7. CASE UploadReceived(s)
    <2>1. UNCHANGED storage /\ pc[s] = "up_recv"
      BY <1>7 DEF UploadReceived, At
    <2>2. \E k \in 0 .. Len(req[s].frames) : loc[s].buf = Uploaded(req[s], k)
      BY <1>2, <2>1, Zenon DEF UploadOK
    <2>3. CASE Len(loc[s].buf) = req[s].total_size
      <3>1. Moved(s) /\ pc'[s] = "up_open" /\ req'[s] = req[s] /\ loc'[s] = loc[s]
        BY <1>7, <2>3, ContinueMoved, Zenon DEF UploadReceived
      <3>2. UploadOK(pc[s], req[s], loc[s])'
        BY <2>2, <2>3, <3>1, Zenon DEF UploadOK
      <3> QED
        BY <2>1, <3>1, <3>2, WholeCalm, Zenon
    <2>4. CASE Len(loc[s].buf) # req[s].total_size
      BY <1>4, <1>7, <2>1, <2>4, ReturnMoved, Zenon DEF UploadReceived, UploadLabels
    <2> QED
      BY <2>3, <2>4
  <1>8. ASSUME pc[s] \in {"up_open", "up_write", "up_rename"}
        PROVE  /\ Len(loc[s].buf) = req[s].total_size
               /\ \E k \in 0 .. Len(req[s].frames) : loc[s].buf = Uploaded(req[s], k)
    BY <1>2, <1>8, Zenon DEF UploadOK
  <1>9. CASE UploadOpen(s)
    <2>1. PICK n \in Ino : /\ CreateTmp(path(s), n, OpenStreams)
                           /\ Continue(s, "up_write", [loc[s] EXCEPT !.fd = n])
      BY <1>9, Zenon DEF UploadOpen
    <2>2. pc[s] = "up_open"
      BY <1>9 DEF UploadOpen, At
    <2> DEFINE l == [loc[s] EXCEPT !.fd = n]
    <2>3. l.fd = n /\ l.buf = loc[s].buf
      BY <1>2, Zenon DEF Locals
    <2>4. Continue(s, "up_write", l)
      BY <2>1
    <2> HIDE DEF l
    <2>5. Moved(s) /\ pc'[s] = "up_write" /\ req'[s] = req[s] /\ loc'[s] = l
      BY <2>4, ContinueMoved
    <2>6. /\ data'[n] = <<>> /\ versions' = versions
          /\ \A q \in Path \ {path(s)} : tmp'[q] = tmp[q] /\ tmp[q] # n
          /\ \A m \in Ino \ {n} : data'[m] = data[m]
      BY <1>2, <2>1, CreateSound DEF Sound
    <2>7. ASSUME NEW t \in Session \ {s} PROVE UploadOK(pc[t], req[t], loc[t])'
      <3>1. \A q \in Path \ {path(s)} :
              tmp'[q] = tmp[q] /\ (tmp[q] # NoIno => data'[tmp[q]] = data[tmp[q]])
        BY <1>2, <2>6, Zenon DEF Stored
      <3> QED
        BY <1>1, <2>5, <3>1, OtherUpload, Zenon
    <2>8. UploadOK(pc[s], req[s], loc[s])'
      BY <1>8, <2>2, <2>3, <2>5, <2>6, Zenon DEF UploadOK
    <2>9. WholeVersions'
      BY <2>6, Zenon DEF Whole, WholeVersions
    <2> QED
      BY <2>7, <2>8, <2>9, Zenon DEF Whole
  <1>10. CASE UploadWrite(s)
    <2>1. pc[s] = "up_write" /\ loc[s].buf \in Seq(Nat)
      BY <1>2, <1>10 DEF UploadWrite, At, Locals
    <2>2. /\ loc[s].fd = tmp[path(s)] /\ loc[s].fd \in Ino /\ loc[s].fd # NoIno
          /\ data[loc[s].fd] = <<>>
      BY <1>2, <2>1, SessionsAssumption, Zenon DEF Sound, Streams, StreamOK, ThreadOK, UploadOK, path
    <2> DEFINE l == [loc[s] EXCEPT !.fd = NoIno]
    <2>3. l.buf = loc[s].buf
      BY <1>2, Zenon DEF Locals
    <2>4. Continue(s, "up_rename", l)
      BY <1>10 DEF UploadWrite
    <2> HIDE DEF l
    <2>5. Moved(s) /\ pc'[s] = "up_rename" /\ req'[s] = req[s] /\ loc'[s] = l
      BY <2>4, ContinueMoved, Zenon
    <2>6. /\ data'[loc[s].fd] = WriteAt(<<>>, 0, loc[s].buf)
          /\ \A m \in Ino \ {loc[s].fd} : data'[m] = data[m]
          /\ tmp' = tmp /\ versions' = versions
      BY <1>2, <1>10, <2>2, Zenon DEF UploadWrite, WriteStream, Stored
    <2>7. data'[loc[s].fd] = loc[s].buf
      BY <2>1, <2>6, WriteWhole, Zenon
    <2>8. ASSUME NEW t \in Session \ {s} PROVE UploadOK(pc[t], req[t], loc[t])'
      <3>1. \A q \in Path \ {path(s)} :
              tmp'[q] = tmp[q] /\ (tmp[q] # NoIno => data'[tmp[q]] = data[tmp[q]])
        BY <1>2, <2>2, <2>6, ZenonT(30) DEF Stored, Sound, Entries
      <3> QED
        BY <1>1, <2>5, <3>1, OtherUpload, Zenon
    <2>9. UploadOK(pc[s], req[s], loc[s])'
      BY <1>8, <2>1, <2>2, <2>3, <2>5, <2>6, <2>7, Zenon DEF UploadOK, path
    <2>10. WholeVersions'
      BY <2>6, Zenon DEF Whole, WholeVersions
    <2> QED
      BY <2>8, <2>9, <2>10, Zenon DEF Whole
  <1>11. CASE UploadRename(s)
    <2>1. pc[s] = "up_rename"
      BY <1>11, Zenon DEF UploadRename, At
    <2>2. Moved(s) /\ pc'[s] = "ready"
      BY <1>11, ReturnMoved, Zenon DEF UploadRename
    <2>3. CASE tmp[path(s)] = NoIno
      BY <1>4, <1>11, <2>2, <2>3, Zenon DEF UploadRename, UploadLabels
    <2>4. CASE tmp[path(s)] # NoIno
      <3>1. data[tmp[path(s)]] = loc[s].buf
        BY <1>2, <2>1, <2>4, Zenon DEF UploadOK, path
      <3>2. /\ \A q \in Path \ {path(s)} : tmp'[q] = tmp[q] /\ versions'[q] = versions[q]
            /\ versions'[path(s)] = versions[path(s)] \cup {loc[s].buf}
            /\ data' = data
        BY <1>2, <1>11, <2>4, <3>1, Zenon DEF UploadRename, RenameTmp, Stored
      <3>3. WholeVersions'
        <4> SUFFICES ASSUME NEW p \in Path, NEW v \in versions'[p]
                     PROVE  \/ \E f \in InitialFiles : f[p] = v
                            \/ \E u \in Session : \E r \in Requests[u] :
                                 /\ r.op = "upload" /\ r.path = p /\ Len(v) = r.total_size
                                 /\ \E k \in 0 .. Len(r.frames) : Uploaded(r, k) = v
          BY Zenon DEF WholeVersions
        <4>1. CASE v \in versions[p]
          BY <4>1, Zenon DEF Whole, WholeVersions
        <4>2. CASE v \notin versions[p]
          <5>1. p = path(s) /\ v = loc[s].buf
            BY <3>2, <4>2, Zenon
          <5>2. Len(v) = req[s].total_size
                /\ \E k \in 0 .. Len(req[s].frames) : Uploaded(req[s], k) = v
            BY <1>8, <2>1, <5>1
          <5> QED
            BY <1>2, <5>1, <5>2, Zenon DEF path
        <4> QED
          BY <4>1, <4>2, Zenon
      <3>4. ASSUME NEW t \in Session \ {s} PROVE UploadOK(pc[t], req[t], loc[t])'
        BY <1>1, <2>2, <3>2, OtherUpload, Zenon
      <3>5. UploadOK(pc[s], req[s], loc[s])'
        BY <2>2, Zenon DEF UploadOK
      <3> QED
        BY <3>3, <3>4, <3>5, Zenon DEF Whole
    <2> QED
      BY <2>3, <2>4
  <1> QED
    BY <1>5, <1>6, <1>7, <1>9, <1>10, <1>11

LEMMA WholeNext ==
    ASSUME Control, Sound, Whole, OneWriter, UploadsOnly, [Next]_vars, \A r : FrameByFrame(r)
    PROVE  Whole'
  <1>1. CASE CrashRestart
    <2>1. versions' = versions /\ pc' = [s \in Session |-> "ready"]
      BY <1>1 DEF CrashRestart, storage
    <2>2. WholeVersions'
      BY <2>1, Zenon DEF Whole, WholeVersions
    <2>3. \A s \in Session : UploadOK(pc[s], req[s], loc[s])'
      BY <2>1, Zenon DEF UploadOK
    <2> QED
      BY <2>2, <2>3, Zenon DEF Whole
  <1>2. ASSUME NEW s \in Session, UNCHANGED storage, Moved(s), pc'[s] \notin UploadLabels
        PROVE  Whole'
    BY <1>2, WholeCalm, Zenon DEF UploadOK, UploadLabels
  <1>3. ASSUME NEW s \in Session,
               \/ Receive(s) \/ Disconnect(s) \/ Negotiate(s) \/ NegotiateHash(s) \/ Download(s)
               \/ DownloadHeader(s) \/ Signature(s) \/ SignatureLock(s) \/ SignatureRead(s)
               \/ SignatureAnswer(s) \/ List(s) \/ ListStat(s) \/ Unknown(s)
        PROVE  Whole'
    <2>1. /\ UNCHANGED storage /\ Moved(s)
          /\ pc'[s] \notin StreamLabels \cup {"up_recv", "up_open", "up_rename"}
      BY <1>3, QuietSteps, Zenon
    <2> QED
      BY <1>2, <2>1 DEF StreamLabels, UploadLabels
  <1>4. ASSUME NEW s \in Session, DownloadOpen(s) \/ DownloadSend(s) PROVE Whole'
    <2>1. UNCHANGED storage
      BY <1>4, Zenon DEF DownloadOpen, DownloadSend
    <2>2. Moved(s) /\ pc'[s] \in {"dl_send", "ready"}
      BY <1>4, ReturnMoved, ContinueMoved, Zenon DEF DownloadOpen, DownloadSend
    <2> QED
      BY <1>2, <2>1, <2>2 DEF UploadLabels
  <1>5. ASSUME NEW s \in Session,
               \/ Upload(s) \/ UploadReceive(s) \/ UploadReceived(s)
               \/ UploadOpen(s) \/ UploadWrite(s) \/ UploadRename(s)
        PROVE  Whole'
    BY <1>5, WholeUpload, Zenon
  <1>6. ASSUME NEW s \in Session,
               \/ Block(s) \/ BlockLock(s) \/ BlockOpen(s) \/ BlockCreate(s) \/ BlockReopen(s)
               \/ BlockWrite(s) \/ BlockUnlock(s) \/ BlockCheck(s) \/ BlockRename(s)
        PROVE  FALSE
    <2>1. OpOf(pc[s]) = "block" /\ pc[s] \notin Idle
      BY <1>6 DEF Block, BlockLock, BlockOpen, BlockCreate, BlockReopen, BlockWrite, BlockUnlock,
                  BlockCheck, BlockRename, At, OpOf, Idle
    <2> QED
      BY <2>1, Handling DEF UploadsOnly
  <1>7. CASE UNCHANGED vars
    BY <1>7, Zenon DEF vars, storage, Whole, WholeVersions, UploadOK
  <1> QED
    BY <1>1, <1>3, <1>4, <1>5, <1>6, <1>7, Zenon DEF Next, Handle

-----------------------------------------------------------------------------
(* What a recursive function computes. *)

WF == INSTANCE WellFoundedInduction

LEMMA LeastOf ==
    ASSUME NEW B \in SUBSET Nat, B # {}
    PROVE  \E b \in B : \A a \in B : b <= a
  <1>1. PICK b \in B : \A a \in B : ~(<<a, b>> \in WF!OpToRel(<, Nat))
    BY WF!NatLessThanWellFounded, WF!WFMin, Zenon
  <1>2. \A a \in B : ~(a < b)
    BY <1>1, Zenon DEF WF!OpToRel
  <1> QED
    BY <1>2

\* g[i] is what the raw ones among the first i frames carry.
NextRaw(g, frames, i) ==
    IF i = 0 THEN <<>>
    ELSE IF frames[i].raw THEN g[i - 1] \o frames[i].bytes ELSE g[i - 1]

Carries(g, frames, n) == DOMAIN g = 0 .. n /\ \A i \in 0 .. n : g[i] = NextRaw(g, frames, i)

LEMMA CarriesExists ==
    ASSUME NEW frames, Len(frames) \in Nat, NEW n \in 0 .. Len(frames)
    PROVE  \E g : Carries(g, frames, n)
  <1> DEFINE Bad == {k \in 0 .. Len(frames) : ~\E g : Carries(g, frames, k)}
  <1> SUFFICES ASSUME Bad # {} PROVE FALSE
    OBVIOUS
  <1>1. Bad \in SUBSET Nat
    OBVIOUS
  <1> HIDE DEF Bad
  <1>2. PICK b \in Bad : \A a \in Bad : b <= a
    BY <1>1, LeastOf
  <1>3. b \in 0 .. Len(frames) /\ ~\E g : Carries(g, frames, b)
    BY DEF Bad
  <1>4. CASE b = 0
    <2>1. Carries([i \in 0 .. 0 |-> <<>>], frames, 0)
      BY DEF Carries, NextRaw
    <2> QED
      BY <1>3, <1>4, <2>1
  <1>5. CASE b # 0
    <2>1. b - 1 \in 0 .. Len(frames) /\ b - 1 \notin Bad
      BY <1>2, <1>3, <1>5
    <2>2. PICK g : Carries(g, frames, b - 1)
      BY <2>1 DEF Bad
    <2> DEFINE f == [i \in 0 .. b |-> IF i = b THEN NextRaw(g, frames, b) ELSE g[i]]
    <2>3. DOMAIN f = 0 .. b
      OBVIOUS
    <2>4. ASSUME NEW i \in 0 .. b PROVE f[i] = NextRaw(f, frames, i)
      <3>1. i # 0 => i - 1 \in 0 .. b /\ i - 1 # b
        BY <1>3
      <3>2. i # 0 => f[i - 1] = g[i - 1]
        BY <3>1, Zenon
      <3>3. i # b => i \in 0 .. b - 1
        BY <1>3
      <3>4. f[i] = NextRaw(g, frames, i)
        BY <2>2, <3>3, Zenon DEF Carries
      <3> HIDE DEF f
      <3> QED
        BY <3>2, <3>4, Zenon DEF NextRaw
    <2> HIDE DEF f
    <2>5. Carries(f, frames, b)
      BY <2>3, <2>4 DEF Carries
    <2> QED
      BY <1>3, <2>5
  <1> QED
    BY <1>4, <1>5

LEMMA UploadedFrames ==
    ASSUME NEW r
    PROVE  FrameByFrame(r)
  <1> SUFFICES ASSUME Len(r.frames) \in Nat
               PROVE  /\ Uploaded(r, 0) = <<>>
                      /\ \A k \in 0 .. Len(r.frames) : k < Len(r.frames) =>
                           Uploaded(r, k + 1) =
                             IF r.frames[k + 1].raw THEN Uploaded(r, k) \o r.frames[k + 1].bytes
                             ELSE Uploaded(r, k)
    BY DEF FrameByFrame
  <1> DEFINE n == Len(r.frames)
             raw[i \in 0 .. n] ==
               IF i = 0 THEN <<>>
               ELSE IF r.frames[i].raw THEN raw[i - 1] \o r.frames[i].bytes ELSE raw[i - 1]
  <1>1. \A k : Uploaded(r, k) = raw[k]
    BY DEF Uploaded
  <1>2. PICK g : Carries(g, r.frames, n)
    <2>1. n \in 0 .. n
      OBVIOUS
    <2> QED
      BY <2>1, CarriesExists, Zenon
  <1>3. \E f : f = [i \in 0 .. n |->
                     IF i = 0 THEN <<>>
                     ELSE IF r.frames[i].raw THEN f[i - 1] \o r.frames[i].bytes ELSE f[i - 1]]
    <2> DEFINE f == [i \in 0 .. n |-> g[i]]
    <2>1. ASSUME NEW i \in 0 .. n
          PROVE  g[i] = IF i = 0 THEN <<>>
                        ELSE IF r.frames[i].raw THEN f[i - 1] \o r.frames[i].bytes ELSE f[i - 1]
      <3>1. i # 0 => i - 1 \in 0 .. n
        OBVIOUS
      <3>2. i # 0 => f[i - 1] = g[i - 1]
        BY <3>1, Zenon
      <3>3. g[i] = NextRaw(g, r.frames, i)
        BY <1>2, Zenon DEF Carries
      <3> HIDE DEF f
      <3> QED
        BY <3>2, <3>3, Zenon DEF NextRaw
    <2>2. f = [i \in 0 .. n |->
                IF i = 0 THEN <<>>
                ELSE IF r.frames[i].raw THEN f[i - 1] \o r.frames[i].bytes ELSE f[i - 1]]
      BY <2>1, Zenon
    <2> QED
      BY <2>2, Zenon
  <1>4. raw = [i \in 0 .. n |->
                IF i = 0 THEN <<>>
                ELSE IF r.frames[i].raw THEN raw[i - 1] \o r.frames[i].bytes ELSE raw[i - 1]]
    BY <1>3, Zenon
  <1> HIDE DEF raw
  <1>5. raw[0] = <<>>
    BY <1>4
  <1>6. ASSUME NEW k \in 0 .. n, k < n
        PROVE  raw[k + 1] = IF r.frames[k + 1].raw THEN raw[k] \o r.frames[k + 1].bytes ELSE raw[k]
    <2>1. k + 1 \in 0 .. n /\ k + 1 # 0 /\ (k + 1) - 1 = k
      BY <1>6
    <2> HIDE DEF n
    <2>2. raw[k + 1] = IF r.frames[k + 1].raw THEN raw[(k + 1) - 1] \o r.frames[k + 1].bytes
                       ELSE raw[(k + 1) - 1]
      BY <1>4, <2>1, Zenon
    <2> QED
      BY <2>1, <2>2, Zenon
  <1> QED
    BY <1>1, <1>5, <1>6, Zenon

(***************************************************************************)
(* When clients write by uploads only, and no two of them the same path,   *)
(* every content a path ever names is its initial one or the whole of an   *)
(* upload: of total_size bytes, the raw frames of the message in order     *)
(* (handle_zero_copy_upload_request, write_file_atomic), through lost      *)
(* connections, crashes and the .tmp files they leave.                     *)
(***************************************************************************)
THEOREM UploadsAreWhole ==
    ASSUME OneWriter, UploadsOnly
    PROVE  Spec => []WholeVersions
  <1>1. Init => Whole
    <2> SUFFICES ASSUME Init PROVE Whole
      OBVIOUS
    <2>1. PICK f \in InitialFiles :
            versions = [p \in Path |-> IF f[p] = NoFile THEN {} ELSE {f[p]}]
      BY Zenon DEF Init
    <2>2. WholeVersions
      BY <2>1, Zenon DEF WholeVersions
    <2> QED
      BY <2>2, Zenon DEF Init, Whole, UploadOK
  <1>2. Control /\ Sound /\ Whole /\ [Next]_vars => Whole'
    BY WholeNext, UploadedFrames, Zenon
  <1>3. Whole => WholeVersions
    BY DEF Whole
  <1> QED
    BY <1>1, <1>2, <1>3, ControlInvariance, SoundInvariance, PTL DEF Spec
=============================================================================
