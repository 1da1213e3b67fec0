------------------------------- MODULE Client -------------------------------
(***************************************************************************)
(* One connection as the desktop application uses it: TcpClient::negotiate,*)
(* list_server_files, download_file and upload_file on one side, a session *)
(* that answers them on the other (session.cpp, negotiator.cpp,            *)
(* zero_copy_sender.cpp), and the frames between them.                     *)
(*                                                                         *)
(* Nothing in a frame says which request it answers.  An upload is not     *)
(* confirmed, and the session sends frames after it that nobody waits for: *)
(* progress, and an error for the empty raw frame of an empty file.  Each  *)
(* frame carries here, as a ghost, the number n of the call it belongs to. *)
(* Hashes are represented by the content.  Delta-sync has a module of its  *)
(* own, DeltaSync.                                                         *)
(***************************************************************************)
EXTENDS Integers, Sequences

CONSTANTS
    Path,           \* relative paths
    Content,        \* contents of files, sequences of bytes
    NoFile,         \* stands for a file that does not exist
    MaxIgnored,     \* frames that read_expected reads at most: 100 in the code
    MaxCalls,       \* bound: calls of the client
    MaxChanges,     \* bound: edits of local files and replacements on the server
    MaxLosses       \* bound: lost connections

ASSUME ClientAssumption ==
    /\ Content \subseteq Seq(Nat) /\ NoFile \notin Seq(Nat) /\ NoFile \notin Path
    \* What sendfile sends of a content is one too.
    /\ \A c \in Content : \A k \in 0 .. Len(c) : SubSeq(c, 1, k) \in Content
    /\ MaxIgnored \in Nat \ {0} /\ MaxCalls \in Nat /\ MaxChanges \in Nat /\ MaxLosses \in Nat

VARIABLES
    local,          \* the files under the client's sync root
    server,         \* the files in the server's storage
    c2s, s2c,       \* frames in flight, oldest first; <<>> while disconnected
    up,             \* the connection is up
    call,           \* the call in progress
    sess,           \* the session: ready, reading an upload or sending a file
    fresh,          \* the path last negotiated, if it was FRESH and is to be uploaded
    sent,           \* history: the last upload that returned Ok, unless edited meanwhile
    stored,         \* history: the last upload that was saved as it was announced
    calls, changes, losses

vars == <<local, server, c2s, s2c, up, call, sess, fresh, sent, stored, calls, changes, losses>>
history == <<sent, stored>>
bounds == <<calls, changes, losses>>

NoCall == [at |-> "none", n |-> 0, path |-> NoFile, body |-> <<>>, count |-> 0, refused |-> FALSE]
Ready == [at |-> "ready", n |-> 0, path |-> NoFile, total |-> 0, hash |-> <<>>, buffer |-> <<>>]

Frame(t, n, p, body) == [type |-> t, n |-> n, path |-> p, body |-> body]
Answers == {"negotiation", "header", "raw", "ack", "files", "error", "progress"}
Requests == {"negotiate", "download", "upload", "raw", "list"}

TypeOK ==
    /\ local \in [Path -> Content] /\ server \in [Path -> Content \cup {NoFile}]
    /\ \A i \in DOMAIN c2s : c2s[i].type \in Requests
    /\ \A i \in DOMAIN s2c : s2c[i].type \in Answers
    /\ up \in BOOLEAN
    /\ call.at \in {"none", "negotiation", "header", "raw", "ack", "files"}
    /\ call.n \in 0 .. MaxCalls /\ call.count \in 0 .. MaxIgnored - 1
    /\ sess.at \in {"ready", "upload", "send"}
    /\ sess.total \in Nat /\ sess.buffer \in Seq(Nat)
    /\ fresh \in Path \cup {NoFile}
    /\ sent \in 0 .. MaxCalls /\ stored \in 0 .. MaxCalls
    /\ calls \in 0 .. MaxCalls /\ changes \in 0 .. MaxChanges /\ losses \in 0 .. MaxLosses

Init ==
    /\ local \in [Path -> Content]
    /\ server \in [Path -> Content \cup {NoFile}]
    /\ c2s = <<>> /\ s2c = <<>>
    /\ up = TRUE
    /\ call = NoCall
    /\ sess = Ready
    /\ fresh = NoFile
    /\ sent = 0 /\ stored = 0
    /\ calls = 0 /\ changes = 0 /\ losses = 0
-----------------------------------------------------------------------------
(* The client.  Every call writes its request and then awaits a frame. *)

Begin(request, p, body, answer) ==
    /\ up /\ call.at = "none" /\ calls < MaxCalls
    /\ calls' = calls + 1
    /\ c2s' = Append(c2s, Frame(request, calls + 1, p, body))
    /\ call' = [NoCall EXCEPT !.at = answer, !.n = calls + 1, !.path = p, !.body = body]
    /\ UNCHANGED <<local, server, s2c, up, sess, history, changes, losses>>

negotiate(p) == Begin("negotiate", p, local[p], "negotiation") /\ fresh' = NoFile
list_server_files == Begin("list", NoFile, <<>>, "files") /\ UNCHANGED fresh
download_file(p) == Begin("download", p, <<>>, "header") /\ UNCHANGED fresh

\* handleSync uploads the path that it has just negotiated as FRESH; downloads
\* and listings of other handlers may come in between.
upload_file(p) == p = fresh /\ Begin("upload", p, local[p], "ack") /\ fresh' = NoFile

Waiting(answers) == call.at \in answers /\ s2c # <<>>
Receive == s2c' = Tail(s2c)

\* Mutant: the next frame is taken for the answer, whatever it is.
AcceptAny ==
    /\ Waiting({"negotiation", "files"})
    /\ Receive
    /\ call' = NoCall
    /\ fresh' = IF Head(s2c).type = "negotiation" /\ Head(s2c).body = "FRESH" THEN call.path
                ELSE fresh
    /\ UNCHANGED <<local, server, c2s, up, sess, history, bounds>>

\* read_expected finds the type it waits for: negotiate and list_server_files
\* return, download_file goes on to the raw data.
ReadExpected ==
    /\ Waiting({"negotiation", "header", "files"}) /\ Head(s2c).type = call.at
    /\ Receive
    /\ call' = IF call.at = "header" THEN [call EXCEPT !.at = "raw", !.body = Head(s2c).body]
               ELSE NoCall
    /\ fresh' = IF Head(s2c).type = "negotiation" /\ Head(s2c).body = "FRESH" THEN call.path
                ELSE fresh
    /\ UNCHANGED <<local, server, c2s, up, sess, history, bounds>>

\* read_expected passes over any other frame, and gives up at the last one.
Ignore ==
    /\ Waiting({"negotiation", "header", "files"}) /\ Head(s2c).type # call.at
    /\ Receive
    /\ call' = IF call.count + 1 = MaxIgnored THEN NoCall
               ELSE [call EXCEPT !.count = @ + 1,
                       !.refused = @ \/ (Head(s2c).type = "error" /\ Head(s2c).n = call.n)]
    /\ UNCHANGED <<local, server, c2s, up, sess, fresh, history, bounds>>

\* download_file: the raw data is written to the local file, and its hash is
\* compared after that.  Any other frame is an error.
ReadRaw ==
    /\ Waiting({"raw"})
    /\ Receive
    /\ call' = NoCall
    /\ local' = IF Head(s2c).type = "raw" THEN [local EXCEPT ![call.path] = Head(s2c).body]
                ELSE local
    /\ UNCHANGED <<server, c2s, up, sess, fresh, history, bounds>>

\* upload_file: the frame is decoded as an acknowledgment, which only an
\* acknowledgment survives; then the file is read again and sent.
ReadAck ==
    /\ Waiting({"ack"})
    /\ Receive
    /\ call' = NoCall
    /\ IF Head(s2c).type = "ack"
       THEN /\ c2s' = Append(c2s, Frame("raw", call.n, call.path, local[call.path]))
            /\ sent' = IF local[call.path] = call.body THEN call.n ELSE sent
       ELSE UNCHANGED <<c2s, sent>>
    /\ UNCHANGED <<local, server, up, sess, fresh, stored, bounds>>
-----------------------------------------------------------------------------
(* The session. *)

Serving(at, type) == sess.at = at /\ c2s # <<>> /\ Head(c2s).type = type /\ c2s' = Tail(c2s)
Reply(type, body) == Frame(type, Head(c2s).n, Head(c2s).path, body)

\* Negotiator::negotiate, by the content that the hash stands for.
Mode(p, hash) ==
    IF server[p] = NoFile THEN "FRESH" ELSE IF server[p] = hash THEN "UNCHANGED" ELSE "MODIFIED"

handle_negotiation_request ==
    /\ Serving("ready", "negotiate")
    /\ s2c' = Append(s2c, Reply("negotiation", Mode(Head(c2s).path, Head(c2s).body)))
    /\ UNCHANGED <<local, server, up, call, sess, fresh, history, bounds>>

handle_list_files_request ==
    /\ Serving("ready", "list")
    /\ s2c' = Append(s2c, Reply("files", <<>>))
    /\ UNCHANGED <<local, server, up, call, sess, fresh, history, bounds>>

\* Mutant: a file that cannot be sent is passed over in silence.
RefuseSilently ==
    /\ Serving("ready", "download")
    /\ LET p == Head(c2s).path
       IN  IF server[p] \in {NoFile, <<>>} THEN UNCHANGED <<s2c, sess>>
           ELSE /\ s2c' = Append(s2c, Reply("header", server[p]))
                /\ sess' = [Ready EXCEPT !.at = "send", !.n = Head(c2s).n, !.path = p,
                              !.total = Len(server[p])]
    /\ UNCHANGED <<local, server, up, call, fresh, history, bounds>>

\* send_file: an absent or empty file is refused; else the header is sent.
handle_zero_copy_download_request ==
    /\ Serving("ready", "download")
    /\ LET p == Head(c2s).path
       IN  IF server[p] \in {NoFile, <<>>}
           THEN s2c' = Append(s2c, Reply("error", <<>>)) /\ UNCHANGED sess
           ELSE /\ s2c' = Append(s2c, Reply("header", server[p]))
                /\ sess' = [Ready EXCEPT !.at = "send", !.n = Head(c2s).n, !.path = p,
                              !.total = Len(server[p])]
    /\ UNCHANGED <<local, server, up, call, fresh, history, bounds>>

\* Mutant: the first byte is skipped.
SendFromOne ==
    /\ sess.at = "send" /\ Len(server[sess.path]) >= sess.total
    /\ s2c' = Append(s2c, Frame("raw", sess.n, sess.path, SubSeq(server[sess.path], 2, sess.total)))
    /\ sess' = Ready
    /\ UNCHANGED <<local, server, c2s, up, call, fresh, history, bounds>>

\* The file is opened after the header went out, and as many bytes are sent as
\* were promised; sendfile goes on for ever when the file has fewer.
send_file_linux ==
    /\ sess.at = "send" /\ Len(server[sess.path]) >= sess.total
    /\ s2c' = Append(s2c, Frame("raw", sess.n, sess.path, SubSeq(server[sess.path], 1, sess.total)))
    /\ sess' = Ready
    /\ UNCHANGED <<local, server, c2s, up, call, fresh, history, bounds>>

\* Mutant: the buffer is saved without its last byte.
ReceivedShort(s) ==
    IF Len(s.buffer) < s.total THEN sess' = s /\ UNCHANGED <<server, stored>>
    ELSE LET saved == SubSeq(s.buffer, 1, Len(s.buffer) - 1)
         IN  /\ sess' = Ready
             /\ server' = [server EXCEPT ![s.path] = saved]
             /\ stored' = IF saved = s.hash THEN s.n ELSE stored

\* With what has been received: the loop goes on, or the file is saved when the
\* size is exactly the one announced.  The announced hash is not looked at.
Received(s) ==
    \/ Len(s.buffer) < s.total /\ sess' = s /\ UNCHANGED <<server, stored>>
    \/ Len(s.buffer) > s.total /\ sess' = Ready /\ UNCHANGED <<server, stored>>
    \/ /\ Len(s.buffer) = s.total /\ sess' = Ready
       /\ server' = [server EXCEPT ![s.path] = s.buffer]
       /\ stored' = IF s.buffer = s.hash THEN s.n ELSE stored

\* The acknowledgment goes out; an empty file is complete at once.
handle_zero_copy_upload_request ==
    /\ Serving("ready", "upload")
    /\ s2c' = Append(s2c, Reply("ack", <<>>))
    /\ Received([at |-> "upload", n |-> Head(c2s).n, path |-> Head(c2s).path,
                 total |-> Len(Head(c2s).body), hash |-> Head(c2s).body, buffer |-> <<>>])
    /\ UNCHANGED <<local, up, call, fresh, sent, bounds>>

\* A raw frame of the upload; a progress frame goes out unless no millisecond
\* has passed.
UploadRaw ==
    /\ Serving("upload", "raw")
    /\ \/ s2c' = Append(s2c, Reply("progress", <<>>))
       \/ UNCHANGED s2c
    /\ Received([sess EXCEPT !.buffer = @ \o Head(c2s).body])
    /\ UNCHANGED <<local, up, call, fresh, sent, bounds>>

\* The loop of an upload drops every other frame.
UploadOther ==
    /\ sess.at = "upload" /\ c2s # <<>> /\ Head(c2s).type # "raw"
    /\ c2s' = Tail(c2s)
    /\ UNCHANGED <<local, server, s2c, up, call, sess, fresh, history, bounds>>

\* run: raw data outside an upload is an unknown message.
UnknownMessage ==
    /\ Serving("ready", "raw")
    /\ s2c' = Append(s2c, Reply("error", <<>>))
    /\ UNCHANGED <<local, server, up, call, sess, fresh, history, bounds>>
-----------------------------------------------------------------------------
(* The world around. *)

\* The user edits a local file, or another session replaces one on the server.
Change ==
    /\ changes < MaxChanges /\ changes' = changes + 1
    /\ \E p \in Path, c \in Content :
         \/ local' = [local EXCEPT ![p] = c] /\ UNCHANGED server
         \/ server' = [server EXCEPT ![p] = c] /\ UNCHANGED local
    /\ UNCHANGED <<c2s, s2c, up, call, sess, fresh, sent, stored, calls, losses>>

\* The connection is lost: the call fails, the session ends and saves nothing.
Lose ==
    /\ up /\ losses < MaxLosses /\ losses' = losses + 1
    /\ up' = FALSE
    /\ c2s' = <<>> /\ s2c' = <<>>
    /\ call' = NoCall /\ sess' = Ready /\ fresh' = NoFile
    /\ sent' = 0 /\ stored' = 0
    /\ UNCHANGED <<local, server, calls, changes>>

connect ==
    /\ ~up /\ up' = TRUE
    /\ UNCHANGED <<local, server, c2s, s2c, call, sess, fresh, history, bounds>>

ClientStep == ReadExpected \/ Ignore \/ ReadRaw \/ ReadAck
SessionStep ==
    \/ handle_negotiation_request \/ handle_list_files_request
    \/ handle_zero_copy_download_request \/ send_file_linux
    \/ handle_zero_copy_upload_request \/ UploadRaw \/ UploadOther \/ UnknownMessage

Next ==
    \/ \E p \in Path : negotiate(p) \/ download_file(p) \/ upload_file(p)
    \/ list_server_files
    \/ ClientStep \/ SessionStep \/ Change \/ Lose \/ connect

Spec == Init /\ [][Next]_vars

\* The client's task and the session's thread run.
Fairness == WF_vars(ClientStep) /\ WF_vars(SessionStep)

FairSpec == Spec /\ Fairness
-----------------------------------------------------------------------------
\* The answer that a call takes is the answer to its own request, although frames
\* do not say which request they answer, uploads leave frames behind that
\* nobody waits for and calls fail half way (read_expected drains what is left
\* over, and the application negotiates before it uploads).
AnswersMatch ==
    /\ \A i \in DOMAIN s2c : s2c[i].type = call.at => s2c[i].n = call.n
    /\ call.at \in {"ack", "raw"} /\ s2c # <<>> => Head(s2c).type = call.at

\* A file that upload_file returned Ok for is stored, with the content that was
\* announced, unless the connection is lost first or the file was edited while
\* it was being uploaded.  The client gets no confirmation of it.
UploadIsStored ==
    \A n \in 1 .. MaxCalls : sent = n ~> stored >= n \/ sent = 0

\* The session waits for bytes of an upload that the client will not send: the
\* file became shorter between its announcement and its transmission.
Owed ==
    /\ sess.at = "upload" /\ call.at # "ack"
    /\ \A i \in DOMAIN c2s : c2s[i].type # "raw"

\* sendfile waits for bytes that the file no longer has.
Starved == sess.at = "send" /\ Len(server[sess.path]) < sess.total

\* Every call returns, unless its refusal was passed over by read_expected, or the
\* session waits for bytes that do not come.
CallsReturn == call.at # "none" ~> call.at = "none" \/ call.refused \/ Owed \/ Starved
=============================================================================
