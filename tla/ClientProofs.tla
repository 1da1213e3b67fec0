---------------------------- MODULE ClientProofs ----------------------------
(***************************************************************************)
(* For any files, contents, calls, edits and lost connections: a call      *)
(* takes the answer to its own request, provided that read_expected reads  *)
(* two frames at least (it reads 100).                                     *)
(***************************************************************************)
EXTENDS Client, TLAPS

Modes == {"FRESH", "UNCHANGED", "MODIFIED"}
Bodies == Content \cup {<<>>} \cup Modes

FramesOf(types) ==
    {f \in [type : types, n : 0 .. MaxCalls, path : Path \cup {NoFile}, body : Bodies] :
        /\ f.type \in {"negotiate", "download", "upload", "raw"} => f.path \in Path
        /\ f.type \in {"negotiate", "upload", "raw", "header"} => f.body \in Content}

CallRecord ==
    [at : {"none", "negotiation", "header", "raw", "ack", "files"}, n : 0 .. MaxCalls,
     path : Path \cup {NoFile}, body : Bodies, count : 0 .. MaxIgnored - 1, refused : BOOLEAN]

SessRecord ==
    [at : {"ready", "upload", "send"}, n : 0 .. MaxCalls, path : Path \cup {NoFile},
     total : Nat, hash : Bodies, buffer : Seq(Nat)]

Types ==
    /\ local \in [Path -> Content] /\ server \in [Path -> Content \cup {NoFile}]
    /\ c2s \in Seq(FramesOf(Requests)) /\ s2c \in Seq(FramesOf(Answers))
    /\ up \in BOOLEAN
    /\ call \in CallRecord /\ (call.at \in {"negotiation", "header", "raw", "ack"} => call.path \in Path)
    /\ sess \in SessRecord /\ (sess.at # "ready" => sess.path \in Path)
    /\ sess.at = "send" => server[sess.path] \in Content
    /\ fresh \in Path \cup {NoFile}
    /\ sent \in 0 .. MaxCalls /\ stored \in 0 .. MaxCalls
    /\ calls \in 0 .. MaxCalls /\ changes \in 0 .. MaxChanges /\ losses \in 0 .. MaxLosses

\* The request that a frame answers.
Asks(request, answer) ==
    \/ request = "negotiate" /\ answer = "negotiation"
    \/ request = "download" /\ answer = "header"
    \/ request = "list" /\ answer = "files"
    \/ request = "upload" /\ answer = "ack"

\* What the last upload left behind: r raw frames in front of what the client
\* has written since, and l frames in front of the answers, one in all at most.
\* It is gone before an upload begins.
Trail(r, l) ==
    /\ r + l + call.count <= 1 /\ r <= Len(c2s) /\ l <= Len(s2c)
    /\ r = 1 => c2s[1].type = "raw" /\ (sess.at = "upload" => sess.buffer = <<>>)
    /\ l = 1 => s2c[1].type \in {"progress", "error"}
    /\ fresh # NoFile \/ call.at \in {"ack", "raw"} => r = 0 /\ l = 0
    /\ call.at = "ack" => fresh = NoFile

\* Nothing of the call has reached the session, which may wait for bytes of the
\* last upload, if they are still to come or not.
Between == sess.at = "ready" \/ (sess.at = "upload" /\ fresh = NoFile /\ call.at # "ack")

NoneYet(r, l) ==
    /\ call.at = "none" /\ Between
    /\ Len(c2s) = r /\ Len(s2c) = l

Asked(r, l) ==
    /\ call.at \in {"negotiation", "header", "files", "ack"} /\ Between
    /\ Len(c2s) = r + 1 /\ Len(s2c) = l
    /\ Asks(c2s[r + 1].type, call.at) /\ c2s[r + 1].n = call.n

\* The upload before waits for bytes that do not come, and drops the request.
Dropped(r, l) ==
    /\ call.at \in {"negotiation", "header", "files"}
    /\ sess.at = "upload" /\ fresh = NoFile
    /\ r = 0 /\ Len(c2s) = 0 /\ Len(s2c) = l

Answered(r, l) ==
    /\ call.at \in {"negotiation", "files", "ack"}
    /\ sess.at = "ready" \/ (sess.at = "upload" /\ call.at = "ack" /\ sess.buffer = <<>> /\ fresh = NoFile)
    /\ r = 0 /\ Len(c2s) = 0 /\ Len(s2c) = l + 1
    /\ s2c[l + 1].type = call.at /\ s2c[l + 1].n = call.n

\* A download: the header is on its way or has been read, and the data follows.
Download(r, l) ==
    /\ call.at \in {"header", "raw"}
    /\ sess.at \in {"send", "ready"} /\ (sess.at = "send" => sess.n = call.n)
    /\ r = 0 /\ Len(c2s) = 0
    /\ LET h == IF call.at = "header" THEN 1 ELSE 0
           d == IF sess.at = "ready" THEN 1 ELSE 0
       IN  /\ Len(s2c) = l + h + d
           /\ h = 1 => s2c[l + 1].type = "header" /\ s2c[l + 1].n = call.n
           /\ d = 1 => s2c[l + h + 1].type = "raw" /\ s2c[l + h + 1].n = call.n

\* A download that was refused: the error is on its way.
Refused(r, l) ==
    /\ call.at = "header" /\ sess.at = "ready"
    /\ r = 0 /\ Len(c2s) = 0 /\ Len(s2c) = l + 1
    /\ s2c[l + 1].type = "error"

Stage(r, l) ==
    /\ Trail(r, l)
    /\ \/ NoneYet(r, l) \/ Asked(r, l) \/ Dropped(r, l)
       \/ Answered(r, l) \/ Download(r, l) \/ Refused(r, l)

\* A download that was refused, and read_expected has passed over the error.
Silent == call.at = "header" /\ sess.at = "ready" /\ Len(c2s) = 0 /\ Len(s2c) = 0

Stages == Silent \/ \E r, l \in {0, 1} : Stage(r, l)
Inv == Types /\ Stages
-----------------------------------------------------------------------------
(* Frames and queues. *)

LEMMA FrameFields ==
    ASSUME NEW types, NEW f \in FramesOf(types)
    PROVE  /\ f.type \in types /\ f.n \in 0 .. MaxCalls /\ f.path \in Path \cup {NoFile}
           /\ f.body \in Bodies
           /\ f.type \in {"negotiate", "download", "upload", "raw"} => f.path \in Path
           /\ f.type \in {"negotiate", "upload", "raw", "header"} => f.body \in Content
  BY DEF FramesOf

LEMMA NewFrame ==
    ASSUME NEW types, NEW t \in types, NEW n \in 0 .. MaxCalls, NEW p \in Path \cup {NoFile},
           NEW body \in Bodies,
           t \in {"negotiate", "download", "upload", "raw"} => p \in Path,
           t \in {"negotiate", "upload", "raw", "header"} => body \in Content
    PROVE  /\ Frame(t, n, p, body) \in FramesOf(types)
           /\ Frame(t, n, p, body).type = t /\ Frame(t, n, p, body).n = n
  BY DEF FramesOf, Frame

LEMMA Written ==
    ASSUME NEW S, NEW q \in Seq(S), NEW f \in S
    PROVE  /\ Append(q, f) \in Seq(S) /\ Len(Append(q, f)) = Len(q) + 1
           /\ Append(q, f)[Len(q) + 1] = f
           /\ \A i \in 1 .. Len(q) : Append(q, f)[i] = q[i]
  OBVIOUS

LEMMA Taken ==
    ASSUME NEW S, NEW q \in Seq(S), q # <<>>
    PROVE  /\ Head(q) = q[1] /\ q[1] \in S /\ Len(q) \in Nat \ {0}
           /\ Tail(q) \in Seq(S) /\ Len(Tail(q)) = Len(q) - 1
           /\ \A i \in 1 .. Len(q) - 1 : Tail(q)[i] = q[i + 1]
  OBVIOUS

LEMMA ContentBodies == Content \subseteq Bodies /\ <<>> \in Bodies /\ Modes \subseteq Bodies
  BY DEF Bodies
-----------------------------------------------------------------------------
(* Types. *)

LEMMA InitInv == Init => Inv
  <1> SUFFICES ASSUME Init PROVE Inv
    OBVIOUS
  <1>1. NoCall \in CallRecord /\ NoCall.at = "none" /\ NoCall.count = 0
    BY ClientAssumption, ContentBodies DEF CallRecord, NoCall
  <1>2. Ready \in SessRecord /\ Ready.at = "ready"
    BY ClientAssumption, ContentBodies DEF SessRecord, Ready
  <1>3. Types
    BY <1>1, <1>2, ClientAssumption DEF Init, Types
  <1>4. Stage(0, 0)
    BY <1>1, <1>2 DEF Init, Stage, Trail, NoneYet, Between
  <1> QED
    BY <1>3, <1>4 DEF Inv, Stages

\* A call begins.
LEMMA BeginTypes ==
    ASSUME Types, NEW request \in Requests, NEW p \in Path \cup {NoFile}, NEW body \in Bodies,
           NEW answer \in {"negotiation", "header", "ack", "files"},
           request # "list" => p \in Path, answer # "files" => p \in Path,
           request \in {"negotiate", "upload", "raw"} => body \in Content,
           fresh' \in Path \cup {NoFile},
           Begin(request, p, body, answer)
    PROVE  /\ Types'
           /\ call'.at = answer /\ call'.n = calls + 1 /\ call'.count = 0
           /\ Len(c2s') = Len(c2s) + 1 /\ \A i \in 1 .. Len(c2s) : c2s'[i] = c2s[i]
           /\ c2s'[Len(c2s) + 1].type = request /\ c2s'[Len(c2s) + 1].n = calls + 1
  <1> DEFINE f == Frame(request, calls + 1, p, body)
  <1>1. calls + 1 \in 0 .. MaxCalls
    BY ClientAssumption, SMTT(30) DEF Types, Begin
  <1>2. f \in FramesOf(Requests) /\ f.type = request /\ f.n = calls + 1
    <2>1. request \in {"negotiate", "download", "upload", "raw"} => p \in Path
      BY DEF Requests
    <2>2. request \in {"negotiate", "upload", "raw", "header"} => body \in Content
      BY DEF Requests
    <2> QED
      BY <1>1, <2>1, <2>2, NewFrame, SMTT(30)
  <1>3. /\ c2s' \in Seq(FramesOf(Requests)) /\ Len(c2s') = Len(c2s) + 1
        /\ \A i \in 1 .. Len(c2s) : c2s'[i] = c2s[i]
        /\ c2s'[Len(c2s) + 1] = f
    <2> HIDE DEF f
    <2>1. c2s' = Append(c2s, f)
      BY DEF Begin, f
    <2> QED
      BY <1>2, <2>1, Written DEF Types
  <1>4. /\ call' \in CallRecord /\ call'.at = answer /\ call'.n = calls + 1 /\ call'.count = 0
        /\ call'.path = p
    <2>1. call' = [at |-> answer, n |-> calls + 1, path |-> p, body |-> body, count |-> 0,
                   refused |-> FALSE]
      BY Zenon DEF Begin, NoCall
    <2>2. 0 \in 0 .. MaxIgnored - 1
      BY ClientAssumption
    <2>3. call' \in CallRecord
      BY <1>1, <2>1, <2>2 DEF CallRecord
    <2> QED
      BY <2>1, <2>3
  <1>5. call'.at \in {"negotiation", "header", "raw", "ack"} => call'.path \in Path
    BY <1>4
  <1>6. calls' \in 0 .. MaxCalls
    BY <1>1 DEF Begin
  <1>7. Types'
    BY <1>3, <1>4, <1>5, <1>6, Zenon DEF Types, Begin, history
  <1> QED
    BY <1>2, <1>3, <1>4, <1>7

LEMMA BeginStages ==
    ASSUME Types, Stages, Types', NEW request, NEW answer, NEW p, NEW body,
           Begin(request, p, body, answer), Asks(request, answer),
           fresh' \in {fresh, NoFile}, answer = "ack" => fresh # NoFile /\ fresh' = NoFile,
           call'.at = answer, call'.n = calls + 1, call'.count = 0,
           Len(c2s') = Len(c2s) + 1, \A i \in 1 .. Len(c2s) : c2s'[i] = c2s[i],
           c2s'[Len(c2s) + 1].type = request, c2s'[Len(c2s) + 1].n = calls + 1
    PROVE  Stages'
  <1>1. call.at = "none" /\ s2c' = s2c /\ sess' = sess
    BY DEF Begin
  <1>2. PICK r \in {0, 1}, l \in {0, 1} : Trail(r, l) /\ NoneYet(r, l)
    BY <1>1 DEF Stages, Silent, Stage, Asked, Dropped, Answered, Download, Refused
  <1>3. Trail(r, l)'
    <2>1. call.count \in Nat
      BY DEF Types, CallRecord
    <2>2. r = 1 => c2s'[1] = c2s[1]
      BY <1>2 DEF NoneYet
    <2>3. r + l + call'.count <= 1 /\ r <= Len(c2s') /\ l <= Len(s2c')
      BY <1>1, <1>2, <2>1 DEF Trail, NoneYet
    <2>4. r = 1 => c2s'[1].type = "raw" /\ (sess'.at = "upload" => sess'.buffer = <<>>)
      BY <1>1, <1>2, <2>2, Zenon DEF Trail
    <2>5. l = 1 => s2c'[1].type \in {"progress", "error"}
      BY <1>1, <1>2, Zenon DEF Trail
    <2>6. /\ fresh' # NoFile \/ call'.at \in {"ack", "raw"} => r = 0 /\ l = 0
          /\ call'.at = "ack" => fresh' = NoFile
      <3>1. answer # "raw" /\ (fresh # NoFile => r = 0 /\ l = 0)
        BY <1>2 DEF Trail, Asks
      <3> QED
        BY <3>1, Zenon
    <2> QED
      BY <2>3, <2>4, <2>5, <2>6, Zenon DEF Trail
  <1>4. Asked(r, l)'
    BY <1>1, <1>2 DEF Trail, NoneYet, Asked, Between, Asks
  <1> QED
    BY <1>3, <1>4, Zenon DEF Stages, Stage

LEMMA BeginInv ==
    ASSUME Inv, NEW p \in Path,
           negotiate(p) \/ download_file(p) \/ upload_file(p)
    PROVE  Inv'
  <1> USE ContentBodies
  <1>0. Types /\ Stages /\ local[p] \in Content /\ p # NoFile
    BY ClientAssumption DEF Inv, Types
  <1>1. CASE negotiate(p)
    <2>1. Begin("negotiate", p, local[p], "negotiation") /\ fresh' = NoFile
      BY <1>1 DEF negotiate
    <2>2. "negotiate" \in Requests /\ Asks("negotiate", "negotiation")
      BY DEF Requests, Asks
    <2> QED
      BY <1>0, <2>1, <2>2, BeginTypes, BeginStages DEF Inv
  <1>2. CASE download_file(p)
    <2>1. Begin("download", p, <<>>, "header") /\ fresh' = fresh
      BY <1>2 DEF download_file
    <2>2. "download" \in Requests /\ Asks("download", "header") /\ fresh \in Path \cup {NoFile}
      BY <1>0 DEF Requests, Asks, Types
    <2> QED
      BY <1>0, <2>1, <2>2, BeginTypes, BeginStages DEF Inv
  <1>3. CASE upload_file(p)
    <2>1. Begin("upload", p, local[p], "ack") /\ fresh' = NoFile /\ fresh # NoFile
      BY <1>0, <1>3 DEF upload_file
    <2>2. "upload" \in Requests /\ Asks("upload", "ack")
      BY DEF Requests, Asks
    <2> QED
      BY <1>0, <2>1, <2>2, BeginTypes, BeginStages DEF Inv
  <1> QED
    BY <1>1, <1>2, <1>3
LEMMA ListInv ==
    ASSUME Inv, list_server_files
    PROVE  Inv'
  <1>1. Begin("list", NoFile, <<>>, "files") /\ fresh' = fresh
    BY DEF list_server_files
  <1>2. "list" \in Requests /\ Asks("list", "files") /\ fresh \in Path \cup {NoFile}
    BY DEF Inv, Requests, Asks, Types
  <1> QED
    BY <1>1, <1>2, ContentBodies, BeginTypes, BeginStages DEF Inv
-----------------------------------------------------------------------------
(* The client reads. *)

\* The first frame is taken.
LEMMA Front ==
    ASSUME Types, s2c # <<>>, Receive
    PROVE  /\ Head(s2c) = s2c[1] /\ s2c[1] \in FramesOf(Answers)
           /\ s2c' \in Seq(FramesOf(Answers)) /\ Len(s2c) \in Nat \ {0}
           /\ Len(s2c') = Len(s2c) - 1 /\ \A i \in 1 .. Len(s2c) - 1 : s2c'[i] = s2c[i + 1]
  BY Taken DEF Types, Receive

LEMMA Fresh == /\ NoCall \in CallRecord /\ NoCall.at = "none" /\ NoCall.count = 0
               /\ Ready \in SessRecord /\ Ready.at = "ready"
  BY ClientAssumption, ContentBodies DEF CallRecord, NoCall, SessRecord, Ready

LEMMA ReadExpectedInv ==
    ASSUME Inv, ReadExpected
    PROVE  Inv'
  <1> USE Fresh
  <1>1. /\ call.at \in {"negotiation", "header", "files"} /\ s2c # <<>> /\ Receive
        /\ sess' = sess /\ c2s' = c2s
    BY DEF ReadExpected, Waiting
  <1>2. Types /\ Stages /\ call \in CallRecord /\ call.count \in Nat /\ s2c[1].type = call.at
    BY <1>1, Front DEF Inv, ReadExpected, Types, CallRecord
  <1>3. Types'
    <2>1. s2c[1].body \in Bodies
      BY <1>1, <1>2, Front, FrameFields
    <2>2. call.at = "header" => call' \in CallRecord /\ call'.at = "raw" /\ call'.path = call.path
      BY <1>1, <1>2, <2>1, Front, Zenon DEF ReadExpected, CallRecord
    <2>3. call' \in CallRecord /\ (call'.at \in {"negotiation", "header", "raw", "ack"} => call'.path \in Path)
      BY <1>1, <1>2, <2>2 DEF ReadExpected, Types
    <2>4. fresh' \in Path \cup {NoFile}
      BY <1>1, <1>2, Front DEF ReadExpected, Types
    <2> QED
      BY <1>1, <1>2, <2>3, <2>4, Front, Zenon DEF ReadExpected, Types, history, bounds
  <1>4. PICK r \in {0, 1}, l \in {0, 1} : Stage(r, l)
    BY <1>1, <1>2, Front DEF Stages, Silent
  <1>5. r = 0 /\ l = 0 /\ (Answered(0, 0) \/ Download(0, 0))
    BY <1>1, <1>2, <1>4, Front
    DEF Stage, Trail, NoneYet, Asked, Dropped, Answered, Download, Refused
  <1>6. CASE Answered(0, 0)
    <2>1. call' = NoCall /\ Len(s2c') = 0
      BY <1>1, <1>6, <1>2, Front DEF ReadExpected, Answered
    <2>2. Trail(0, 0)' /\ NoneYet(0, 0)'
      BY <1>1, <1>6, <2>1 DEF Trail, NoneYet, Between, Answered
    <2> QED
      BY <1>3, <2>2, Zenon DEF Inv, Stages, Stage
  <1>7. CASE Download(0, 0)
    <2>1. call.at = "header"
      BY <1>1, <1>7 DEF Download
    <2>2. call'.at = "raw" /\ call'.n = call.n /\ call'.count = call.count
      BY <1>2, <2>1 DEF ReadExpected, CallRecord
    <2>3. Trail(0, 0)' /\ Download(0, 0)'
      BY <1>1, <1>2, <1>4, <1>5, <1>7, <2>1, <2>2, Front DEF Stage, Trail, Download
    <2> QED
      BY <1>3, <2>3, Zenon DEF Inv, Stages, Stage
  <1> QED
    BY <1>5, <1>6, <1>7
LEMMA IgnoreInv ==
    ASSUME Inv, Ignore, MaxIgnored > 1
    PROVE  Inv'
  <1> USE Fresh
  <1>1. /\ call.at \in {"negotiation", "header", "files"} /\ s2c # <<>> /\ Receive
        /\ sess' = sess /\ c2s' = c2s /\ fresh' = fresh
    BY DEF Ignore, Waiting
  <1>2. /\ Types /\ Stages /\ call \in CallRecord /\ call.count \in 0 .. MaxIgnored - 1
        /\ s2c[1].type # call.at /\ MaxIgnored \in Nat
    BY <1>1, Front, ClientAssumption, Zenon DEF Inv, Ignore, Types, CallRecord
  <1>3. CASE call.count + 1 = MaxIgnored
    <2>1. call' = NoCall
      BY <1>3 DEF Ignore
    <2>2. Types'
      BY <1>1, <1>2, <2>1, Front, Zenon DEF Ignore, Types, history, bounds
    <2>3. Refused(0, 0)
      BY <1>1, <1>2, <1>3, Front
      DEF Stages, Silent, Stage, Trail, NoneYet, Asked, Dropped, Answered, Download, Refused
    <2>4. Trail(0, 0)' /\ NoneYet(0, 0)'
      BY <1>1, <1>2, <2>1, <2>3, Front DEF Refused, Trail, NoneYet, Between
    <2> QED
      BY <2>2, <2>4, Zenon DEF Inv, Stages, Stage
  <1>4. CASE call.count + 1 # MaxIgnored
    <2>1. /\ call' \in CallRecord /\ call'.count = call.count + 1
          /\ call'.at = call.at /\ call'.n = call.n /\ call'.path = call.path
      <3> DEFINE refusal == call.refused \/ (Head(s2c).type = "error" /\ Head(s2c).n = call.n)
      <3>1. call' = [call EXCEPT !.count = @ + 1, !.refused = refusal]
        BY <1>4 DEF Ignore
      <3>2. refusal \in BOOLEAN
        BY <1>2 DEF CallRecord
      <3>3. call.count + 1 \in 0 .. MaxIgnored - 1
        BY <1>2, <1>4
      <3> HIDE DEF refusal
      <3> QED
        BY <1>2, <3>1, <3>2, <3>3, Zenon DEF CallRecord
    <2>2. Types'
      BY <1>1, <1>2, <2>1, Front, Zenon DEF Ignore, Types, history, bounds
    <2>3. CASE Refused(0, 0)
      <3>1. Silent'
        BY <1>1, <1>2, <2>1, <2>3, Front DEF Refused, Silent
      <3> QED
        BY <2>2, <3>1 DEF Inv, Stages
    <2>4. CASE ~Refused(0, 0)
      <3>1. Trail(0, 1) /\ (Asked(0, 1) \/ Dropped(0, 1) \/ Answered(0, 1) \/ Download(0, 1) \/ Refused(0, 1))
        BY <1>1, <1>2, <2>4, Front
        DEF Stages, Silent, Stage, Trail, NoneYet, Asked, Dropped, Answered, Download, Refused
      <3>2. Trail(0, 0)'
        BY <1>1, <1>2, <2>1, <3>1, Front DEF Trail
      <3>3. Asked(0, 1) => Asked(0, 0)'
        BY <1>1, <1>2, <2>1, Front DEF Asked, Between
      <3>4. Dropped(0, 1) => Dropped(0, 0)'
        BY <1>1, <1>2, <2>1, Front DEF Dropped
      <3>5. Answered(0, 1) => Answered(0, 0)'
        BY <1>1, <1>2, <2>1, Front DEF Answered
      <3>6. Download(0, 1) => Download(0, 0)'
        BY <1>1, <1>2, <2>1, Front DEF Download
      <3>7. Refused(0, 1) => Refused(0, 0)'
        BY <1>1, <1>2, <2>1, Front DEF Refused
      <3> QED
        BY <2>2, <3>1, <3>2, <3>3, <3>4, <3>5, <3>6, <3>7, Zenon DEF Inv, Stages, Stage
    <2> QED
      BY <2>3, <2>4
  <1> QED
    BY <1>3, <1>4

LEMMA ReadRawInv ==
    ASSUME Inv, ReadRaw
    PROVE  Inv'
  <1> USE Fresh
  <1>1. /\ call.at = "raw" /\ s2c # <<>> /\ Receive /\ call' = NoCall
        /\ sess' = sess /\ c2s' = c2s
    BY DEF ReadRaw, Waiting
  <1>2. Types /\ Stages
    BY DEF Inv
  <1>3. local' \in [Path -> Content]
    <2>1. s2c[1].type = "raw" => s2c[1].body \in Content
      BY <1>1, <1>2, Front, FrameFields
    <2> QED
      BY <1>1, <1>2, <2>1, Front DEF ReadRaw, Types
  <1>4. Types'
    BY <1>1, <1>2, <1>3, Front DEF ReadRaw, Types, history, bounds
  <1>5. Download(0, 0)
    BY <1>1, <1>2, Front
    DEF Stages, Silent, Stage, Trail, NoneYet, Asked, Dropped, Answered, Download, Refused
  <1>6. Trail(0, 0)' /\ NoneYet(0, 0)'
    BY <1>1, <1>2, <1>5, Front DEF Download, Trail, NoneYet, Between
  <1> QED
    BY <1>4, <1>6, Zenon DEF Inv, Stages, Stage
\* The raw frame of an upload goes out behind nothing else.
LEMMA ReadAckInv ==
    ASSUME Inv, ReadAck
    PROVE  Inv'
  <1> USE Fresh
  <1>1. /\ call.at = "ack" /\ s2c # <<>> /\ Receive /\ call' = NoCall
        /\ sess' = sess /\ fresh' = fresh
    BY DEF ReadAck, Waiting
  <1>2. Types /\ Stages /\ call.path \in Path /\ call.n \in 0 .. MaxCalls
    BY <1>1 DEF Inv, Types, CallRecord
  <1>3. Answered(0, 0) /\ fresh = NoFile
    BY <1>1, <1>2, Front
    DEF Stages, Silent, Stage, Trail, NoneYet, Asked, Dropped, Answered, Download, Refused
  <1>4. s2c[1].type = "ack"
    BY <1>1, <1>3 DEF Answered
  <1> DEFINE f == Frame("raw", call.n, call.path, local[call.path])
  <1>5. f \in FramesOf(Requests) /\ f.type = "raw"
    <2>1. "raw" \in Requests /\ local[call.path] \in Content
      BY <1>2 DEF Requests, Types
    <2> QED
      BY <1>2, <2>1, ContentBodies, NewFrame
  <1> HIDE DEF f
  <1>6. c2s' = Append(c2s, f) /\ sent' \in 0 .. MaxCalls
    BY <1>1, <1>2, <1>4, Front DEF ReadAck, Types, f
  <1>7. c2s' \in Seq(FramesOf(Requests)) /\ Len(c2s') = Len(c2s) + 1 /\ c2s'[Len(c2s) + 1] = f
    BY <1>2, <1>5, <1>6, Written DEF Types
  <1>8. Types'
    BY <1>1, <1>2, <1>6, <1>7, Front DEF ReadAck, Types, bounds
  <1>9. Len(s2c') = 0 /\ Len(c2s') = 1 /\ c2s'[1] = f
    BY <1>1, <1>2, <1>3, <1>7, Front DEF Answered
  <1>10. Trail(1, 0)' /\ NoneYet(1, 0)'
    BY <1>1, <1>3, <1>5, <1>9 DEF Trail, NoneYet, Between, Answered
  <1> QED
    BY <1>8, <1>10, Zenon DEF Inv, Stages, Stage
-----------------------------------------------------------------------------
(* The session. *)

\* The session takes the first frame.
LEMMA Served ==
    ASSUME Types, c2s # <<>>, c2s' = Tail(c2s)
    PROVE  /\ Head(c2s) = c2s[1] /\ c2s[1] \in FramesOf(Requests)
           /\ c2s' \in Seq(FramesOf(Requests)) /\ Len(c2s) \in Nat \ {0}
           /\ Len(c2s') = Len(c2s) - 1 /\ \A i \in 1 .. Len(c2s) - 1 : c2s'[i] = c2s[i + 1]
  BY Taken DEF Types

\* It is the request of the call, or a raw frame of the upload before.
LEMMA HeadRequest ==
    ASSUME Types, Stages, c2s # <<>>, c2s[1].type # "raw"
    PROVE  \E l \in {0, 1} : Trail(0, l) /\ Asked(0, l)
  <1>1. Len(c2s) > 0
    BY DEF Types
  <1> QED
    BY <1>1 DEF Stages, Silent, Stage, Trail, NoneYet, Asked, Dropped, Answered, Download, Refused

LEMMA HeadRaw ==
    ASSUME Types, Stages, c2s # <<>>, c2s[1].type = "raw"
    PROVE  Trail(1, 0) /\ call.count = 0 /\ (NoneYet(1, 0) \/ Asked(1, 0))
  <1>1. Len(c2s) > 0 /\ call.count \in Nat
    BY DEF Types, CallRecord
  <1> QED
    BY <1>1
    DEF Stages, Silent, Stage, Trail, NoneYet, Asked, Dropped, Answered, Download, Refused, Asks

\* An answer is added.
LEMMA Replied ==
    ASSUME Types, NEW t \in Answers, NEW n \in 0 .. MaxCalls, NEW p \in Path \cup {NoFile},
           NEW body \in Bodies, t = "raw" => p \in Path, t \in {"raw", "header"} => body \in Content,
           s2c' = Append(s2c, Frame(t, n, p, body))
    PROVE  /\ s2c' \in Seq(FramesOf(Answers)) /\ Len(s2c') = Len(s2c) + 1
           /\ s2c'[Len(s2c) + 1].type = t /\ s2c'[Len(s2c) + 1].n = n
           /\ \A i \in 1 .. Len(s2c) : s2c'[i] = s2c[i]
  <1> DEFINE f == Frame(t, n, p, body)
  <1>1. f \in FramesOf(Answers) /\ f.type = t /\ f.n = n
    <2>1. t \in {"negotiate", "download", "upload", "raw"} => p \in Path
      BY DEF Answers
    <2>2. t \in {"negotiate", "upload", "raw", "header"} => body \in Content
      BY DEF Answers
    <2> QED
      BY <2>1, <2>2, NewFrame
  <1>2. s2c' = Append(s2c, f)
    OBVIOUS
  <1> HIDE DEF f
  <1> QED
    BY <1>1, <1>2, Written DEF Types
\* A request is answered by one frame.
LEMMA AnswerStep ==
    ASSUME Inv, NEW t \in {"negotiation", "files"}, NEW request, NEW body \in Bodies,
           Asks(request, t), Serving("ready", request), s2c' = Append(s2c, Reply(t, body)),
           UNCHANGED <<local, server, up, call, sess, fresh, history, bounds>>
    PROVE  Inv'
  <1>1. /\ sess.at = "ready" /\ c2s # <<>> /\ Head(c2s).type = request /\ c2s' = Tail(c2s)
        /\ s2c' = Append(s2c, Frame(t, Head(c2s).n, Head(c2s).path, body))
    BY DEF Serving, Reply
  <1>2. UNCHANGED <<local, server, up, call, sess, fresh, sent, stored, calls, changes, losses>>
    BY DEF history, bounds
  <1>3. Types /\ Stages /\ c2s[1].n \in 0 .. MaxCalls /\ c2s[1].path \in Path \cup {NoFile}
    BY <1>1, Served, FrameFields DEF Inv
  <1>4. /\ s2c' \in Seq(FramesOf(Answers)) /\ Len(s2c') = Len(s2c) + 1
        /\ s2c'[Len(s2c) + 1].type = t /\ s2c'[Len(s2c) + 1].n = c2s[1].n
        /\ \A i \in 1 .. Len(s2c) : s2c'[i] = s2c[i]
    <2>1. t \in Answers /\ t \notin {"raw", "header"}
      BY <1>1 DEF Answers
    <2>2. s2c' = Append(s2c, Frame(t, c2s[1].n, c2s[1].path, body))
      BY <1>1, <1>3, Served
    <2> QED
      BY <1>3, <2>1, <2>2, Replied, Zenon
  <1>5. Types'
    BY <1>1, <1>2, <1>3, <1>4, Served, Zenon DEF Types
  <1>6. c2s[1].type = request /\ request # "raw"
    BY <1>1, <1>3, Served DEF Asks
  <1>7. PICK l \in {0, 1} : Trail(0, l) /\ Asked(0, l)
    BY <1>1, <1>3, <1>6, HeadRequest
  <1>8. call.at = t /\ c2s[1].n = call.n /\ Len(c2s) = 1 /\ Len(s2c) = l
    BY <1>1, <1>6, <1>7 DEF Asked, Asks
  <1>9. Trail(0, l)' /\ Answered(0, l)'
    BY <1>1, <1>2, <1>3, <1>4, <1>7, <1>8, Served DEF Trail, Answered
  <1> QED
    BY <1>5, <1>9, Zenon DEF Inv, Stages, Stage
LEMMA AnswerInv ==
    ASSUME Inv, handle_negotiation_request \/ handle_list_files_request
    PROVE  Inv'
  <1>1. CASE handle_negotiation_request
    <2>1. Mode(Head(c2s).path, Head(c2s).body) \in Bodies /\ Asks("negotiate", "negotiation")
      BY ContentBodies DEF Mode, Modes, Asks
    <2> QED
      BY <1>1, <2>1, AnswerStep, Zenon DEF handle_negotiation_request
  <1>2. CASE handle_list_files_request
    <2>1. Asks("list", "files")
      BY DEF Asks
    <2> QED
      BY <1>2, <2>1, ContentBodies, AnswerStep, Zenon DEF handle_list_files_request
  <1> QED
    BY <1>1, <1>2

\* The header of a download, or its refusal.
LEMMA DownloadInv ==
    ASSUME Inv, handle_zero_copy_download_request
    PROVE  Inv'
  <1>1. /\ sess.at = "ready" /\ c2s # <<>> /\ Head(c2s).type = "download" /\ c2s' = Tail(c2s)
        /\ UNCHANGED <<local, server, up, call, fresh, sent, stored, calls, changes, losses>>
    BY DEF handle_zero_copy_download_request, Serving, history, bounds
  <1>2. Types /\ Stages
    BY DEF Inv
  <1>3. Head(c2s) = c2s[1] /\ c2s[1].type = "download" /\ c2s[1].n \in 0 .. MaxCalls /\ c2s[1].path \in Path
    BY <1>1, <1>2, Served, FrameFields
  <1> DEFINE p == c2s[1].path
  <1>4. PICK l \in {0, 1} : Trail(0, l) /\ Asked(0, l)
    BY <1>1, <1>2, <1>3, HeadRequest
  <1>5. call.at = "header" /\ c2s[1].n = call.n /\ Len(c2s) = 1 /\ Len(s2c) = l
    BY <1>3, <1>4 DEF Asked, Asks
  <1>6. c2s' \in Seq(FramesOf(Requests)) /\ Len(c2s') = 0
    BY <1>1, <1>2, <1>5, Served
  <1>7. CASE server[p] \in {NoFile, <<>>}
    <2>1. s2c' = Append(s2c, Frame("error", c2s[1].n, p, <<>>)) /\ sess' = sess
      BY <1>3, <1>7 DEF handle_zero_copy_download_request, Reply
    <2>2. /\ s2c' \in Seq(FramesOf(Answers)) /\ Len(s2c') = Len(s2c) + 1
          /\ s2c'[Len(s2c) + 1].type = "error" /\ \A i \in 1 .. Len(s2c) : s2c'[i] = s2c[i]
      <3>1. "error" \in Answers
        BY DEF Answers
      <3> QED
        BY <1>2, <1>3, <2>1, <3>1, ContentBodies, Replied
    <2>3. Types'
      BY <1>1, <1>2, <1>6, <2>1, <2>2, Zenon DEF Types
    <2>4. Trail(0, l)' /\ Refused(0, l)'
      BY <1>1, <1>4, <1>5, <1>6, <2>1, <2>2 DEF Trail, Refused
    <2> QED
      BY <2>3, <2>4, Zenon DEF Inv, Stages, Stage
  <1>8. CASE server[p] \notin {NoFile, <<>>}
    <2>1. /\ s2c' = Append(s2c, Frame("header", c2s[1].n, p, server[p]))
          /\ sess' = [Ready EXCEPT !.at = "send", !.n = c2s[1].n, !.path = p,
                        !.total = Len(server[p])]
      BY <1>3, <1>8, Zenon DEF handle_zero_copy_download_request, Reply
    <2>2. server[p] \in Content /\ Len(server[p]) \in Nat
      BY <1>2, <1>3, <1>8, ClientAssumption DEF Types
    <2>3. /\ s2c' \in Seq(FramesOf(Answers)) /\ Len(s2c') = Len(s2c) + 1
          /\ s2c'[Len(s2c) + 1].type = "header" /\ s2c'[Len(s2c) + 1].n = c2s[1].n
          /\ \A i \in 1 .. Len(s2c) : s2c'[i] = s2c[i]
      <3>1. "header" \in Answers
        BY DEF Answers
      <3> QED
        BY <1>2, <1>3, <2>1, <2>2, <3>1, ContentBodies, Replied
    <2>4. /\ sess' \in SessRecord /\ sess'.at = "send" /\ sess'.path = p
          /\ sess'.n = c2s[1].n
      <3>1. sess' = [at |-> "send", n |-> c2s[1].n, path |-> p, total |-> Len(server[p]),
                     hash |-> <<>>, buffer |-> <<>>]
        BY <2>1, Zenon DEF Ready
      <3>2. <<>> \in Bodies /\ <<>> \in Seq(Nat)
        BY ContentBodies
      <3> QED
        BY <1>3, <2>2, <3>1, <3>2 DEF SessRecord
    <2>5. Types'
      <3>1. server'[sess'.path] \in Content /\ sess'.path \in Path
        BY <1>1, <1>3, <2>2, <2>4
      <3> QED
        BY <1>1, <1>2, <1>6, <2>3, <2>4, <3>1, Zenon DEF Types
    <2>6. Trail(0, l)' /\ Download(0, l)'
      BY <1>1, <1>4, <1>5, <1>6, <2>3, <2>4 DEF Trail, Download
    <2> QED
      BY <2>5, <2>6, Zenon DEF Inv, Stages, Stage
  <1> QED
    BY <1>7, <1>8

\* The data of a download follows its header.
LEMMA SendInv ==
    ASSUME Inv, send_file_linux
    PROVE  Inv'
  <1> USE Fresh
  <1> DEFINE body == SubSeq(server[sess.path], 1, sess.total)
  <1>1. /\ sess.at = "send" /\ Len(server[sess.path]) >= sess.total /\ sess' = Ready /\ c2s' = c2s
        /\ s2c' = Append(s2c, Frame("raw", sess.n, sess.path, body))
        /\ UNCHANGED <<local, server, up, call, fresh, sent, stored, calls, changes, losses>>
    BY DEF send_file_linux, history, bounds
  <1>2. Types /\ Stages
    BY DEF Inv
  <1>3. sess.path \in Path /\ sess.n \in 0 .. MaxCalls /\ sess.total \in Nat /\ server[sess.path] \in Content
    BY <1>1, <1>2 DEF Types, SessRecord
  <1>4. body \in Content
    <2>1. sess.total \in 0 .. Len(server[sess.path])
      BY <1>1, <1>3, ClientAssumption
    <2> QED
      BY <1>3, <2>1, ClientAssumption
  <1> HIDE DEF body
  <1>5. /\ s2c' \in Seq(FramesOf(Answers)) /\ Len(s2c') = Len(s2c) + 1
        /\ s2c'[Len(s2c) + 1].type = "raw" /\ s2c'[Len(s2c) + 1].n = sess.n
        /\ \A i \in 1 .. Len(s2c) : s2c'[i] = s2c[i]
    <2>1. "raw" \in Answers
      BY DEF Answers
    <2> QED
      BY <1>1, <1>2, <1>3, <1>4, <2>1, ContentBodies, Replied
  <1>6. Types'
    BY <1>1, <1>2, <1>5 DEF Types
  <1>7. PICK l \in {0, 1} : Trail(0, l) /\ Download(0, l)
    BY <1>1, <1>2
    DEF Stages, Silent, Stage, NoneYet, Asked, Between, Dropped, Answered, Download, Refused
  <1>8. Len(s2c) \in Nat /\ Len(c2s) = 0 /\ call.at \in {"header", "raw"} /\ sess.n = call.n
    BY <1>1, <1>2, <1>7 DEF Types, Download
  <1>9. Trail(0, l)'
    BY <1>1, <1>5, <1>7, <1>8 DEF Trail
  <1>10. Download(0, l)'
    BY <1>1, <1>5, <1>7, <1>8 DEF Download
  <1> QED
    BY <1>6, <1>9, <1>10, Zenon DEF Inv, Stages, Stage

\* The session goes on with the upload, or is ready again.
LEMMA ReceivedTypes ==
    ASSUME Types, NEW s \in SessRecord, s.at = "upload", s.path \in Path, s.buffer \in Content,
           Received(s)
    PROVE  /\ server' \in [Path -> Content \cup {NoFile}] /\ stored' \in 0 .. MaxCalls
           /\ sess' \in SessRecord /\ (sess' = s \/ sess' = Ready)
  <1> USE Fresh
  <1>1. s.n \in 0 .. MaxCalls
    BY DEF SessRecord
  <1>2. CASE Len(s.buffer) < s.total /\ sess' = s /\ UNCHANGED <<server, stored>>
    BY <1>2 DEF Types
  <1>3. CASE Len(s.buffer) > s.total /\ sess' = Ready /\ UNCHANGED <<server, stored>>
    BY <1>3 DEF Types
  <1>4. CASE /\ Len(s.buffer) = s.total /\ sess' = Ready
             /\ server' = [server EXCEPT ![s.path] = s.buffer]
             /\ stored' = IF s.buffer = s.hash THEN s.n ELSE stored
    BY <1>1, <1>4 DEF Types
  <1> QED
    BY <1>2, <1>3, <1>4, Zenon DEF Received

\* An upload is acknowledged; nothing of the one before is left.
LEMMA UploadInv ==
    ASSUME Inv, handle_zero_copy_upload_request
    PROVE  Inv'
  <1> USE Fresh
  <1> DEFINE f == c2s[1]
             s == [at |-> "upload", n |-> f.n, path |-> f.path, total |-> Len(f.body),
                   hash |-> f.body, buffer |-> <<>>]
  <1>1. /\ sess.at = "ready" /\ c2s # <<>> /\ Head(c2s).type = "upload" /\ c2s' = Tail(c2s)
        /\ UNCHANGED <<local, up, call, fresh, sent, calls, changes, losses>>
    BY DEF handle_zero_copy_upload_request, Serving, bounds
  <1>2. Types /\ Stages
    BY DEF Inv
  <1>3. /\ Head(c2s) = f /\ f.type = "upload" /\ f.n \in 0 .. MaxCalls /\ f.path \in Path
        /\ f.body \in Content
    BY <1>1, <1>2, Served, FrameFields
  <1>4. PICK l \in {0, 1} : Trail(0, l) /\ Asked(0, l)
    BY <1>1, <1>2, <1>3, HeadRequest
  <1>5. /\ call.at = "ack" /\ f.n = call.n /\ Len(c2s) = 1 /\ Len(s2c) = 0 /\ fresh = NoFile
        /\ Trail(0, 0)
    BY <1>3, <1>4 DEF Asked, Asks, Trail
  <1>6. s2c' = Append(s2c, Frame("ack", f.n, f.path, <<>>)) /\ Received(s)
    BY <1>3 DEF handle_zero_copy_upload_request, Reply
  <1>7. /\ s2c' \in Seq(FramesOf(Answers)) /\ Len(s2c') = 1
        /\ s2c'[1].type = "ack" /\ s2c'[1].n = f.n
    <2>1. "ack" \in Answers
      BY DEF Answers
    <2> QED
      BY <1>2, <1>3, <1>5, <1>6, <2>1, ContentBodies, Replied
  <1>8. s \in SessRecord /\ s.at = "upload" /\ s.path \in Path /\ s.buffer = <<>> /\ <<>> \in Content
    <2>1. Len(f.body) \in Nat /\ 0 \in 0 .. Len(f.body) /\ f.body \in Bodies /\ <<>> \in Seq(Nat)
      BY <1>3, ClientAssumption, ContentBodies
    <2>2. SubSeq(f.body, 1, 0) = <<>>
      BY <1>3, ClientAssumption
    <2>3. <<>> \in Content
      BY <1>3, <2>1, <2>2, ClientAssumption, Zenon
    <2> QED
      BY <1>3, <2>1, <2>3 DEF SessRecord
  <1> HIDE DEF s
  <1>9. /\ server' \in [Path -> Content \cup {NoFile}] /\ stored' \in 0 .. MaxCalls
        /\ sess' \in SessRecord /\ (sess' = s \/ sess' = Ready)
    BY <1>2, <1>6, <1>8, ReceivedTypes
  <1>10. sess'.at = "ready" \/ (sess'.at = "upload" /\ sess'.path \in Path /\ sess'.buffer = <<>>)
    BY <1>8, <1>9
  <1>11. c2s' \in Seq(FramesOf(Requests)) /\ Len(c2s') = 0
    BY <1>1, <1>2, <1>5, Served
  <1>12. Types'
    BY <1>1, <1>2, <1>7, <1>9, <1>10, <1>11 DEF Types
  <1>13. Trail(0, 0)' /\ Answered(0, 0)'
    BY <1>1, <1>5, <1>7, <1>10, <1>11 DEF Trail, Answered
  <1> QED
    BY <1>12, <1>13, Zenon DEF Inv, Stages, Stage

\* The raw frame of an upload is taken, and a frame that nobody waits for may
\* take its place on the other side.
LEMMA RawTaken ==
    ASSUME Types, Stages, c2s # <<>>, c2s[1].type = "raw", c2s' = Tail(c2s),
           UNCHANGED <<call, fresh>>,
           sess'.at = "ready" \/ (sess.at = "upload" /\ sess'.at = "upload"),
           NEW l \in {0, 1}, Len(s2c') = l, l = 1 => s2c'[1].type \in {"progress", "error"}
    PROVE  Stages'
  <1>1. Trail(1, 0) /\ call.count = 0 /\ (NoneYet(1, 0) \/ Asked(1, 0))
    BY HeadRaw
  <1>2. Trail(0, l)'
    BY <1>1 DEF Trail
  <1>3. CASE NoneYet(1, 0)
    <2>1. NoneYet(0, l)'
      BY <1>1, <1>3, Served DEF NoneYet, Between, Trail
    <2> QED
      BY <1>2, <2>1, Zenon DEF Stages, Stage
  <1>4. CASE Asked(1, 0)
    <2>1. Len(c2s) = 2 /\ Len(c2s') = 1 /\ c2s'[1] = c2s[2] /\ fresh = NoFile
      <3>1. Len(c2s) = 2
        BY <1>4 DEF Asked
      <3>2. Len(c2s') = Len(c2s) - 1 /\ \A i \in 1 .. Len(c2s) - 1 : c2s'[i] = c2s[i + 1]
        BY Served, Zenon
      <3>3. Len(c2s') = 1
        BY <3>1, <3>2
      <3>4. c2s'[1] = c2s[2]
        <4>1. 1 \in 1 .. Len(c2s) - 1 /\ 1 + 1 = 2
          BY <3>1
        <4> QED
          BY <3>2, <4>1, Zenon
      <3>5. fresh = NoFile
        BY <1>1 DEF Trail
      <3> QED
        BY <3>1, <3>3, <3>4, <3>5
    <2>2. Between'
      BY <1>1, <1>4, <2>1, SMTT(30) DEF Asked, Between, Trail
    <2>3. Asked(0, l)'
      BY <1>4, <2>1, <2>2, SMTT(30) DEF Asked
    <2> QED
      BY <1>2, <2>3, Zenon DEF Stages, Stage
  <1> QED
    BY <1>1, <1>3, <1>4

LEMMA UploadRawInv ==
    ASSUME Inv, UploadRaw
    PROVE  Inv'
  <1> USE Fresh
  <1> DEFINE f == c2s[1]
             s == [sess EXCEPT !.buffer = @ \o Head(c2s).body]
  <1>1. /\ sess.at = "upload" /\ c2s # <<>> /\ Head(c2s).type = "raw" /\ c2s' = Tail(c2s)
        /\ Received(s)
        /\ UNCHANGED <<local, up, call, fresh, sent, calls, changes, losses>>
    BY DEF UploadRaw, Serving, bounds
  <1>2. Types /\ Stages
    BY DEF Inv
  <1>3. /\ Head(c2s) = f /\ f.type = "raw" /\ f.n \in 0 .. MaxCalls /\ f.path \in Path
        /\ f.body \in Content
    BY <1>1, <1>2, Served, FrameFields
  <1>4. sess.buffer = <<>> /\ Len(s2c) = 0
    BY <1>1, <1>2, <1>3, HeadRaw DEF Trail, NoneYet, Asked
  <1>5. s \in SessRecord /\ s.at = "upload" /\ s.path \in Path /\ s.buffer \in Content
    <2>1. f.body \in Seq(Nat) /\ <<>> \o f.body = f.body
      BY <1>3, ClientAssumption
    <2>2. s = [sess EXCEPT !.buffer = f.body]
      BY <1>3, <1>4, <2>1, Zenon
    <2>3. sess \in SessRecord /\ sess.path \in Path
      BY <1>1, <1>2 DEF Types
    <2> HIDE DEF s
    <2> QED
      BY <1>1, <1>3, <2>1, <2>2, <2>3, Zenon DEF SessRecord
  <1> HIDE DEF s
  <1>6. /\ server' \in [Path -> Content \cup {NoFile}] /\ stored' \in 0 .. MaxCalls
        /\ sess' \in SessRecord /\ (sess' = s \/ sess' = Ready)
    BY <1>1, <1>2, <1>5, ReceivedTypes
  <1>7. /\ s2c' \in Seq(FramesOf(Answers))
        /\ Len(s2c') = 0 \/ (Len(s2c') = 1 /\ s2c'[1].type = "progress")
    <2>1. CASE s2c' = Append(s2c, Reply("progress", <<>>))
      <3>1. s2c' = Append(s2c, Frame("progress", f.n, f.path, <<>>)) /\ "progress" \in Answers
        BY <1>3, <2>1 DEF Reply, Answers
      <3> QED
        BY <1>2, <1>3, <1>4, <3>1, ContentBodies, Replied
    <2>2. CASE s2c' = s2c
      BY <1>2, <1>4, <2>2 DEF Types
    <2> QED
      BY <2>1, <2>2 DEF UploadRaw
  <1>8. sess'.at = "ready" \/ (sess'.at = "upload" /\ sess'.path \in Path)
    BY <1>5, <1>6
  <1>9. Types'
    BY <1>1, <1>2, <1>6, <1>7, <1>8, Served DEF Types
  <1>10. Stages'
    BY <1>1, <1>2, <1>3, <1>7, <1>8, RawTaken
  <1> QED
    BY <1>9, <1>10 DEF Inv

LEMMA UnknownInv ==
    ASSUME Inv, UnknownMessage
    PROVE  Inv'
  <1>1. /\ sess.at = "ready" /\ c2s # <<>> /\ Head(c2s).type = "raw" /\ c2s' = Tail(c2s)
        /\ s2c' = Append(s2c, Frame("error", Head(c2s).n, Head(c2s).path, <<>>))
        /\ UNCHANGED <<local, server, up, call, sess, fresh, sent, stored, calls, changes, losses>>
    BY DEF UnknownMessage, Serving, Reply, history, bounds
  <1>2. Types /\ Stages
    BY DEF Inv
  <1>3. /\ Head(c2s) = c2s[1] /\ c2s[1].type = "raw" /\ c2s[1].n \in 0 .. MaxCalls
        /\ c2s[1].path \in Path
    BY <1>1, <1>2, Served, FrameFields
  <1>4. Len(s2c) = 0
    BY <1>1, <1>2, <1>3, HeadRaw DEF Trail, NoneYet, Asked
  <1>5. s2c' \in Seq(FramesOf(Answers)) /\ Len(s2c') = 1 /\ s2c'[1].type = "error"
    <2>1. "error" \in Answers
      BY DEF Answers
    <2> QED
      BY <1>1, <1>2, <1>3, <1>4, <2>1, ContentBodies, Replied
  <1>6. Types'
    BY <1>1, <1>2, <1>5, Served, Zenon DEF Types
  <1>7. Stages'
    BY <1>1, <1>2, <1>3, <1>5, RawTaken
  <1> QED
    BY <1>6, <1>7 DEF Inv

\* A request that comes while an upload waits for bytes is lost.
LEMMA DropInv ==
    ASSUME Inv, UploadOther
    PROVE  Inv'
  <1>1. /\ sess.at = "upload" /\ c2s # <<>> /\ Head(c2s).type # "raw" /\ c2s' = Tail(c2s)
        /\ UNCHANGED <<local, server, s2c, up, call, sess, fresh, sent, stored, calls, changes, losses>>
    BY DEF UploadOther, history, bounds
  <1>2. Types /\ Stages
    BY DEF Inv
  <1>3. c2s[1].type # "raw"
    BY <1>1, <1>2, Served
  <1>4. PICK l \in {0, 1} : Trail(0, l) /\ Asked(0, l)
    BY <1>1, <1>2, <1>3, HeadRequest
  <1>5. c2s' \in Seq(FramesOf(Requests)) /\ Len(c2s') = 0
    BY <1>1, <1>2, <1>4, Served DEF Asked
  <1>6. Types'
    BY <1>1, <1>2, <1>5, Zenon DEF Types
  <1>7. Trail(0, l)' /\ Dropped(0, l)'
    BY <1>1, <1>4, <1>5, SMTT(30) DEF Trail, Asked, Between, Dropped
  <1> QED
    BY <1>6, <1>7, Zenon DEF Inv, Stages, Stage
-----------------------------------------------------------------------------
(* The world around, and the theorems. *)

LEMMA Kept ==
    ASSUME Stages, UNCHANGED <<c2s, s2c, call, sess, fresh>>
    PROVE  Stages'
  <1>1. c2s' = c2s /\ s2c' = s2c /\ call' = call /\ sess' = sess /\ fresh' = fresh
    OBVIOUS
  <1>2. CASE Silent
    <2>1. Silent'
      BY <1>1, <1>2, ZenonT(30) DEF Silent
    <2> QED
      BY <2>1, Zenon DEF Stages
  <1>3. CASE \E r, l \in {0, 1} : Stage(r, l)
    <2>1. PICK r \in {0, 1}, l \in {0, 1} : Stage(r, l)
      BY <1>3, Zenon
    <2>2. Trail(r, l)'
      BY <1>1, <2>1, ZenonT(30) DEF Stage, Trail
    <2>3. NoneYet(r, l) => NoneYet(r, l)'
      BY <1>1, ZenonT(30) DEF NoneYet, Between
    <2>4. Asked(r, l) => Asked(r, l)'
      BY <1>1, ZenonT(30) DEF Asked, Between
    <2>5. Dropped(r, l) => Dropped(r, l)'
      BY <1>1, ZenonT(30) DEF Dropped
    <2>6. Answered(r, l) => Answered(r, l)'
      BY <1>1, ZenonT(30) DEF Answered
    <2>7. Download(r, l) => Download(r, l)'
      BY <1>1, ZenonT(30) DEF Download
    <2>8. Refused(r, l) => Refused(r, l)'
      BY <1>1, ZenonT(30) DEF Refused
    <2> QED
      BY <2>1, <2>2, <2>3, <2>4, <2>5, <2>6, <2>7, <2>8, Zenon DEF Stage, Stages
  <1> QED
    BY <1>2, <1>3, Zenon DEF Stages

LEMMA WorldInv ==
    ASSUME Inv, Change \/ Lose \/ connect
    PROVE  Inv'
  <1> USE Fresh
  <1>1. Types /\ Stages
    BY DEF Inv
  <1>2. CASE Change
    <2>1. changes < MaxChanges /\ changes' = changes + 1
          /\ UNCHANGED <<c2s, s2c, up, call, sess, fresh, sent, stored, calls, losses>>
      BY <1>2 DEF Change
    <2>2. /\ local' \in [Path -> Content] /\ server' \in [Path -> Content \cup {NoFile}]
          /\ sess.at = "send" => server'[sess.path] \in Content
      <3>1. PICK p \in Path, c \in Content :
                \/ local' = [local EXCEPT ![p] = c] /\ UNCHANGED server
                \/ server' = [server EXCEPT ![p] = c] /\ UNCHANGED local
        BY <1>2, Zenon DEF Change
      <3> QED
        BY <1>1, <3>1 DEF Types
    <2>3. changes' \in 0 .. MaxChanges
      BY <1>1, <2>1, ClientAssumption DEF Types
    <2>4. Types'
      BY <1>1, <2>1, <2>2, <2>3, Zenon DEF Types
    <2> QED
      BY <1>1, <2>1, <2>4, Kept DEF Inv
  <1>3. CASE Lose
    <2>1. /\ c2s' = <<>> /\ s2c' = <<>> /\ up' = FALSE /\ call' = NoCall /\ sess' = Ready
          /\ fresh' = NoFile /\ sent' = 0 /\ stored' = 0 /\ losses < MaxLosses
          /\ losses' = losses + 1 /\ UNCHANGED <<local, server, calls, changes>>
      BY <1>3 DEF Lose
    <2>2. losses' \in 0 .. MaxLosses /\ 0 \in 0 .. MaxCalls
      BY <1>1, <2>1, ClientAssumption DEF Types
    <2>3. Types'
      <3>1. <<>> \in Seq(FramesOf(Requests)) /\ <<>> \in Seq(FramesOf(Answers))
        OBVIOUS
      <3>2. call'.at = "none" /\ sess'.at = "ready"
        BY <2>1
      <3> QED
        BY <1>1, <2>1, <2>2, <3>1, <3>2, Zenon DEF Types
    <2>4. Trail(0, 0)' /\ NoneYet(0, 0)'
      BY <2>1, SMTT(30) DEF Trail, NoneYet, Between
    <2> QED
      BY <2>3, <2>4, Zenon DEF Inv, Stages, Stage
  <1>4. CASE connect
    BY <1>1, <1>4, Kept DEF connect, history, bounds, Inv, Types
  <1> QED
    BY <1>2, <1>3, <1>4

LEMMA NextInv ==
    ASSUME MaxIgnored > 1, Inv, [Next]_vars
    PROVE  Inv'
  <1>1. CASE \E p \in Path : negotiate(p) \/ download_file(p) \/ upload_file(p)
    BY <1>1, BeginInv, Zenon
  <1>2. CASE list_server_files
    BY <1>2, ListInv
  <1>3. CASE ClientStep
    BY <1>3, ReadExpectedInv, IgnoreInv, ReadRawInv, ReadAckInv DEF ClientStep
  <1>4. CASE SessionStep
    BY <1>4, AnswerInv, DownloadInv, SendInv, UploadInv, UploadRawInv, DropInv, UnknownInv
    DEF SessionStep
  <1>5. CASE Change \/ Lose \/ connect
    BY <1>5, WorldInv
  <1>6. CASE UNCHANGED vars
    BY <1>6, Kept DEF Inv, Types, vars
  <1> QED
    BY <1>1, <1>2, <1>3, <1>4, <1>5, <1>6, Zenon DEF Next

\* The frames in flight are at all times those of one of six stages of the call
\* in progress, behind one frame at most that the last upload left, as long as
\* read_expected reads two frames at least.
THEOREM Invariance ==
    ASSUME MaxIgnored > 1
    PROVE  Spec => []Inv
  <1>1. Init => Inv
    BY InitInv
  <1>2. Inv /\ [Next]_vars => Inv'
    BY NextInv
  <1> QED
    BY <1>1, <1>2, PTL DEF Spec

\* The files, the frames and the state of call and session keep their types, as
\* long as read_expected reads two frames at least: what handle_upload_request
\* stores and download_file writes is a content or, for a file that became
\* shorter under sendfile, the beginning of one.
THEOREM TypeCorrect ==
    ASSUME MaxIgnored > 1
    PROVE  Spec => []TypeOK
  <1>1. Inv => TypeOK
    BY FrameFields, SMTT(30) DEF Inv, Types, TypeOK, CallRecord, SessRecord
  <1> QED
    BY <1>1, Invariance, PTL

\* A call takes the answer to its own request, whatever was uploaded, edited or
\* lost before, and an upload or the data of a download never meets a frame of
\* another kind, as long as read_expected reads two frames at least: negotiate,
\* which comes before every upload, drains the one frame that an upload leaves.
THEOREM AnswersBelong ==
    ASSUME MaxIgnored > 1
    PROVE  Spec => []AnswersMatch
  <1>1. ASSUME Types, Stages
        PROVE  AnswersMatch
    <2>1. /\ Len(s2c) \in Nat /\ DOMAIN s2c = 1 .. Len(s2c) /\ (s2c # <<>> => Head(s2c) = s2c[1])
          /\ s2c # <<>> => Len(s2c) > 0
      BY <1>1 DEF Types
    <2>2. CASE Silent
      BY <2>1, <2>2 DEF Silent, AnswersMatch
    <2>3. ASSUME NEW r \in {0, 1}, NEW l \in {0, 1}, Trail(r, l),
                 \/ NoneYet(r, l) \/ Asked(r, l) \/ Dropped(r, l)
                 \/ Answered(r, l) \/ Download(r, l) \/ Refused(r, l)
          PROVE  AnswersMatch
      <3>1. /\ \A i \in 1 .. Len(s2c) : s2c[i].type = call.at => s2c[i].n = call.n
            /\ call.at \in {"ack", "raw"} /\ s2c # <<>> => s2c[1].type = call.at
        <4>1. CASE NoneYet(r, l) \/ Asked(r, l) \/ Dropped(r, l)
          <5>1. /\ call.at \in {"none", "negotiation", "header", "files", "ack"} /\ Len(s2c) = l
                /\ l = 1 => call.at # "ack" /\ s2c[1].type \in {"progress", "error"}
            BY <2>3, <4>1 DEF Trail, NoneYet, Asked, Dropped
          <5>2. CASE l = 0
            BY <2>1, <5>1, <5>2
          <5>3. CASE l = 1
            <6>1. s2c[1].type # call.at /\ call.at \notin {"ack", "raw"}
              BY <5>1, <5>3
            <6>2. \A i \in 1 .. Len(s2c) : i = 1
              BY <5>1, <5>3
            <6> QED
              BY <6>1, <6>2, Zenon
          <5> QED
            BY <5>2, <5>3
        <4>2. CASE Answered(r, l)
          BY <2>1, <2>3, <4>2 DEF Trail, Answered
        <4>3. CASE Download(r, l)
          BY <2>1, <2>3, <4>3 DEF Trail, Download
        <4>4. CASE Refused(r, l)
          BY <2>1, <2>3, <4>4 DEF Trail, Refused
        <4> QED
          BY <2>3, <4>1, <4>2, <4>3, <4>4
      <3> QED
        BY <2>1, <3>1, Zenon DEF AnswersMatch
    <2> QED
      BY <1>1, <2>2, <2>3, Zenon DEF Stages, Stage
  <1>2. Inv => AnswersMatch
    BY <1>1 DEF Inv
  <1> QED
    BY <1>2, Invariance, PTL
=============================================================================
