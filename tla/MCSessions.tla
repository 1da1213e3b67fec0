----------------------------- MODULE MCSessions -----------------------------
(***************************************************************************)
(* Instances of Sessions: three sessions a, b and c, one path p, blocks of *)
(* two bytes.  Each run has its own set of messages per session.           *)
(***************************************************************************)
EXTENDS Sessions

CONSTANTS a, b, c, p

OneFile == {[q \in Path |-> <<1, 1, 1>>]}
MaybeFile == OneFile \cup {[q \in Path |-> NoFile]}

OneEach == [s \in Session |-> 1]
TwoOfA == [s \in Session |-> IF s = a THEN 2 ELSE 1]

Raw(bytes) == [raw |-> TRUE, bytes |-> bytes]
UploadOf(total, frames) == [op |-> "upload", path |-> p, total_size |-> total, frames |-> frames]
DownloadFrom(off) == [op |-> "download", path |-> p, offset |-> off]
NegotiateWith(hash) == [op |-> "negotiate", path |-> p, hash |-> hash]
SignaturesOf(content) == [op |-> "signatures", path |-> p, sigs |-> Signatures(content, BlockSize)]
BlockAt(off, bytes) == [op |-> "block", path |-> p, offset |-> off, data |-> bytes, hash |-> bytes]
BadBlock == [op |-> "block", path |-> p, offset |-> 0, data |-> <<2>>, hash |-> <<3>>]
ListAll == [op |-> "list", recursive |-> TRUE]
ListTop == [op |-> "list", recursive |-> FALSE]
Stray == [op |-> "unknown"]

\* Uploads: one frame, a file shorter than the one there, two frames with a
\* progress frame between them and one that comes too late, surplus bytes, and
\* a connection that is lost after the first of two frames.
Uploads == {
    UploadOf(3, <<Raw(<<2, 2, 2>>)>>),
    UploadOf(1, <<Raw(<<6>>)>>),
    UploadOf(4, <<Raw(<<3, 3>>), [raw |-> FALSE, bytes |-> <<9>>], Raw(<<3, 3>>), Raw(<<7>>)>>),
    UploadOf(1, <<Raw(<<4, 4>>)>>),
    UploadOf(2, <<Raw(<<5>>)>>)}

\* One session writes, the others read.
ReadersAndUploads == [s \in Session |->
    CASE s = a -> Uploads
      [] s = b -> {DownloadFrom(0), DownloadFrom(2), DownloadFrom(4)}
      [] s = c -> {ListAll, NegotiateWith(<<1, 1, 1>>), NegotiateWith(NoFile),
                  SignaturesOf(<<1, 1, 1>>), Stray}]

\* Two delta-syncs of one file, a shorter upload of it, a comparison, a download
\* and a listing with the .tmp files.
DeltaSyncs == [s \in Session |->
    CASE s = a -> {BlockAt(0, <<2, 2>>), BlockAt(2, <<2>>)}
      [] s = b -> {BlockAt(2, <<3>>), BadBlock, UploadOf(1, <<Raw(<<4>>)>>)}
      [] s = c -> {SignaturesOf(<<1, 1, 1>>), DownloadFrom(0), ListTop}]

\* Two clients upload the same path.
TwoUploads == [s \in Session |->
    IF s = a THEN {UploadOf(2, <<Raw(<<2, 2>>)>>)} ELSE {UploadOf(3, <<Raw(<<3, 3, 3>>)>>)}]
=============================================================================
