----------------------------- MODULE SessionLog -----------------------------
(***************************************************************************)
(* A VLPREC1 session file and its readers: what the recorder of            *)
(* mapmind_vlp_api.cc writes, what a phone that dies while it records      *)
(* leaves of it, and what mapping/common/data_session.cc and               *)
(* python/vlprec_reader.py read back.                                      *)
(*                                                                         *)
(* A file is a sequence of words.  A field of the format is one word: the  *)
(* file's magic and version, a record's time and size, and in a payload    *)
(* the header (its magic and timestamp), the JPEG (its data and its EOI    *)
(* marker) and the depth block (its tag, its size and its bytes).  Sizes   *)
(* count words.                                                            *)
(***************************************************************************)
EXTENDS Integers, Sequences

\* Words no number in a file equals.
FileMagic  == 101   \* "VLPREC1\n"
FrameMagic == 102   \* "VLP2"
Jpeg       == 103   \* the bytes of an image
Eoi        == 104   \* FF D9
DepthTag   == 105   \* "DPT1"
DepthWord  == 106   \* the bytes of a depth image

FileVersion == 1
FrameHeaderSize == 2

-----------------------------------------------------------------------------
(* The recorder, and the crash.                                            *)

\* A frame that is recorded: its timestamp, the time in the recording, and whether
\* it carries a depth block.
Frame == [ts : Int, rel : Int, depth : BOOLEAN]

\* PushFrameYuvNv21: header, JPEG, and the depth block when there is one.
Payload(f) ==
  <<FrameMagic, f.ts, Jpeg, Eoi>> \o
  (IF f.depth THEN <<DepthTag, 1, DepthWord>> ELSE <<>>)

\* Mutant of Record: the size leaves the depth block out.
RecordShort(f) ==
  <<f.rel, Len(Payload([f EXCEPT !.depth = FALSE]))>> \o Payload(f)

\* MaybeRecordLocked's three writes.
Record(f) == <<f.rel, Len(Payload(f))>> \o Payload(f)

\* What is written after the first n frames; StartRecording writes the header.
Written(frames) ==
  LET From[n \in 0..Len(frames)] ==
        IF n = 0 THEN <<FileMagic, FileVersion>> ELSE From[n-1] \o Record(frames[n])
  IN From

Recording(frames) == Written(frames)[Len(frames)]

\* The first n words reached the disk; the file system may have grown the file
\* before it wrote the rest, which then reads as zeros.
Damaged(file, n, zeros) ==
  SubSeq(file, 1, n) \o [i \in 1..zeros |-> 0]

\* How many whole records the first n words of the recording hold.
WholeRecords(frames, n) ==
  CHOOSE k \in 0..Len(frames) :
    /\ Len(Written(frames)[k]) <= n
    /\ k < Len(frames) => n < Len(Written(frames)[k+1])

-----------------------------------------------------------------------------
(* DataSessionReader.                                                      *)

NoEntry == [found |-> FALSE, pos |-> 0, ts |-> 0, jpeg |-> FALSE, image |-> FALSE, depth |-> FALSE]

\* Open: the position of the first record, 0 when the header is not right.
Open(file) ==
  IF Len(file) >= 2 /\ file[1] = FileMagic /\ file[2] = FileVersion THEN 3 ELSE 0

\* ExtractDepthFromPayload: blocks are looked for after the first EOI marker.
HasDepth(p) ==
  \E e \in FrameHeaderSize+1 .. Len(p) :
    /\ p[e] = Eoi
    /\ \A i \in FrameHeaderSize+1 .. e-1 : p[i] # Eoi
    /\ e + 2 <= Len(p) /\ p[e+1] = DepthTag
    /\ e + 2 + p[e+2] <= Len(p) /\ p[e+2] > 0

\* ParseFramePayload gives a packet.
Parses(p) == p[1] = FrameMagic /\ Len(p) > FrameHeaderSize

\* cv::imdecode takes a whole image for sure, and one that lost its tail maybe.
Decodes(p)  == Len(p) > 3 /\ p[3] = Jpeg /\ p[4] = Eoi
HasImage(p) == p[3] = Jpeg

\* Next, from each position: the first record at or after it whose payload is whole
\* and parses.  A payload that claims less than a frame header is skipped without
\* its words.
Entries(file) ==
  LET Read[pos \in 1..Len(file) + 1] ==
        IF pos + 1 > Len(file) THEN NoEntry
        ELSE LET size == file[pos+1]
                 p == SubSeq(file, pos + 2, pos + 1 + size)
             IN IF size < FrameHeaderSize THEN Read[pos + 2]
                ELSE IF pos + 1 + size > Len(file) THEN NoEntry
                ELSE IF ~Parses(p) THEN Read[pos + 2 + size]
                ELSE [found |-> TRUE, pos |-> pos + 2 + size, ts |-> p[2],
                      jpeg |-> Decodes(p), image |-> HasImage(p), depth |-> HasDepth(p)]
  IN Read

NextEntry(file, from) == Entries(file)[from]

-----------------------------------------------------------------------------
(* iter_vlprec of the Python reader: the timestamps it yields before it     *)
(* ends, or raises because a record is cut or too small.                   *)

PythonFrom(file) ==
  LET Read[pos \in 1..Len(file) + 1] ==
        IF pos + 1 > Len(file) \/ file[pos+1] < FrameHeaderSize
           \/ pos + 1 + file[pos+1] > Len(file)
        THEN <<>>
        ELSE <<file[pos+3]>> \o Read[pos + 2 + file[pos+1]]
  IN Read

PythonFrames(file) == IF Open(file) = 0 THEN <<>> ELSE PythonFrom(file)[Open(file)]
=============================================================================
