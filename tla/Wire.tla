-------------------------------- MODULE Wire --------------------------------
(***************************************************************************)
(* One direction of a connection: the frame codec (codec.rs) between the    *)
(* writer task of one end and the reader loop of the other (session.rs,     *)
(* client.rs; both ends use the same code).                                 *)
(*                                                                          *)
(* A frame is the byte string rmp-serde makes of it, over bytes 0..Base-1;  *)
(* the length in front of it takes HeaderLen bytes.  The kernel moves the   *)
(* bytes in pieces, so write_all and read_exact are taken byte by byte: a   *)
(* frame may be cut anywhere when the connection ends.  A connection ends   *)
(* when its other end has dropped both halves (the writer's alone leaves    *)
(* the stream open), in the middle of a write if the task is aborted.       *)
(***************************************************************************)
EXTENDS Naturals, Sequences, FiniteSets

CONSTANTS
    Base,       \* values of a byte
    HeaderLen,  \* bytes of the length: 4
    MaxFrame,   \* MAX_FRAME_BYTES
    Frames,     \* encodings of the frames that are sent
    MaxFrames   \* bound: frames given to the writer task

\* n and what remains of it after shifts by one, two ... and HeaderLen bytes.
shifted(n) ==
    LET s[k \in 0..HeaderLen] == IF k = 0 THEN n ELSE s[k - 1] \div Base
    IN  s

ASSUME WireAssumption ==
    /\ Base \in Nat \ {0, 1} /\ HeaderLen \in Nat \ {0}
    /\ MaxFrame \in Nat /\ shifted(MaxFrame)[HeaderLen] = 0  \* it fits the length
    /\ Frames \subseteq Seq(0..(Base - 1)) \ {<<>>}
    /\ MaxFrames \in Nat

VARIABLES
    queue,     \* frames on the channel of the writer task
    accepted,  \* history: the frames write_frame went on to write
    writer,    \* the writer task is running
    out,       \* bytes write_all has yet to write
    pipe,      \* bytes in transit
    closed,    \* the writing end has dropped both halves
    stage,     \* what read_exact is reading: the "length" or the "payload"
    buf,       \* bytes it has got
    want,      \* bytes it needs
    received,  \* the frames read_frame_opt returned
    outcome    \* how the reader loop ended, "none" before

writeVars == <<queue, accepted, writer, out>>
readVars == <<stage, buf, want, received, outcome>>
wireVars == <<writeVars, pipe, closed, readVars>>

Init ==
    /\ queue = <<>> /\ accepted = <<>> /\ writer = TRUE /\ out = <<>>
    /\ pipe = <<>> /\ closed = FALSE
    /\ stage = "length" /\ buf = <<>> /\ want = HeaderLen
    /\ received = <<>> /\ outcome = "none"

-----------------------------------------------------------------------------
(* The writing end.                                                        *)

\* u32::to_be_bytes of a length; `as u32` cuts off what does not fit.
to_be_bytes(n) == [i \in 1..HeaderLen |-> shifted(n)[HeaderLen - i] % Base]

from_be_bytes(b) ==
    LET value[i \in 0..HeaderLen] == IF i = 0 THEN 0 ELSE value[i - 1] * Base + b[i]
    IN  value[HeaderLen]

\* A task of the writing end queues a frame; a dead writer's channel is closed.
Queue(f) ==
    /\ writer /\ Len(queue) + Len(accepted) < MaxFrames
    /\ queue' = Append(queue, f)
    /\ UNCHANGED <<accepted, writer, out, pipe, closed, readVars>>

\* The size check of write_frame.
FitsFrame(f) == Len(f) <= MaxFrame

\* rx.recv yields a frame and write_frame starts to write it, or ends the writer
\* task: with Codec, which any frame may meet, or with FrameTooLarge, the only way
\* for one that does not fit.  The frames behind it are lost then.
WriteFrame ==
    LET f == Head(queue) IN
    /\ writer /\ ~closed /\ out = <<>> /\ queue # <<>>
    /\ \/ /\ FitsFrame(f)
          /\ accepted' = Append(accepted, f)
          /\ out' = to_be_bytes(Len(f)) \o f
          /\ queue' = Tail(queue)
          /\ UNCHANGED writer
       \/ /\ writer' = FALSE /\ queue' = <<>>
          /\ UNCHANGED <<accepted, out>>
    /\ UNCHANGED <<pipe, closed, readVars>>

\* Seeded fault: without the flush the last byte waits for the next frame.
WriteByte_Unflushed ==
    /\ writer /\ ~closed /\ Len(out) > 1
    /\ pipe' = Append(pipe, Head(out)) /\ out' = Tail(out)
    /\ UNCHANGED <<queue, accepted, writer, closed, readVars>>

\* write_all, and flush, hand a byte to the kernel.
WriteByte ==
    /\ writer /\ ~closed /\ out # <<>>
    /\ pipe' = Append(pipe, Head(out)) /\ out' = Tail(out)
    /\ UNCHANGED <<queue, accepted, writer, closed, readVars>>

\* A write fails; the writer task ends, the stream stays open.
WriteFails ==
    /\ writer /\ out # <<>>
    /\ writer' = FALSE /\ queue' = <<>>
    /\ UNCHANGED <<accepted, out, pipe, closed, readVars>>

\* The writing end's reader loop has ended: the writer task is aborted, maybe in
\* the middle of a frame, and the stream is dropped.
Close ==
    /\ ~closed
    /\ closed' = TRUE /\ writer' = FALSE /\ queue' = <<>>
    /\ UNCHANGED <<accepted, out, pipe, readVars>>

-----------------------------------------------------------------------------
(* read_frame_opt.                                                         *)

\* The reader loop ends with o.
Ends(o) == outcome' = o /\ UNCHANGED <<stage, buf, want, received>>

\* Seeded fault: everything that has arrived is taken.
ReadByte_Greedy ==
    /\ outcome = "none" /\ Len(buf) < want /\ pipe # <<>>
    /\ buf' = buf \o pipe /\ pipe' = <<>>
    /\ UNCHANGED <<writeVars, closed, stage, want, received, outcome>>

\* read_exact gets another byte.
ReadByte ==
    /\ outcome = "none" /\ Len(buf) < want /\ pipe # <<>>
    /\ buf' = Append(buf, Head(pipe)) /\ pipe' = Tail(pipe)
    /\ UNCHANGED <<writeVars, closed, stage, want, received, outcome>>

\* Seeded fault: a frame of exactly the maximum is refused.
TooLarge_AtMax(n) == n >= MaxFrame

\* The size check of read_frame_opt.
TooLarge(n) == n > MaxFrame

\* The length is complete.
ReadLength ==
    LET n == from_be_bytes(buf) IN
    /\ outcome = "none" /\ stage = "length" /\ Len(buf) = want
    /\ \/ TooLarge(n) /\ Ends("FrameTooLarge")
       \/ /\ ~TooLarge(n)
          /\ stage' = "payload" /\ buf' = <<>> /\ want' = n
          /\ UNCHANGED <<received, outcome>>
    /\ UNCHANGED <<writeVars, pipe, closed>>

\* Seeded fault: read in place of read_exact, a part is taken for the whole.
PayloadRead_Short == stage = "payload" /\ buf # <<>>

\* read_exact has got the payload.
PayloadRead == stage = "payload" /\ Len(buf) = want

\* The payload is complete: it decodes to a frame or it does not.
ReadPayload ==
    /\ outcome = "none" /\ PayloadRead
    /\ \/ buf \notin Frames /\ Ends("Codec")
       \/ /\ buf \in Frames
          /\ received' = Append(received, buf)
          /\ stage' = "length" /\ buf' = <<>> /\ want' = HeaderLen
          /\ UNCHANGED outcome
    /\ UNCHANGED <<writeVars, pipe, closed>>

\* Seeded fault: an end of stream in a payload is waited out.
ReadEof_LengthOnly ==
    /\ outcome = "none" /\ closed /\ pipe = <<>> /\ Len(buf) < want
    /\ stage = "length" /\ Ends("Eof")
    /\ UNCHANGED <<writeVars, pipe, closed>>

\* read_exact meets the end of the stream: in the length, be it before its first
\* byte or after, it is Ok(None); in the payload it is an error.
ReadEof ==
    /\ outcome = "none" /\ closed /\ pipe = <<>> /\ Len(buf) < want
    /\ IF stage = "length" THEN Ends("Eof") ELSE Ends("Io")
    /\ UNCHANGED <<writeVars, pipe, closed>>

\* A read fails, a connection reset for one; what is in transit is lost.
ReadFails ==
    /\ outcome = "none" /\ Len(buf) < want
    /\ Ends("Io")
    /\ pipe' = <<>>
    /\ UNCHANGED <<writeVars, closed>>

-----------------------------------------------------------------------------

Writes == WriteFrame \/ WriteByte

Reads == ReadByte \/ ReadLength \/ ReadPayload \/ ReadEof

Next == \/ \E f \in Frames : Queue(f)
        \/ Writes \/ WriteFails \/ Close
        \/ Reads \/ ReadFails

\* Both tasks are scheduled, and the kernel moves the bytes they write.
Spec == Init /\ [][Next]_wireVars /\ WF_wireVars(Writes) /\ WF_wireVars(Reads)

-----------------------------------------------------------------------------

\* Types, and that the reader never asks for more than a frame may have.
WireTypeOK ==
    /\ queue \in Seq(Frames) /\ accepted \in Seq(Frames) /\ received \in Seq(Frames)
    /\ {writer, closed} \subseteq BOOLEAN
    /\ {out, pipe, buf} \subseteq Seq(0..(Base - 1))
    /\ stage \in {"length", "payload"}
    /\ outcome \in {"none", "Eof", "Io", "FrameTooLarge", "Codec"}
    /\ Len(buf) <= want /\ want <= IF stage = "length" THEN HeaderLen ELSE MaxFrame

\* The frames the writer task has written to the last byte.
Written == SubSeq(accepted, 1, Len(accepted) - IF out = <<>> THEN 0 ELSE 1)

Channel == INSTANCE FrameChannel WITH
    written <- Written,
    end <- IF outcome = "none" THEN "none" ELSE IF outcome = "Eof" THEN "clean" ELSE "failed"

\* The codec over a byte stream implements a channel of frames: wherever the
\* stream is cut, the reader returns the frames that were written, in order and
\* unchanged, and takes the end for a clean one only when it has returned all.
ImplementsChannel == Channel!Spec

\* The two size checks and the two conversions of the length agree: what one end
\* writes the other never refuses as too large or undecodable.
NoRefusal == outcome \notin {"FrameTooLarge", "Codec"}

\* A frame that write_frame accepted arrives, unless the connection fails first.
FramesArrive ==
    \A n \in 1..MaxFrames :
        Len(accepted) = n ~> Len(received) >= n \/ ~writer \/ outcome # "none"

\* The reader loop notices that the other end is gone, wherever in a frame the
\* stream was cut.
LossIsNoticed == closed ~> outcome # "none"

=============================================================================
