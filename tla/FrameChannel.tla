---------------------------- MODULE FrameChannel ----------------------------
(***************************************************************************)
(* What a connection promises its two ends: the frames that were written   *)
(* in full arrive one by one, in order and unchanged.  The receiver learns *)
(* of the end of the stream once; a clean end means that nothing is left,  *)
(* a failure may lose the tail.                                            *)
(***************************************************************************)
EXTENDS Naturals, Sequences

CONSTANT Frames

VARIABLES written, received, end

channelVars == <<written, received, end>>

Init == written = <<>> /\ received = <<>> /\ end = "none"

Write ==
    /\ \E f \in Frames : written' = Append(written, f)
    /\ UNCHANGED <<received, end>>

Receive ==
    /\ end = "none" /\ Len(received) < Len(written)
    /\ received' = Append(received, written[Len(received) + 1])
    /\ UNCHANGED <<written, end>>

End ==
    /\ end = "none"
    /\ \/ end' = "clean" /\ Len(received) = Len(written)
       \/ end' = "failed"
    /\ UNCHANGED <<written, received>>

Spec == Init /\ [][Write \/ Receive \/ End]_channelVars

=============================================================================
