------------------------------- MODULE TxFifo -------------------------------
(***************************************************************************)
(* What a USB TX queue promises its users: frames are completed (status    *)
(* reported, skb freed) once each and in the order they were queued.       *)
(* Frames are numbered in the order they are accepted.                     *)
(***************************************************************************)
EXTENDS Naturals, Sequences

VARIABLES accepted,   \* number of frames taken so far
          completed   \* the frames completed so far, in order

Init == accepted = 0 /\ completed = <<>>

Accept   == accepted' = accepted + 1 /\ UNCHANGED completed

Complete == /\ Len(completed) < accepted
            /\ completed' = Append(completed, Len(completed) + 1)
            /\ UNCHANGED accepted

Spec == Init /\ [][Accept \/ Complete]_<<accepted, completed>>
=============================================================================
