------------------------------ MODULE SendPipe ------------------------------
(***************************************************************************)
(* What AEESocket::send() promises, with nothing of how: on each           *)
(* connection the bytes that leave are the bytes taken, in order, once     *)
(* each, and no more than capacity of them wait inside.                    *)
(***************************************************************************)
EXTENDS Naturals, SequencesExt

CONSTANTS Byte, SendMax

VARIABLES accepted, wire

pipeVars == <<accepted, wire>>

Init == accepted = <<>> /\ wire = <<>>

NewConnection == accepted' = <<>> /\ wire' = <<>>

\* Data is taken, bytes go out, or both.
Transfer ==
    /\ IsPrefix(accepted, accepted') /\ IsPrefix(wire, wire')
    /\ IsPrefix(wire', accepted')
    /\ Len(accepted') - Len(wire') <= SendMax

Next == NewConnection \/ Transfer

Spec == Init /\ [][Next]_pipeVars
=============================================================================
