----------------------------- MODULE PacketPipe -----------------------------
(***************************************************************************)
(* What one direction of a netX mailbox promises, whoever is at its two    *)
(* ends and however they signal each other: a pipe that holds at most one  *)
(* packet, hands every packet that entered it over exactly once and in     *)
(* the order of entry, and neither invents nor loses one.                  *)
(*                                                                         *)
(* CifxMailbox is shown to implement this module twice, once from the      *)
(* application to the device (xChannelPutPacket) and once from the device  *)
(* to the application (xChannelGetPacket).                                 *)
(***************************************************************************)
EXTENDS Sequences

CONSTANT Packet      \* whatever travels through the pipe

VARIABLES entered,   \* packets put into the pipe, in order
          left       \* packets taken out of it, in order

pipeVars == <<entered, left>>

PipeInit == entered = <<>> /\ left = <<>>

(* A packet may enter only while the pipe is empty. *)
Enter(p) == /\ entered = left
            /\ entered' = Append(entered, p)
            /\ UNCHANGED left

(* The one packet in the pipe is handed over. *)
Leave(p) == /\ entered = Append(left, p)
            /\ left' = entered
            /\ UNCHANGED entered

PipeNext == \E p \in Packet : Enter(p) \/ Leave(p)

PipeSpec == PipeInit /\ [][PipeNext]_pipeVars
=============================================================================
