----------------------------- MODULE BusChannel -----------------------------
(***************************************************************************)
(* What a bus stream promises: a first-in first-out channel from a handler *)
(* to a client, of which the client may stop reading at any time, and      *)
(* which is empty when it is said to have ended.                           *)
(***************************************************************************)
EXTENDS Sequences, Naturals

CONSTANT Payloads
VARIABLES sent, delivered, over

Init == sent = <<>> /\ delivered = <<>> /\ over = FALSE

Put(data) == ~over /\ sent' = Append(sent, data) /\ UNCHANGED <<delivered, over>>

Take ==
  /\ ~over /\ Len(delivered) < Len(sent)
  /\ delivered' = Append(delivered, sent[Len(delivered) + 1])
  /\ UNCHANGED <<sent, over>>

End == delivered = sent /\ over' = TRUE /\ UNCHANGED <<sent, delivered>>

Spec == Init /\ [][(\E data \in Payloads : Put(data)) \/ Take \/ End]_<<sent, delivered, over>>
=============================================================================
