------------------------------- MODULE MCCtSlot -------------------------------
(***************************************************************************)
(* CtSlot with three slot objects: the two slots of a Chipdrive Extern II *)
(* tA (the one type IFD_Towitoko_GetNumSlots gives two slots) and the    *)
(* slot of a second terminal tB, which may be a Kartenzwerg, whose port  *)
(* runs 8N1.  A leak would grow a count without bound, so                *)
(* counts are cut at MaxLive.                                             *)
(***************************************************************************)
EXTENDS CtSlot, TLC

CONSTANTS sA, sB, sC, tA, tB

MCSlots == {sA, sB, sC}
MCTerminals == {tA, tB}
MCTermOf == (sA :> tA) @@ (sB :> tA) @@ (sC :> tB)
MCReaderKinds == (tA :> {"OTHER"}) @@ (tB :> {"KARTENZWERG", "OTHER"})

MaxLive == 2

LiveBound == \A s \in Slots : \A k \in Objs : live[s][k] <= MaxLive

\* What the last call of each slot returned is read by no action: states
\* that differ only in it behave alike.
CtView == <<ifd, icc, icc_type, protocol, protocol_type, live, link>>
=============================================================================
