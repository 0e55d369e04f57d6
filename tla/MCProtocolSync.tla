---------------------------- MODULE MCProtocolSync ----------------------------
(***************************************************************************)
(* ProtocolSync for TLC: a 16-byte card in two pages of 8, PINs as model  *)
(* values, and four card images, each with a DIR that one of the three    *)
(* shapes of SELECT FILE by AID walks, for the AID A1.                    *)
(***************************************************************************)
EXTENDS ProtocolSync

CONSTANTS P1, P2, P0

\* A memory holding the bytes bs from address 0 on, zero after them.
Mem(bs) == [x \in 0..MemLen-1 |-> IF x < Len(bs) THEN bs[x + 1] ELSE 0]

\* H2 0x08: 128 data units of one bit, the 16 bytes of the memory.
\* The DIR at 4 (ATR H4 = 0x84, also the ATR made for cards without one).
\* SEQ: a sequence (30) of one template (61) holding AID A1 (4F) and the
\*      path 00 00 (51), which leads to the data object 53 at 0.
\* MONO: AID A1, then a data object whose length 7F runs past the memory.
\* TMPL: a template holding AID A1, then the data object.
\* DIRAT10: H4 = 0x8A, a mono-application DIR at 10, so that 2F01 selects
\*      the six bytes 4..9.
SeqImage ==
  [h2 |-> \h08, h3 |-> \h10, h4 |-> \h84,
   mem |-> Mem(<<\h53, 2, 0, 0, \h30, 9, \h61, 7, \h4F, 1, \hA1, \h51, 2, 0, 0>>)]
MonoImage ==
  [h2 |-> \h08, h3 |-> \h10, h4 |-> \h84,
   mem |-> Mem(<<0, 0, 0, 0, \h4F, 1, \hA1, \h53, \h7F>>)]
TmplImage ==
  [h2 |-> \h08, h3 |-> \h10, h4 |-> \h84,
   mem |-> Mem(<<0, 0, 0, 0, \h61, 3, \h4F, 1, \hA1, \h53, 2, 0, 0>>)]
DirAt10Image ==
  [h2 |-> \h08, h3 |-> \h10, h4 |-> \h8A,
   mem |-> Mem(<<0, 0, 0, 0, 0, 0, 0, 0, 0, 0, \h4F, 1, \hA1, \h53, 1, 0>>)]

CardImages == {SeqImage, MonoImage, TmplImage, DirAt10Image}

\* The AID of the images, one that extends it, and another.
MCAids == {<<\hA1>>, <<\hA1, 0>>, <<\hA2>>}

\* States that differ only in the last call, its response and the last
\* ICC_Sync result behave alike: no action reads call or rsp, ret is only
\* carried into ret', and the properties read these three only after a
\* step.  TLC still checks every step for the action properties.
PsView == <<card, icc, ps, updates>>
=============================================================================
