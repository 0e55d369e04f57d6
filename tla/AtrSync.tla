------------------------------- MODULE AtrSync -------------------------------
(***************************************************************************)
(* The answer to reset of a synchronous card, src/src/driver/atr_sync.c:  *)
(* four header bytes H1..H4 and what the driver reads from them: the     *)
(* memory size in H2, the category indicator H3 and the DIR data         *)
(* reference H4.  An ATR is a record [h1, h2, h3, h4].                   *)
(***************************************************************************)
EXTENDS Integers, Sequences

\* ATR_SYNC_SIZE: the header bytes both callers of ATR_Sync_Init pass.
AtrSyncSize == 4

\* The ATR object ATR_Sync_Init fills from the buffer bs (lines 54-57).
AtrOf(bs) == [h1 |-> bs[1], h2 |-> bs[2], h3 |-> bs[3], h4 |-> bs[4]]

\* ATR_Sync_Init (lines 48-71): fewer than four bytes are MALFORMED; a
\* structure of the general kind (H1 & 0x03 = 0x02) is OK when H3 is the
\* category indicator 0x10 and MALFORMED otherwise; any other structure
\* is UNKNOWN_STRUCTURE.
AtrSyncInit(bs, length) ==
  CASE length < AtrSyncSize -> "MALFORMED"
    [] bs[1] % 4 # 2        -> "UNKNOWN_STRUCTURE"
    [] bs[3] = \h10         -> "OK"
    [] OTHER                -> "MALFORMED"

\* ATR_Sync_GetProtocolType (lines 74-78): the high nibble of H1.
ProtocolType(atr) == (atr.h1 \div 16) % 16

\* ATR_Sync_GetRaw (lines 153-161): the four header bytes.
AtrRaw(atr) == <<atr.h1, atr.h2, atr.h3, atr.h4>>

\* ATR_Sync_GetNumberOfDataUnits (lines 92-110): 2^(e + 6) for the four
\* bits e = H2 >> 3 & 0x0F, none when e is 0.
NumberOfDataUnits(atr) ==
  LET e == (atr.h2 \div 8) % 16 IN IF e = 0 THEN 0 ELSE 2 ^ (e + 6)

\* ATR_Sync_GetLengthOfDataUnits (lines 111-126): 2^(H2 & 0x07) bits.
LengthOfDataUnits(atr) == 2 ^ (atr.h2 % 8)

\* The memory length in bytes that ICC_Sync_ProbeMemoryLength takes from
\* the ATR (icc_sync.c line 573).
MemoryLength(atr) == (NumberOfDataUnits(atr) * LengthOfDataUnits(atr)) \div 8

\* ATR_Sync_GetCategoryIndicator and ATR_Sync_GetDirDataReference (lines
\* 141-152) with the macros of atr_sync.h: a DIR is named when H3 is the
\* category 0x10 and bit 7 of H4 is set; H4's low seven bits are its
\* address.
HasDir(atr) == atr.h3 = 16 /\ (atr.h4 \div 128) = 1
DirRef(atr) == atr.h4 % 128

=============================================================================
