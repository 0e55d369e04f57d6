----------------------------- MODULE IfdTowitoko -----------------------------
(***************************************************************************)
(* The command framing of the Towitoko reader, src/src/driver/             *)
(* ifd_towitoko.c: every command sent to the reader ends with a checksum   *)
(* byte that IFD_Towitoko_Checksum computes from a seed (the slot number)  *)
(* and the command bytes; at 115200 baud and above IFD_Towitoko_           *)
(* PrepareCommand first sends a length byte and seeds the checksum with    *)
(* the checksum of that byte.  The reader drops a frame whose last byte    *)
(* is not this checksum, so it has to be right bit for bit.                *)
(***************************************************************************)
EXTENDS Integers, Sequences

\* XOR of two bytes, bit by bit (the community Bitwise operators are
\* evaluated by TLC's own code, which keeps it from evaluating the
\* constant properties below once only).
RECURSIVE XorBits(_, _, _)
XorBits(a, b, k) ==
  IF k = 0 THEN 0 ELSE 2 * XorBits(a \div 2, b \div 2, k - 1) + ((a + b) % 2)

ByteXor(a, b) == XorBits(a, b, 8)

\* (Mutation helper) the step read as a plain rotate: the high bit shifted
\* out comes back in as the low bit.
RotateLeft(x) == ((x * 2) % 256) + x \div 128

ChecksumStepRotate(c, b) == RotateLeft(ByteXor(c, b))

\* One turn of the loop of IFD_Towitoko_Checksum (lines 1616-1622):
\* checksum ^= byte; x7 = bit 7; checksum <<= 1 (a BYTE, so bit 0 is then
\* clear); bit 0 is set iff x7 was 0 ("!x7 == 0x01").
ShiftInComplement(x) ==
  IF x \div 128 = 0 THEN ((x * 2) % 256) + 1 ELSE (x * 2) % 256

ChecksumStep(c, b) == ShiftInComplement(ByteXor(c, b))

\* IFD_Towitoko_Checksum (lines 1609-1626) over the first size bytes.
RECURSIVE Checksum(_, _, _)
Checksum(cmd, size, initial) ==
  IF size = 0 THEN initial
  ELSE ChecksumStep(Checksum(cmd, size - 1, initial), cmd[size])

\* IFD_Towitoko_PrepareCommand (lines 1582-1607): the bytes put on the
\* line for a command whose last byte is left for the checksum; high is
\* props.output_bitrate >= 115200.
PrepareCommand(command, slot, high) ==
  LET size == Len(command)
      body == SubSeq(command, 1, size - 1)
      initial == IF high THEN Checksum(<<size - 1>>, 1, slot) ELSE slot
  IN (IF high THEN <<size - 1>> ELSE <<>>)
     \o body \o <<Checksum(body, size - 1, initial)>>

-----------------------------------------------------------------------------
(* Properties                                                              *)

\* The reference: spec 9 describes the step as a one's-complement carry
\* rotate, x' = (2x mod 256) + 1 - (x div 128) for x = checksum XOR byte;
\* the checksum of a sequence is that step folded from the seed.
RECURSIVE ReferenceChecksum(_, _)
ReferenceChecksum(cmd, initial) ==
  IF cmd = <<>> THEN initial
  ELSE LET x == ByteXor(initial, Head(cmd))
       IN ReferenceChecksum(Tail(cmd), ((2 * x) % 256) + 1 - (x \div 128))

\* The frames of the reader commands that power the card up and down,
\* written out in full in the code with the checksum the reader accepts for
\* slot 0 at the default speed: IFD_Towitoko_ActivateICC (line 457) and
\* IFD_Towitoko_DeactivateICC (line 481).
ActivateFrame == <<\h60, \h0F, \h9C>>
DeactivateFrame == <<\h61, \h0F, \h98>>

\* The reader accepts frame f as PrepareCommand sends it: at the default
\* speed the frame's own last byte is recomputed unchanged, and at high
\* speed, from either slot, the last byte is the checksum of everything
\* before it; both agree with the reference of spec 9.
FrameAccepted(f) ==
  /\ PrepareCommand(f, 0, FALSE) = f
  /\ \A slot \in {0, 1} :
       LET w == PrepareCommand(f, slot, TRUE)
       IN w[Len(w)] = ReferenceChecksum(SubSeq(w, 1, Len(w) - 1), slot)
  /\ f[Len(f)] = ReferenceChecksum(SubSeq(f, 1, Len(f) - 1), 0)
=============================================================================
