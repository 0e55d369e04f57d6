------------------------------- MODULE IccSync -------------------------------
(***************************************************************************)
(* The synchronous (memory) card of src/src/driver/icc_sync.c on one      *)
(* reader slot: ICC_Sync_Init with its card-type probe, Read, Write with   *)
(* its page-bounded bursts and read-back retries, EnterPin, ChangePin and  *)
(* Close.  Read, Write, EnterPin and ChangePin are called only by the      *)
(* protocol layer above (protocol_sync.c), so they are operators here and  *)
(* become steps of the module ProtocolSync, which composes the two.       *)
(*                                                                         *)
(* Each ICC_Sync_xxx call runs to completion (spec 5) and is one action.   *)
(* Inside it the reader primitives IFD_Towitoko_xxx are called in order;   *)
(* a call, its nested calls and its loops are operators from a state      *)
(* record st = [c |-> card, i |-> icc, buf |-> last data read] to the set  *)
(* of results [ret, st] the callees' outcomes allow.  Then(rs, F) is the  *)
(* code's "if (f () != OK) return error;".                                *)
(*                                                                         *)
(* The card is the environment: its power, whether its PIN was presented   *)
(* in this power cycle (unlocked), its error counter, its PIN, its memory  *)
(* of MemLen bytes (an image from Images) and the header bytes           *)
(* H2 H3 H4 of its ATR.  Memory bytes are bytes; the page size is scaled: *)
(* burst and a card page are ByteMod bytes, not 256.                       *)
(***************************************************************************)
EXTENDS Integers, Sequences, Bitwise, TLC, AtrSync

CONSTANTS
  ByteMod,     \* values of a BYTE (256), scaled
  MemLen,      \* card memory in bytes
  MaxTrials,   \* PIN error counter of a fresh card
  CardKinds,   \* the cards that may be inserted
  Images,      \* card contents: [h2, h3, h4, mem], mem on 0..MemLen-1
  Pins,        \* PINs a user may present
  CardPin,     \* the PIN of the card
  ZeroPin,     \* the cleared icc->pin buffer
  IfdFaults,   \* reader commands may fail
  CardFaults   \* an I2C EEPROM write may not take

ASSUME CardPin \in Pins /\ ZeroPin \notin Pins

\* The bytes the host writes, and what a card that does not answer gives.
Vals == {0, 1}

\* ICC_SYNC_MAX_TRANSMIT: one burst at most; the reader's address counter
\* wraps within a low byte, so a card page is ByteMod bytes, except the
\* 64-byte write pages of I2C long cards (pagemode 0x40 = 256/4).
MaxTransmit == ByteMod
LongPagemode == ByteMod \div 4
CardPage(kind) == IF kind = "I2C_LONG" THEN LongPagemode ELSE ByteMod

\* Cards that answer the I2C status probe.
I2C == {"I2C_SHORT", "I2C_LONG"}

\* The H1 a card of each kind answers reset with: the general structure
\* 0x02 under the protocol type 2-wire 0x0A, 3-wire 0x09, SDA (I2C) 0x08,
\* or, for "OTHER", the reserved type 0x0F.
CardH1(kind) ==
  16 * (CASE kind = "2W" -> \h0A [] kind = "3W" -> \h09
          [] kind = "OTHER" -> \h0F [] OTHER -> \h08) + \h02

VARIABLES
  card,   \* [powered, unlocked, trials, pin, mem, kind, hasAtr]
  icc,    \* the ICC_Sync object: [phase, atr, active, pin_ok, pin_needed,
          \*   pin, type, pagemode, length]
  ret,    \* what the last call returned
  call    \* the last call and its arguments: [op, a, n, d, p]

vars == <<card, icc, ret, call>>

-----------------------------------------------------------------------------
(* Results and sequencing                                                  *)

Res(r, st) == [ret |-> r, st |-> st]
Ok(st) == {Res("OK", st)}

Then(rs, F(_)) == UNION {IF r.ret = "OK" THEN F(r.st) ELSE {r} : r \in rs}

\* A reader command is a frame, then a status byte read back.  With
\* IfdFaults it may fail at any frame of it: the driver gets an error and
\* learns nothing, while the card is as the frames that reached it left it.
\* cs lists the card after each frame of the command; the first is the
\* card before it.
Frames(st, cs, st2) ==
  {Res("OK", st2)}
  \cup (IF IfdFaults THEN {Res("IFD_ERROR", [st EXCEPT !.c = c]) : c \in cs}
        ELSE {})

\* A one-frame command: the reply is lost before or after the card acted.
Prim(st, st2) == Frames(st, {st.c, st2.c}, st2)

\* A reader command whose result the code ignores: the states it may leave.
Raw(st, st2) == {st2} \cup (IF IfdFaults THEN {st} ELSE {})

\* The ICC_SYNC_NEEDS_xxx macros.
NeedsPin(i) == i.type \in {"2W", "3W"} /\ i.pin_needed
NeedsActivate(i) == ~i.active
NeedsDeactivate(i) == i.type # "3W" /\ i.active

\* ICC_Sync_Clear.
Cleared == [phase |-> "NEW", atr |-> FALSE, active |-> FALSE,
            pin_ok |-> FALSE, pin_needed |-> FALSE, pin |-> ZeroPin,
            type |-> "I2C_SHORT", pagemode |-> 0, length |-> 0]

Clear(st) == [st EXCEPT !.i = [Cleared EXCEPT !.phase = st.i.phase]]

-----------------------------------------------------------------------------
(* The reader primitives, by what they do to the card                      *)

SetLED(st) == Prim(st, st)
SetBaudrate(st) == Prim(st, st)
SetAddress(st) == Prim(st, st)

ActivateICC(st) == Prim(st, [st EXCEPT !.c.powered = TRUE])

\* Power off: the card forgets the PIN presented.
DeactivateICC(st) ==
  Prim(st, [st EXCEPT !.c.powered = FALSE, !.c.unlocked = FALSE])

\* Reset of a powered card gives its ATR, if it has one.
ResetSyncICC(st) ==
  Prim([st EXCEPT !.i.atr = FALSE], [st EXCEPT !.i.atr = st.c.hasAtr])

\* The card answers a command only when powered and addressed in its own
\* bus protocol; otherwise what is read back is a line level (any of Vals,
\* the same for every byte).  The card's address counter wraps at the end
\* of its memory.
Addressed(st) == st.c.powered /\ st.i.type = st.c.kind

CardAddr(x) == x % MemLen

ReadBuffer(st, a, n) ==
  UNION {Prim(st, [st EXCEPT !.buf = v]) :
           v \in IF Addressed(st)
                 THEN {[k \in 1..n |-> st.c.mem[CardAddr(a + k - 1)]]}
                 ELSE {[k \in 1..n |-> g] : g \in Vals}}

\* The card stores byte k of a burst at a + k within the page of a: its
\* address counter wraps at the page end.  2W and 3W cards store only after
\* the PIN was presented; an I2C EEPROM write may not take.
WrapAddr(a, k, kind) ==
  LET pg == CardPage(kind) IN (a \div pg) * pg + (((a % pg) + k) % pg)

Stored(st, a, n, d) ==
  [x \in 0..MemLen-1 |->
     IF \E k \in 0..n-1 : CardAddr(WrapAddr(a, k, st.c.kind)) = x THEN d
     ELSE st.c.mem[x]]

Takes(st) ==
  /\ Addressed(st)
  /\ st.c.kind \notin I2C => st.c.unlocked

WriteBuffer(st, a, n, d) ==
  UNION {Prim(st, IF tk THEN [st EXCEPT !.c.mem = Stored(st, a, n, d)] ELSE st) :
           tk \in IF ~Takes(st) THEN {FALSE}
                  ELSE IF CardFaults /\ st.c.kind \in I2C THEN BOOLEAN
                  ELSE {TRUE}}

\* IFD_Towitoko_ReadErrorCounter: the counter is left in buf[1].
ReadErrorCounter(st) ==
  UNION {Prim(st, [st EXCEPT !.buf = <<v>>]) :
           v \in IF Addressed(st) THEN {st.c.trials} ELSE 0..MaxTrials}

\* IFD_Towitoko_EnterPin (ifd_towitoko.c lines 1195-1403): the frames
\* write one bit of the error counter (a trial spent), compare the PIN
\* (a right one unlocks the card) and erase the counter, which the card
\* does only once unlocked; each frame's status is read before the next.
PresentPin(st, p) ==
  LET right == p = st.c.pin
      spent == [st.c EXCEPT !.unlocked = FALSE,
                            !.trials = IF @ > 0 THEN @ - 1 ELSE 0]
      compared == [spent EXCEPT !.unlocked = right]
      erased == IF right THEN [compared EXCEPT !.trials = MaxTrials]
                ELSE compared
  IN IF ~Addressed(st) THEN Prim(st, st)
     ELSE Frames(st, {st.c, spent, compared, erased}, [st EXCEPT !.c = erased])

\* IFD_Towitoko_ChangePin: the card takes a new PIN once unlocked.
WritePin(st, p) ==
  Prim(st, IF Addressed(st) /\ st.c.unlocked THEN [st EXCEPT !.c.pin = p]
           ELSE st)

-----------------------------------------------------------------------------
(* Mutation helpers (faults a review of this code looks for).              *)

\* The page mask taken as pagemode itself, not pagemode - 1.
PageMaskOffByOne(i) == i.pagemode % ByteMod

-----------------------------------------------------------------------------
(* ICC_Sync functions                                                      *)

\* A 2W or 3W card is given its PIN again after a re-activation, when the
\* PIN was entered before (icc->pin_ok) and is needed (ICC_SYNC_NEEDS_PIN).
Repin(i) == i.pin_ok /\ NeedsPin(i)

\* The page mask: mask = icc->pagemode - 0x01 in a BYTE.
PageMask(i) == (i.pagemode - 1) % ByteMod

\* Re-activate a card that ICC_SYNC_NEEDS_ACTIVATE.
Reactivate(st) ==
  IF NeedsActivate(st.i)
  THEN Then(ActivateICC(st), LAMBDA s : Ok([s EXCEPT !.i.active = TRUE]))
  ELSE Ok(st)

\* Deactivate a card that ICC_SYNC_NEEDS_DEACTIVATE; its PIN is then needed.
Deactivate(st) ==
  IF NeedsDeactivate(st.i)
  THEN Then(DeactivateICC(st),
            LAMBDA s : Ok([s EXCEPT !.i.pin_needed = TRUE, !.i.active = FALSE]))
  ELSE Ok(st)

\* (Mutation helper) PIN entry without the stop on an exhausted counter.
EnterPinNoBlockCheck(st, p) ==
  IF st.i.type \in I2C THEN Ok(st)
  ELSE
    Then(Reactivate(st), LAMBDA s1 :
    Then(ReadErrorCounter(s1), LAMBDA s2 :
      Then(PresentPin(s2, p), LAMBDA s3 :
      Then(ReadErrorCounter(s3), LAMBDA s4 :
        IF s4.buf[1] < s2.buf[1]
        THEN {Res("PIN_ERROR", [s4 EXCEPT !.i.pin_ok = FALSE])}
        ELSE Ok([s4 EXCEPT !.i.pin = p, !.i.pin_ok = TRUE,
                           !.i.pin_needed = FALSE])))))

\* ICC_Sync_EnterPin (lines 330-378).
EnterPin(st, p) ==
  IF st.i.type \in I2C THEN Ok(st)
  ELSE
    Then(Reactivate(st), LAMBDA s1 :
    Then(ReadErrorCounter(s1), LAMBDA s2 :
      IF s2.buf[1] = 0 THEN {Res("BLOCKED_ERROR", s2)}
      ELSE
      Then(PresentPin(s2, p), LAMBDA s3 :
      Then(ReadErrorCounter(s3), LAMBDA s4 :
        IF s4.buf[1] < s2.buf[1]
        THEN {Res("PIN_ERROR", [s4 EXCEPT !.i.pin_ok = FALSE])}
        ELSE Ok([s4 EXCEPT !.i.pin = p, !.i.pin_ok = TRUE,
                           !.i.pin_needed = FALSE])))))

\* ICC_Sync_Read (lines 192-222).
Read(st, a, n) ==
  Then(Reactivate(st), LAMBDA s1 :
  Then(SetAddress(s1), LAMBDA s2 :
  Then(ReadBuffer(s2, a, n), LAMBDA s3 :
  Deactivate(s3))))

\* (Mutation helper) a pass that goes on writing when the re-entry of the
\* PIN failed, without the "if (ret != ICC_SYNC_OK) return ret;".
WritePassRepinUnchecked(st, addr, tw, d) ==
  Then(IF NeedsActivate(st.i)
       THEN Then(ActivateICC(st), LAMBDA s :
              LET s1 == [s EXCEPT !.i.active = TRUE]
              IN IF Repin(s1.i)
                 THEN {Res("OK", r.st) : r \in EnterPin(s1, s1.i.pin)}
                 ELSE Ok(s1))
       ELSE Ok(st), LAMBDA s2 :
  Then(SetAddress(s2), LAMBDA s3 :
  Then(WriteBuffer(s3, addr, tw, d), LAMBDA s4 :
  Then(Deactivate(s4), LAMBDA s5 :
  Read(s5, addr, tw)))))

\* One pass of the do-while of ICC_Sync_Write: re-activate (and give a 2W
\* or 3W card its PIN again), set the address, write, deactivate, read back.
WritePass(st, addr, tw, d) ==
  Then(IF NeedsActivate(st.i)
       THEN Then(ActivateICC(st), LAMBDA s :
              LET s1 == [s EXCEPT !.i.active = TRUE]
              IN IF Repin(s1.i) THEN EnterPin(s1, s1.i.pin) ELSE Ok(s1))
       ELSE Ok(st), LAMBDA s2 :
  Then(SetAddress(s2), LAMBDA s3 :
  Then(WriteBuffer(s3, addr, tw, d), LAMBDA s4 :
  Then(Deactivate(s4), LAMBDA s5 :
  Read(s5, addr, tw)))))

\* The do-while: repeat while the data read back differs and ++retries <
\* max_retries; RO_ERROR when retries reached max_retries.
RECURSIVE Burst(_, _, _, _, _, _)
Burst(st, addr, tw, d, retries, maxr) ==
  Then(WritePass(st, addr, tw, d), LAMBDA s :
    IF s.buf = [k \in 1..tw |-> d] THEN Ok(s)
    ELSE IF retries + 1 < maxr THEN Burst(s, addr, tw, d, retries + 1, maxr)
    ELSE {Res("RO_ERROR", s)})

\* to_write: what fits in MAX_TRANSMIT, in the data left and in the page.
ToWrite(i, a, n, written) ==
  LET at == a + written
      fit == ((at | PageMask(i)) + 1) - at
      left == n - written
  IN IF MaxTransmit < left THEN (IF MaxTransmit < fit THEN MaxTransmit ELSE fit)
     ELSE IF left < fit THEN left ELSE fit

RECURSIVE Bursts(_, _, _, _, _, _)
Bursts(st, a, n, d, written, maxr) ==
  IF written >= n THEN Ok(st)
  ELSE LET tw == ToWrite(st.i, a, n, written)
       IN Then(Burst(st, a + written, tw, d, 0, maxr), LAMBDA s :
                 Bursts(s, a, n, d, written + tw, maxr))

\* ICC_Sync_Write (lines 224-327): I2C writes longer than
\* ICC_SYNC_I2C_RETRY_TRIGGER (1) get ICC_SYNC_I2C_MAX_RETRIES (2) passes.
Write(st, a, n, d) ==
  LET maxr == IF n > 1 /\ st.i.type \in I2C THEN 2 ELSE 1
  IN Bursts(st, a, n, d, 0, maxr)

\* ICC_Sync_ChangePin (lines 380-415).
ChangePin(st, p) ==
  IF st.i.type \in I2C THEN Ok(st)
  ELSE
    Then(IF NeedsActivate(st.i)
         THEN Then(ActivateICC(st), LAMBDA s :
                LET s1 == [s EXCEPT !.i.active = TRUE]
                IN IF Repin(s1.i) THEN EnterPin(s1, s1.i.pin) ELSE Ok(s1))
         ELSE Ok(st), LAMBDA s2 :
    Then(WritePin(s2, p), LAMBDA s3 :
    Ok([s3 EXCEPT !.i.pin = p, !.i.pin_ok = TRUE, !.i.pin_needed = FALSE])))

\* The status bit 0x10 after addressing in I2C short mode; when
\* IFD_Towitoko_GetStatus fails, status[0] is uninitialised.
StatusSaysI2C(st) == IF IfdFaults THEN BOOLEAN ELSE {st.c.kind \in I2C}

\* orig[0] after an ICC_Sync_Read whose result is ignored: uninitialised
\* if the read failed.
ReadResult(r) == IF r.ret = "OK" THEN {r.st.buf[1]} ELSE Vals

\* modif[0]: a byte that differs from orig[0] (lines 524-529).
Modif(b) == IF b = \hFF THEN \h01 ELSE IF b = \h00 THEN \hFE ELSE 255 - b

\* After the test write w of byte 0: restore orig if it verified (its
\* result ignored), else take the card for I2C long; then power up (its
\* result ignored).
ProbeByteZero(orig, w) ==
  LET s4 == IF w.ret = "OK" THEN {x.st : x \in Write(w.st, 0, 1, orig)}
            ELSE {[w.st EXCEPT !.i.type = "I2C_LONG"]}
  IN {Res("OK", s5) : s5 \in UNION {Raw(s, [s EXCEPT !.c.powered = TRUE]) : s \in s4}}

\* The protocol type ICC_Sync_CreateAtr (lines 632-664) writes for a card
\* type (lines 640-644).
TypeProtocol(type) ==
  CASE type = "2W" -> \h0A [] type = "3W" -> \h09 [] OTHER -> \h08

\* The H2 it writes for each memory length (lines 647-654).
LengthCodes ==
  (256 :> \h13) @@ (512 :> \h1B) @@ (1024 :> \h23) @@ (2048 :> \h2B) @@
  (4096 :> \h33) @@ (8192 :> \h3B) @@ (16384 :> \h43) @@ (32768 :> \h4B)

\* The H2 of a length one table entry off (mutation of LengthCode).
LengthCodeTwin(len) ==
  IF len = 4096 THEN \h2B
  ELSE IF len \in DOMAIN LengthCodes THEN LengthCodes[len] ELSE \h4B

\* Any length not in the table is written as 32768 bytes.
LengthCode(len) ==
  IF len \in DOMAIN LengthCodes THEN LengthCodes[len] ELSE \h4B

\* ICC_Sync_CreateAtr: the four header bytes given to ATR_Sync_Init for a
\* card without an ATR: general structure, category indicator 0x10, DIR
\* data reference 0x84.
CreateAtr(type, len) ==
  <<16 * TypeProtocol(type) + \h02, LengthCode(len), \h10, \h84>>

\* ICC_Sync_GetAtr (lines 468-472): the card's ATR, or the one that
\* ICC_Sync_CreateAtr makes at the end of a successful init of a card
\* without one.  Type and length do not change after init, so making it
\* from them when asked gives the object made then.
Atr(st) ==
  IF st.i.atr
  THEN [h1 |-> CardH1(st.c.kind), h2 |-> st.c.h2, h3 |-> st.c.h3,
        h4 |-> st.c.h4]
  ELSE AtrOf(CreateAtr(st.i.type, st.i.length))

\* The card type ICC_Sync_ProbeCardType takes from an ATR's protocol type
\* (lines 489-500); "NONE" where it reports DETECT_ERROR.
AtrType(p) ==
  CASE p = \h09 -> "3W" [] p = \h0A -> "2W" [] p = \h08 -> "I2C_SHORT"
    [] OTHER -> "NONE"

\* ICC_Sync_ProbeCardType (lines 478-561).  With an ATR the type is the
\* ATR's.  Without one: address 0 in I2C short mode, read the status,
\* power down (results ignored); on an I2C status, read byte 0, write a
\* different value there and, if that verifies, write the byte read back;
\* if it does not, the card is I2C long.  Then power up again (ignored).
ProbeCardType(st) ==
  IF st.i.atr
  THEN LET type == AtrType(ProtocolType(Atr(st)))
       IN IF type # "NONE" THEN Ok([st EXCEPT !.i.type = type])
          ELSE {Res("DETECT_ERROR", st)}
  ELSE
    UNION {IF ~i2c THEN {Res("DETECT_ERROR", s1)}
           ELSE UNION {UNION {UNION {ProbeByteZero(orig, w) :
                                       w \in Write(r.st, 0, 1, Modif(orig))} :
                                orig \in ReadResult(r)} :
                         r \in Read([s1 EXCEPT !.i.type = "I2C_SHORT"], 0, 1)} :
           s1 \in Raw(st, [st EXCEPT !.c.powered = FALSE, !.c.unlocked = FALSE]),
           i2c \in StatusSaysI2C(st)}

\* The bounds of the doubling search of ICC_Sync_ProbeMemoryLength
\* without an ATR (lines 580-593): I2C long cards from 2048 to 32768
\* bytes, any other card from 256 to 2048.
SearchBounds(type) ==
  IF type = "I2C_LONG" THEN [min |-> 2048, max |-> 32768]
  ELSE [min |-> 256, max |-> 2048]

\* The lengths the loop (lines 595-604) can stop at: min, doubled until
\* the status says the end of the memory was passed, or max.
SearchLengths(type) ==
  LET b == SearchBounds(type)
  IN {l \in {b.min * 2 ^ k : k \in 0..7} : l <= b.max}

\* ICC_Sync_ProbeMemoryLength (lines 563-617): with an ATR the length is
\* read from it.  Without one, each step of the doubling search addresses
\* the card, reads the status, powers it down and up again (results
\* ignored); the power the last step leaves is modelled, and the length
\* found is taken to be the card's, MemLen.
ProbeMemoryLength(st) ==
  IF st.i.atr
  THEN Ok([st EXCEPT !.i.length = MemoryLength(Atr(st))])
  ELSE {Res("OK", [s2 EXCEPT !.i.length = MemLen]) :
          s2 \in UNION {Raw(s1, [s1 EXCEPT !.c.powered = TRUE]) :
                        s1 \in Raw(st, [st EXCEPT !.c.powered = FALSE,
                                                   !.c.unlocked = FALSE])}}

\* ICC_Sync_ProbePagemode (lines 619-628).
ProbePagemode(st) ==
  Ok([st EXCEPT !.i.pagemode = IF st.i.type = "I2C_LONG" THEN LongPagemode
                                ELSE 0])

\* An error of a probe clears the object (ICC_Sync_Clear) and is returned.
OrClear(rs) == {IF r.ret = "OK" THEN r ELSE Res(r.ret, Clear(r.st)) : r \in rs}

\* ICC_Sync_Init (lines 91-172): LED red, baud rate, activate, reset; then
\* the object is set up active with its PIN needed, the probes run, the
\* LED goes green and a card that needs it is deactivated.
InitIcc(st) ==
  Then(SetLED(st), LAMBDA s1 :
  Then(SetBaudrate(s1), LAMBDA s2 :
  Then(ActivateICC(s2), LAMBDA s3 :
  Then(ResetSyncICC(s3), LAMBDA s4 :
  LET s5 == [s4 EXCEPT !.i.active = TRUE, !.i.pin_ok = FALSE,
                       !.i.pin_needed = TRUE]
  IN Then(OrClear(ProbeCardType(s5)), LAMBDA s6 :
     Then(OrClear(ProbeMemoryLength(s6)), LAMBDA s7 :
     Then(OrClear(ProbePagemode(s7)), LAMBDA s8 :
     Then(OrClear(SetLED(s8)), LAMBDA s9 :
       IF NeedsDeactivate(s9.i)
       THEN Then(OrClear(DeactivateICC(s9)), LAMBDA s10 :
                   Ok([s10 EXCEPT !.i.active = FALSE]))
       ELSE Ok(s9)))))))))

\* ICC_Sync_Close (lines 174-190): deactivate, LED off, clear.
CloseIcc(st) ==
  Then(DeactivateICC(st), LAMBDA s1 :
  Then(SetLED(s1), LAMBDA s2 : Ok(Clear(s2))))

\* ICC_Sync_GetLength (lines 444-448): icc->length.
IccLength(st) == st.i.length

-----------------------------------------------------------------------------
(* Actions: one per ICC_Sync call                                           *)

St == [c |-> card, i |-> icc, buf |-> <<>>]

\* Take one of the results rs of a call.
Apply(rs, phase(_)) ==
  \E r \in rs :
    /\ card' = r.st.c
    /\ icc' = [r.st.i EXCEPT !.phase = phase(r.ret)]
    /\ ret' = r.ret

Call(op, a, n, d, p) == call' = [op |-> op, a |-> a, n |-> n, d |-> d, p |-> p]

Ready == icc.phase = "READY"

\* ICC_Sync_New (lines 71-82) for the next probe of the slot, once the
\* previous object was deleted.
ICC_Sync_New ==
  /\ icc.phase \in {"FAILED", "CLOSED"}
  /\ icc' = Cleared
  /\ Call("New", 0, 0, 0, ZeroPin)
  /\ UNCHANGED <<card, ret>>

ICC_Sync_Init ==
  /\ icc.phase = "NEW"
  /\ Apply(InitIcc(St), LAMBDA r : IF r = "OK" THEN "READY" ELSE "FAILED")
  /\ Call("Init", 0, 0, 0, ZeroPin)

\* The slot deletes the object whatever Close returns.
ICC_Sync_Close ==
  /\ Ready
  /\ Apply(CloseIcc(St), LAMBDA r : "CLOSED")
  /\ Call("Close", 0, 0, 0, ZeroPin)

-----------------------------------------------------------------------------

\* A card of kind k: 2W and 3W cards answer reset with an ATR, I2C long
\* cards without, I2C short cards either way; "OTHER" has an ATR naming no
\* known type.
HasAtr(k) ==
  CASE k \in {"2W", "3W", "OTHER"} -> {TRUE}
    [] k = "I2C_LONG"              -> {FALSE}
    [] OTHER                       -> BOOLEAN

Init ==
  /\ \E k \in CardKinds, h \in BOOLEAN, img \in Images :
       /\ h \in HasAtr(k)
       /\ card = [kind |-> k, hasAtr |-> h, powered |-> FALSE,
                  unlocked |-> FALSE, trials |-> MaxTrials, pin |-> CardPin,
                  mem |-> img.mem, h2 |-> img.h2, h3 |-> img.h3,
                  h4 |-> img.h4]
  /\ icc = Cleared
  /\ ret = "OK"
  /\ call = [op |-> "None", a |-> 0, n |-> 0, d |-> 0, p |-> ZeroPin]

Next == ICC_Sync_New \/ ICC_Sync_Init \/ ICC_Sync_Close

Spec == Init /\ [][Next]_vars

-----------------------------------------------------------------------------
(* Properties                                                              *)

TypeOK ==
  /\ card.powered \in BOOLEAN /\ card.unlocked \in BOOLEAN
  /\ card.trials \in 0..MaxTrials /\ card.pin \in Pins
  /\ card.mem \in [0..MemLen-1 -> 0..255]
  /\ icc.phase \in {"NEW", "READY", "FAILED", "CLOSED"}
  /\ icc.pin \in Pins \cup {ZeroPin}
  /\ ret \in {"OK", "IFD_ERROR", "DETECT_ERROR", "RO_ERROR", "PIN_ERROR",
              "BLOCKED_ERROR"}

\* The ATR ICC_Sync_CreateAtr makes for a card that answered reset
\* without one is the card's ATR for every CT-API caller (CT_Slot_GetAtr,
\* ATR_Sync_GetRaw).  Once Init has typed such a card, then for every
\* length the doubling search of ICC_Sync_ProbeMemoryLength can find for
\* that type, the fake ATR's raw bytes pass ATR_Sync_Init's structure
\* checks, their H2 decodes (ATR_Sync_GetNumberOfDataUnits,
\* _GetLengthOfDataUnits) to that length, and their H1 to the bus
\* ICC_Sync_ProbeCardType would type the card by (SDA for either I2C
\* type).
CreatedAtrDescribesCard ==
  icc.phase = "READY" /\ ~icc.atr =>
    \A len \in SearchLengths(icc.type) :
      LET raw == AtrRaw(AtrOf(CreateAtr(icc.type, len)))
          atr == AtrOf(raw)
      IN /\ AtrSyncInit(raw, AtrSyncSize) = "OK"
         /\ MemoryLength(atr) = len
         /\ AtrType(ProtocolType(atr)) =
              IF icc.type \in I2C THEN "I2C_SHORT" ELSE icc.type

\* Spec 7: "the engine never leaves the card activated on an error path in
\* init".  After ICC_Sync_Init fails the card is powered down.
InitErrorPowersDown ==
  call.op = "Init" /\ ret # "OK" => ~card.powered
=============================================================================
