---------------------------- MODULE ProtocolSync ----------------------------
(***************************************************************************)
(* The synchronous card protocol of src/src/driver/protocol_sync.c on top *)
(* of the ICC_Sync object of IccSync, as the CT slot drives them          *)
(* (src/src/ct-api/ct_slot.c): CT_Slot_Probe makes and initialises the    *)
(* ICC_Sync object and, when that succeeds, the Protocol_Sync object;     *)
(* CT_Slot_Command hands every APDU to Protocol_Sync_Command; CT_Slot_    *)
(* Release closes the protocol and then the ICC.  Each of these runs to    *)
(* completion and is one action.                                          *)
(*                                                                         *)
(* Protocol_Sync selects a data section of the card's memory (path,       *)
(* length): the whole memory (MF), the bytes before the DIR named in the  *)
(* ATR, the DIR itself, or the data object of an application found by its *)
(* AID in the BER-TLV DIR (TlvObject, reading the card through            *)
(* Protocol_Sync_GetData = ICC_Sync_Read).  READ and UPDATE BINARY work    *)
(* inside that section, VERIFY and CHANGE REFERENCE DATA present PINs.    *)
(* An APDU is abstracted to its instruction and the fields the code uses: *)
(* an offset (P1 P2), Le, and data that is an FID, an AID, a PIN pair or  *)
(* Lc copies of one byte.                                                 *)
(***************************************************************************)
EXTENDS IccSync, IfdTowitoko

CONSTANTS
  Offsets,   \* offsets P1 P2 of READ and UPDATE BINARY
  Les,       \* Le of READ BINARY
  Lcs,       \* number of data bytes of UPDATE BINARY
  Datas,     \* the byte UPDATE BINARY writes, Lc times
  Fids,      \* FIDs of SELECT FILE by FID
  Aids,      \* AIDs (byte sequences) of SELECT FILE by AID
  PathLens,  \* values the uninitialised path_length may hold
  MaxUpdates \* UPDATE BINARY commands the host sends to a card

VARIABLES
  ps,   \* the Protocol_Sync object: [path, length] of the selected section
  rsp,      \* the last response: [sw, ret (PROTOCOL_SYNC_xxx), data]
  updates   \* UPDATE BINARY commands sent so far (bounded by MaxUpdates)

PsVars == <<card, icc, ret, call, ps, rsp, updates>>

\* Protocol_Sync_GetData (lines 667-671): a TLV fetch is an ICC_Sync_Read.
GetDataOp(st, a, n) == Read(st, a, n)

Tlv == INSTANCE TlvObject WITH GetData <- GetDataOp

\* PROTOCOL_SYNC_TLV (lines 47-50): the data object at an address of the
\* card's memory.
TlvAt(st, a) == Tlv!New(st, IccLength(st), a % 65536)

\* An outcome of a command: the ICC state after it, the status word, the
\* protocol result, the data returned, the section selected (if any) and
\* what the last ICC_Sync call returned.
NoFile == [found |-> FALSE, path |-> 0, length |-> 0]
File(p, l) == [found |-> TRUE, path |-> p, length |-> l]

Out(st, sw, pret, data, file, iret) ==
  [st |-> st, sw |-> sw, ret |-> pret, data |-> data, file |-> file,
   iret |-> iret]

\* 6A82, "file not found".
NotFound(st) == {Out(st, \h6A82, "OK", <<>>, NoFile, ret)}

\* (Mutation helper) the section taken from the value, not the tag.
FoundAtValue(t) == File(t.value, Tlv!GetRawLength(t))

\* A data object found is selected from its tag on, raw length included.
Found(t) == File(Tlv!GetAddress(t), Tlv!GetRawLength(t))

\* The objects rs of a TLV step, selected when found, 6A82 when NULL.
SelectOr(rs) ==
  UNION {IF r.tlv.found THEN {Out(r.st, \h9000, "OK", <<>>, Found(r.tlv), ret)}
         ELSE NotFound(r.st) : r \in rs}

\* The address in the value of a PATH object: one byte when path_length
\* < 2 (path[0], never written when path_length is 0), else the last two.
PathAddrs(g) ==
  IF g.len = 0 THEN Vals
  ELSE IF g.len = 1 THEN {g.st.buf[1]}
  ELSE {g.st.buf[g.len - 1] * 256 + g.st.buf[g.len]}

\* One turn of the while loop of the multi-application case (lines
\* 315-343) and the turns after it: the next template of the sequence, its
\* AID compared over aid_length (which the comparison shortens for the
\* turns that follow), its PATH read with the uninitialised path_length,
\* and the object at that path.
RECURSIVE SeekApp(_, _, _, _, _)
SeekApp(dir, tmpl, st, aid, alen) ==
  UNION {IF ~it.tlv.found THEN NotFound(it.st)
         ELSE UNION {
           IF ~a.tlv.found THEN SeekApp(dir, it.tlv, a.st, aid, alen)
           ELSE UNION {
             IF ~c.ok THEN SeekApp(dir, it.tlv, c.st, aid, c.len)
             ELSE UNION {
               IF ~p.tlv.found THEN SeekApp(dir, it.tlv, p.st, aid, c.len)
               ELSE UNION {
                 IF ~g.ok THEN SeekApp(dir, it.tlv, g.st, aid, c.len)
                 ELSE UNION {
                   IF app.tlv.found
                   THEN {Out(app.st, \h9000, "OK", <<>>, Found(app.tlv), ret)}
                   ELSE SeekApp(dir, it.tlv, app.st, aid, c.len) :
                   app \in UNION {TlvAt(g.st, x) : x \in PathAddrs(g)}} :
                 g \in UNION {Tlv!GetValue(p.tlv, p.st, n) : n \in PathLens}} :
               p \in Tlv!GetObjectByTag(it.tlv, c.st, \h51)} :
             c \in Tlv!CompareValue(a.tlv, a.st, aid, alen)} :
           a \in Tlv!GetObjectByTag(it.tlv, it.st, \h4F)} :
         it \in Tlv!Iterate(dir, tmpl, st)}

\* SELECT FILE by AID (lines 231-407): the DIR is one AID object followed
\* by the application's data object, a template holding the AID followed
\* by it, or a sequence of templates holding an AID and a PATH.
SelectAid(st, aid) ==
  LET atr == Atr(st)
      alen == IF Len(aid) < 16 THEN Len(aid) ELSE 16
  IN IF ~HasDir(atr) THEN NotFound(st)
     ELSE UNION {
       IF ~d.tlv.found THEN NotFound(d.st)
       ELSE IF d.tlv.tag = \h4F
       THEN UNION {IF c.ok THEN SelectOr(Tlv!Shift(d.tlv, c.st))
                   ELSE NotFound(c.st) :
                   c \in Tlv!CompareValue(d.tlv, d.st, aid, alen)}
       ELSE IF d.tlv.tag = \h61
       THEN UNION {
              IF ~a.tlv.found THEN NotFound(a.st)
              ELSE UNION {IF c.ok THEN SelectOr(Tlv!Shift(d.tlv, c.st))
                          ELSE NotFound(c.st) :
                          c \in Tlv!CompareValue(a.tlv, a.st, aid, alen)} :
              a \in Tlv!GetObjectByTag(d.tlv, d.st, \h4F)}
       ELSE IF d.tlv.tag = \h30 THEN SeekApp(d.tlv, Tlv!NoTlv, d.st, aid, alen)
       ELSE NotFound(d.st) :
       d \in TlvAt(st, DirRef(atr))}

\* SELECT FILE by FID (lines 151-228): the MF (3F00), the bytes between
\* the header and the DIR (2F01), the DIR (2F00).
SelectFid(st, fid) ==
  LET atr == Atr(st) IN
  IF fid = \h3F00
  THEN {Out(st, \h9000, "OK", <<>>, File(0, IccLength(st)), ret)}
  ELSE IF fid = \h2F01
  THEN IF HasDir(atr) /\ DirRef(atr) > 4 /\ IccLength(st) > 4
       THEN {Out(st, \h9000, "OK", <<>>,
                 File(4, (IF DirRef(atr) < IccLength(st) THEN DirRef(atr)
                          ELSE IccLength(st)) - 4), ret)}
       ELSE NotFound(st)
  ELSE IF fid = \h2F00
  THEN IF HasDir(atr) THEN SelectOr(TlvAt(st, DirRef(atr))) ELSE NotFound(st)
  ELSE NotFound(st)

\* Protocol_Sync_SelectFile (lines 144-421): P1 00 selects by FID, 04 by
\* AID, anything else is not found; the result is always PROTOCOL_SYNC_OK.
SelectFile(st, sel) ==
  IF sel.p1 = 0 THEN SelectFid(st, sel.fid)
  ELSE IF sel.p1 = 4 THEN SelectAid(st, sel.aid)
  ELSE NotFound(st)

\* (Mutation helper) the bytes left counted one too many.
AvailableOffByOne(p, off) ==
  IF p.length - off + 1 > 0 THEN p.length - off + 1 ELSE 0

\* available = MAX(length - offset, 0) (lines 431 and 500).
Available(p, off) == IF p.length - off > 0 THEN p.length - off ELSE 0

\* Protocol_Sync_ReadBinary (lines 423-490): Le, or everything available
\* when the APDU says so (APDU_Cmd_Le_Available, all),
\* cut to what is available; 6282 when Le asked for more.  The cut to
\* APDU_MAX_RSP_SIZE - 2 never applies to a memory of MemLen bytes.
ReadBinary(st, p, off, all, le) ==
  LET avail == Available(p, off)
      expected == IF all THEN avail ELSE le
      n == IF expected > avail THEN avail ELSE expected
  IN {IF r.ret = "OK"
      THEN Out(r.st, IF expected > avail THEN \h6282 ELSE \h9000, "OK",
               r.st.buf, NoFile, r.ret)
      ELSE Out(r.st, \h6501, "ICC_ERROR", <<>>, NoFile, r.ret) :
      r \in Read(st, p.path + off, n)}

\* Protocol_Sync_UpdateBinary (lines 492-542): the bytes that fit in the
\* section are written; 6200 on a write that did not verify, on any other
\* error (with ICC_ERROR) and when fewer bytes fitted than were given.
UpdateBinary(st, p, off, lc, d) ==
  LET avail == Available(p, off)
      n == IF avail < lc THEN avail ELSE lc
  IN {Out(r.st,
          IF r.ret = "OK" /\ ~(avail < lc) THEN \h9000 ELSE \h6200,
          IF r.ret \in {"OK", "RO_ERROR"} THEN "OK" ELSE "ICC_ERROR",
          <<>>, NoFile, r.ret) :
      r \in Write(st, p.path + off, n, d)}

\* The status of a PIN entry (lines 560-582 and 604-631): 63Cx with x the
\* trials left, 6983 when blocked, 6300 and ICC_ERROR on other errors.
PinStatus(r) ==
  Out(r.st,
      CASE r.ret = "PIN_ERROR"     -> \h63C0 + (r.st.buf[1] % 16)
        [] r.ret = "BLOCKED_ERROR" -> \h6983
        [] r.ret = "OK"            -> \h9000
        [] OTHER                   -> \h6300,
      IF r.ret \in {"OK", "PIN_ERROR", "BLOCKED_ERROR"} THEN "OK"
      ELSE "ICC_ERROR", <<>>, NoFile, r.ret)

\* Protocol_Sync_Verify (lines 544-589).
Verify(st, p) == {PinStatus(r) : r \in EnterPin(st, p)}

\* Protocol_Sync_ChangeVerifyData (lines 591-652): the old PIN is entered,
\* and only when that succeeds the new one is written.
ChangeVerifyData(st, p, np) ==
  UNION {IF r.ret # "OK" THEN {PinStatus(r)}
         ELSE {IF c.ret = "OK" THEN Out(c.st, \h9000, "OK", <<>>, NoFile, c.ret)
               ELSE Out(c.st, \h6300, "ICC_ERROR", <<>>, NoFile, c.ret) :
               c \in ChangePin(r.st, np)} :
         r \in EnterPin(st, p)}

\* Protocol_Sync_BadCommand (lines 654-665): 6E00, "class not supported".
BadCommand(st) == {Out(st, \h6E00, "OK", <<>>, NoFile, ret)}

-----------------------------------------------------------------------------
(* Actions: the slot's calls                                               *)

\* The commands the host may send; SELECT FILE by FID, by AID, or with a
\* selection control the code does not know.
Selections ==
  {[p1 |-> 0, fid |-> f, aid |-> <<>>] : f \in Fids}
  \cup {[p1 |-> 4, fid |-> 0, aid |-> a] : a \in Aids}
  \cup {[p1 |-> 8, fid |-> 0, aid |-> <<>>]}

\* The APDU of the step.
Apdu(ins, a, n, d, all, p, np) ==
  call' = [op |-> ins, a |-> a, n |-> n, d |-> d, all |-> all, p |-> p,
           np |-> np]

\* Take one outcome of a command: the selected section changes only when
\* a file was found.
Respond(outs) ==
  \E o \in outs :
    /\ card' = o.st.c
    /\ icc' = o.st.i
    /\ ret' = o.iret
    /\ rsp' = [sw |-> o.sw, ret |-> o.ret, data |-> o.data]
    /\ ps' = IF o.file.found THEN [path |-> o.file.path, length |-> o.file.length]
             ELSE ps

\* CT_Slot_Probe for a synchronous card (ct_slot.c lines 134-139 and
\* 248-283): ICC_Sync_New and ICC_Sync_Init on a new object; when the
\* card is initialised, Protocol_Sync_New and Protocol_Sync_Init (lines
\* 69-92) select the MF.
Probe ==
  /\ icc.phase \in {"NEW", "FAILED", "CLOSED"}
  /\ \E r \in InitIcc([c |-> card, i |-> Cleared, buf |-> <<>>]) :
       /\ card' = r.st.c
       /\ icc' = [r.st.i EXCEPT !.phase = IF r.ret = "OK" THEN "READY"
                                          ELSE "FAILED"]
       /\ ret' = r.ret
       /\ ps' = IF r.ret = "OK" THEN [path |-> 0, length |-> IccLength(r.st)]
                ELSE [path |-> 0, length |-> 0]
  /\ Apdu("Probe", 0, 0, 0, FALSE, ZeroPin, ZeroPin)
  /\ UNCHANGED <<rsp, updates>>

\* CT_Slot_Release (ct_slot.c lines 289-343): Protocol_Sync_Close (lines
\* 126-132, which clears the object) and then ICC_Sync_Close.
Release ==
  /\ Ready
  /\ ps' = [path |-> 0, length |-> 0]
  /\ Apply(CloseIcc(St), LAMBDA r : "CLOSED")
  /\ Apdu("Release", 0, 0, 0, FALSE, ZeroPin, ZeroPin)
  /\ UNCHANGED <<rsp, updates>>

\* Protocol_Sync_Command (lines 94-124) for each instruction; ICC_Sync_
\* BeginTransmission sets the reader's baud rate, a reader setting no
\* state here depends on, and its result is ignored.
SelectFileCmd ==
  /\ Ready
  /\ \E sel \in Selections :
       /\ Respond(SelectFile(St, sel))
       /\ Apdu("SelectFile", 0, 0, 0, FALSE, ZeroPin, ZeroPin)
  /\ UNCHANGED updates

ReadBinaryCmd ==
  /\ Ready
  /\ \E off \in Offsets, all \in BOOLEAN :
     \E le \in IF all THEN {0} ELSE Les :
       /\ Respond(ReadBinary(St, ps, off, all, le))
       /\ Apdu("ReadBinary", off, le, 0, all, ZeroPin, ZeroPin)
  /\ UNCHANGED updates

UpdateBinaryCmd ==
  /\ Ready
  /\ updates < MaxUpdates
  /\ \E off \in Offsets, lc \in Lcs, d \in Datas :
       /\ Respond(UpdateBinary(St, ps, off, lc, d))
       /\ Apdu("UpdateBinary", off, lc, d, FALSE, ZeroPin, ZeroPin)
  /\ updates' = updates + 1

VerifyCmd ==
  /\ Ready
  /\ \E p \in Pins :
       /\ Respond(Verify(St, p))
       /\ Apdu("Verify", 0, 0, 0, FALSE, p, ZeroPin)
  /\ UNCHANGED updates

ChangeVerifyDataCmd ==
  /\ Ready
  /\ \E p, np \in Pins :
       /\ Respond(ChangeVerifyData(St, p, np))
       /\ Apdu("ChangeVerifyData", 0, 0, 0, FALSE, p, np)
  /\ UNCHANGED updates

BadCommandCmd ==
  /\ Ready
  /\ Respond(BadCommand(St))
  /\ Apdu("BadCommand", 0, 0, 0, FALSE, ZeroPin, ZeroPin)
  /\ UNCHANGED updates

\* A card in the slot and no object yet.
PsInit ==
  /\ \E k \in CardKinds, h \in BOOLEAN, img \in Images :
       /\ h \in HasAtr(k)
       /\ card = [kind |-> k, hasAtr |-> h, powered |-> FALSE,
                  unlocked |-> FALSE, trials |-> MaxTrials, pin |-> CardPin,
                  mem |-> img.mem, h2 |-> img.h2, h3 |-> img.h3,
                  h4 |-> img.h4]
  /\ icc = Cleared
  /\ ret = "OK"
  /\ call = [op |-> "None", a |-> 0, n |-> 0, d |-> 0, all |-> FALSE,
             p |-> ZeroPin, np |-> ZeroPin]
  /\ ps = [path |-> 0, length |-> 0]
  /\ rsp = [sw |-> 0, ret |-> "OK", data |-> <<>>]
  /\ updates = 0

PsNext ==
  \/ Probe \/ Release
  \/ SelectFileCmd \/ ReadBinaryCmd \/ UpdateBinaryCmd
  \/ VerifyCmd \/ ChangeVerifyDataCmd \/ BadCommandCmd

PsSpec == PsInit /\ [][PsNext]_PsVars

-----------------------------------------------------------------------------
(* Properties                                                              *)

PsTypeOK ==
  /\ card.trials \in 0..MaxTrials /\ card.pin \in Pins
  /\ card.mem \in [0..MemLen-1 -> 0..255]
  /\ icc.phase \in {"NEW", "READY", "FAILED", "CLOSED"}
  /\ ps \in [path : 0..65535, length : 0..MemLen]
  /\ rsp.ret \in {"OK", "ICC_ERROR"}
  /\ rsp.data \in Seq(0..255)

\* The ICC object is in step with the card: it drives the card in the
\* card's own bus protocol, and a card it takes for active is powered.
\* Commands on an object out of step (hazard icc_sync.c:521) read and
\* write whatever the line gives and are not judged below.
InSync == icc.type = card.kind /\ (icc.active => card.powered)

\* Every section Protocol_Sync_SelectFile selects, by FID or through the
\* TLV DIR and the paths of its templates, lies inside the card's memory,
\* so READ and UPDATE BINARY never address past it.
SelectedFileInMemory == Ready => ps.path + ps.length <= icc.length

\* A READ BINARY that succeeds returns no byte past the selected section,
\* exactly the bytes asked for when it answers 9000, and, on a card in
\* step, the bytes of the section from the offset on.
ReadEffect ==
  [][call'.op = "ReadBinary" /\ rsp'.ret = "OK" =>
       LET off == call'.a
           data == rsp'.data
       IN /\ off + Len(data) <= ps.length \/ data = <<>>
          /\ rsp'.sw = \h9000 /\ ~call'.all => Len(data) = call'.n
          /\ InSync => \A k \in 1..Len(data) :
                         data[k] = card.mem[ps.path + off + k - 1]]_PsVars

\* On a card in step, UPDATE BINARY changes no byte outside the selected
\* section, whatever bursts, retries and faults ICC_Sync_Write goes
\* through, and when it answers 9000 every byte given was stored.
UpdateEffect ==
  [][call'.op = "UpdateBinary" /\ InSync =>
       /\ \A x \in 0..MemLen-1 :
            x < ps.path \/ x >= ps.path + ps.length => card'.mem[x] = card.mem[x]
       /\ rsp'.sw = \h9000 =>
            \A k \in 0..call'.n-1 : card'.mem[ps.path + call'.a + k] = call'.d
    ]_PsVars

\* VERIFY and CHANGE REFERENCE DATA answer 9000 on a 2-wire or 3-wire
\* card in step only for the card's PIN, and a change that answers 9000
\* leaves the card with the new PIN.
VerifyOkMeansPin ==
  [][call'.op \in {"Verify", "ChangeVerifyData"} /\ rsp'.sw = \h9000
     /\ card.kind \in {"2W", "3W"} /\ InSync =>
       /\ call'.p = card.pin
       /\ call'.op = "ChangeVerifyData" => card'.pin = call'.np]_PsVars

\* A command that costs the card a PIN trial never answers 9000: a trial
\* spent by a wrong PIN, by a reply lost between the frames of
\* IFD_Towitoko_EnterPin, or by Write re-entering a stored PIN that a
\* lost reply to CHANGE REFERENCE DATA left stale, is always reported to
\* the host.
TrialLossReported ==
  [][card'.trials < card.trials => rsp'.sw # \h9000]_PsVars

\* The card's power state was set by a reader command the reader accepts:
\* the ActivateICC or DeactivateICC frame that IccSync's power steps stand
\* for carries, as IFD_Towitoko_PrepareCommand sends it at either speed and
\* from either slot, the checksum IFD_Towitoko_Checksum must give it.
PowerFrameAccepted ==
  FrameAccepted(IF card.powered THEN ActivateFrame ELSE DeactivateFrame)

=============================================================================
