# TLA+ models of the Towitoko smartcard reader driver

These modules model the driver in `src/src/` with TLC.  The driver is a stack
of layers.  The PC/SC IFD handler sits at the top and the serial transport at
the bottom:

```
ifdhandler.c   PC/SC entry points, one pthread mutex per reader
  └ CT-API     (ct_api.c, not in src/) → ct_slot.c   probe / release / command per slot
      ├ async ICC (not in src/) → protocol_t0.c      T=0 APDU engine
      └ icc_sync.c              → protocol_sync.c    memory-card file system (TLV directory)
          └ ifd_towitoko.c      reader command layer (checksums, baud rate, bursts)
              └ io_serial.c     termios transport
```

## Survey: components, state, operations, hazards

| Component | Source | State | Operations | What is hard |
|---|---|---|---|---|
| T=0 engine | `driver/protocol_t0.c` | per call: `nulls`, `sent`, `recv`, buffer, ret; the line direction and transmission bracket in the ICC | `Protocol_T0_Command` → Case1/2S/3S/4S/2E/3E/4E → `ExchangeTPDU` | procedure-byte loop against a card that may misbehave; Get Response chains; early returns that skip the final switch; a read of freed memory; the extended loop that never stops on errors |
| IFD handler | `ifd-handler/ifdhandler.c` | `ifdh_context[reader][slot]`, `ifdh_context_mutex[reader]` | Create/Close channel, GetCapabilities, SetProtocolParameters, PowerICC, TransmitToICC, Control, ICCPresence | TransmitToICC and Control unlock before `CT_data`; CloseChannel calls `CT_close` outside the lock; ICCPresence takes no lock; GetCapabilities does not check for NULL |
| CT slot | `ct-api/ct_slot.c` | `icc`, `icc_type`, `protocol`, `protocol_type` | Init, Check, Probe, Release, Command, Close | ownership of the ICC and protocol objects on every error path; `protocol_type` left stale when both probes fail |
| Sync ICC | `driver/icc_sync.c` | `active`, `pin_ok`, `pin_needed`, `type`, `length`, `pagemode`, card memory | Init, Read, Write, EnterPin, ChangePin, ProbeCardType/MemoryLength/Pagemode | error paths after activation; page-bounded bursts; verify-and-retry; byte 0 rewritten while probing |
| Reader layer | `driver/ifd_towitoko.c` | cached baud rate, parity, slot | SetBaudrate, SetParity, LED, status, activate, resets, Transmit/Receive/Switch, sync addressing and bursts, PIN | checksum; reader and host baud rates going apart when one of the two steps fails; the chunk size of Transmit |
| Sync protocol | `driver/protocol_sync.c`, `tlv_object.c` | selected file: `path`, `length` | SelectFile, ReadBinary, UpdateBinary, Verify, ChangeVerifyData | TLV bounds; AID matching with a length that is overwritten between candidates |
| Sync ATR | `driver/atr_sync.c` | four header bytes | getters | pure decoding |
| Serial transport | `driver/io_serial.c` | fd, port settings, cached properties | Read, Write, Get/SetProperties | a cache that can disagree with the port when one of SetProperties' steps fails |
| Tester | `test/tester.c` | none | menu | harness |

Not under `src/` and therefore not modelled: the async ICC, ATR, PPS, APDU,
T=1 and CT-API dispatch sources.  Only their contracts enter the models.
`APDU_Rsp_AppendData` is modelled from the spec and marked `spec_modelled`.

The hazards, each at the line where it bites, are listed in `PROJECT.json`.

## Plan

Modules are built in this order, most important behaviour first:

1. **ProtocolT0** (done), with its abstract specification **T0Command** (done).
   It models the T=0 engine at procedure-byte granularity.
2. **IfdHandler** (done): threads on one reader.  They call the IFDH entry points under
   the per-reader mutex, as the code takes it.  `CT_data` and `CT_close` are
   critical sections.  Properties: no two threads inside the CT layer of one
   reader (spec 5), and no dereference of a freed context.
3. **CtSlot** (done): Init/Check/Probe/Release/Close, the ICC outcomes taken from the reader link (item 7).
   Property: the protocol object exists iff the ICC exists, and the protocol
   type agrees.
4. **IccSync** (done): memory-card init, write bursts with verify and retry, and PIN
   entry over a small card memory.  Properties: the card is deactivated on
   every init error path (spec 7); a write never crosses a page; the driver
   never spends a PIN trial on its own.
5. **IfdTowitoko** (done, partly): the checksum as a RECURSIVE operator,
   checked against its closed form on every frame the code writes out.
   Transmit is called only by the async ICC (not in src/); the async
   reset is part of IfdLink.
6. **ProtocolSync** (done) with **TlvObject** and **AtrSync**: the protocol
   composed with IccSync under the slot's Probe/Command/Release.  Properties:
   the selected section lies inside card memory; READ/UPDATE BINARY stay in
   it; VERIFY's 9000 means the card's PIN.
7. **IfdLink** (done): the serial port, its properties cache and the
   reader's speed and parity, shared by the slots of a terminal and driven
   by CtSlot's Init, Check, Probe, Release and Close.  Properties: Init
   settles the link; an asynchronous probe leaves even parity.

## ProtocolT0: what is modelled

`ProtocolT0.tla` has two layers, each with its own program counter:

- **`xpc`: `Protocol_T0_ExchangeTPDU`.** Its actions follow the code's
  branches:
  - `XBegin` (BeginTransmission and the header, lines 740–769);
  - `XNull`, `XSW1`, `XSW2`, `XAck`, `XNack` and `XOther`, one per branch of
    the procedure-byte loop (777–931);
  - `XSendRest` and `XSendOne`, the data transmits after a switch;
  - `XTimeout`, for any receive that fails;
  - `XFinal`, the final switch, `APDU_Rsp_New` and EndTransmission (933–945).

  The early `return`s at 806, 831 and 885 are `ReturnEarly`.  They skip
  `XFinal`, as in the code.
- **`apc`: `Protocol_T0_Command` and the case handlers.**
  - `Command` dispatches the APDU.
  - `Case3SFirst`, `Case3SReissue` and `Case3SGetResponse` cover Case 3S:
    6Cxx re-issue, the 61xx loop and truncation to Le.
  - `Case4SFirst` and `Case3EFirst`/`Case3EGetResponse` cover Case 4S and
    Case 3E.
  - `ReturnTPDU` covers cases whose result is the exchange's.
  - `Command` starts Case 2E and 4E with `Case2EStart`: a command with
    Lc < 256 goes out as one short TPDU; a longer one as envelopes (INS C2)
    of `EnvSegment` bytes of the raw command.  `Case2EEnvelope` is the
    envelope loop (447–490): on 9000 the next envelope, on any other status
    the card's response, on an error a break.  `Case2EReturn` hands the
    result back to `Protocol_T0_Command` or to Case 4E, and `Case4EFirst`
    and `Case4EThen` are the rest of Case 4E: on 61xx a Get Response for
    MIN (SW2, Le) bytes, on another 6x the response as it is, otherwise a
    Get Response for Le bytes, each through `Call3E`, the entry of Case 3E
    (which goes on through Case 3S when Le <= 256).

  A handler starts an exchange (`Exchange`) and resumes when `xpc = "Done"`.

State and data:

- `line` records the last operation on the line (`tx`, `rx`, or `sw` for
  `ICC_Async_Switch`).
- The card is the environment.  Each procedure byte is a nondeterministic
  class: NULL, an SW1 class (61, 6C, 67, other 6x, 9x), ACK, ~ACK, or other.
  Any read may time out.
- Under `CardCompliant` the card acknowledges only while data remain.
- Under `WriteFaults` any transmit, switch or begin/end transmission may fail.
- The `P3` of the Get Response after a 61xx chain step reads a freed
  `tpdu_rsp` (line 283).  This is undefined behaviour, so `P3` is any byte.
- The raw length of an extended command is its Lc plus one unit for the
  header and the three length bytes (`RawLen`); at this scale a unit is
  about 128 bytes, so a command of Lc = 4 (about 510 bytes) takes three
  envelopes of at most 2 (255) bytes.
- The SW1 class `9x` stands for 0x90 to 0x9F.  Only 0x90 continues the
  envelope loop, so after a `9x` the model lets the loop go on or stop.
- Case 4E calls Case 3E with a Get Response APDU of its own; its Le is
  `e3le`, as Case 3S's is `s3le`, and `env` is Case 2E's offset `i`.

Bounds (`MCProtocolT0.tla`):

| Constant | Value | Real value | Why this is enough |
|---|---|---|---|
| `MaxShortResponse` | 5 | 258 | `ShortLe` (Le = 256) becomes 3.  There is room for a full ACK transfer, a ~ACK overrun into the last two cells, and the SW1-at-edge case. |
| `MaxNulls` | 2 | 200 | — |
| `MaxLc` | 2 | 255 | A short TPDU moves 1 or 2 data bytes. |
| `ExtLc` | 4 | — | Three envelopes, the last one shorter: a segment length off by the offset shows. |
| `ExtLe` | 5 | — | It needs two Get Responses. |
| `MaxRspData` | 6 | — | — |
| `MaxTPDUs` (CONSTRAINT) | 3 | — | It bounds the Get Response chains, which are unbounded in the code. |

`MCView` (a TLC `VIEW`) leaves out the locals that are dead in a state:
the exchange's counters and buffer before it begins and after its
response is built, the TPDU between two APDUs, and each handler's Le, Lx
and envelope offset outside that handler.  Each is written before it is
read again, so the states it merges have the same futures; without it the
compliant run has 38 million states, with it under a million.

No fairness is assumed: all T=0 properties are safety properties.

| Run | Expect | Checks |
|---|---|---|
| `t0_compliant` | pass | `NoTransmitAfterReceive` (spec 4.5: switch before a transmit that follows a receive); `T0CommandRefined`, which checks `T0Command!Spec` under a refinement mapping: an OK result ends with a card status word and has at most Le data bytes.  `TypeOK` is checked by `t0_anycard`, whose behaviours include these. |
| `t0_anycard` | pass | `TypeOK`, `NoBufferOverflow`, for any card and with reader writes failing. |
| `t0_turnaround` | violation | `NoTransmitAfterReceive`: the early returns at 806/831/885 skip the final switch. |
| `t0_exhaust` | violation | `OkExchangeEndsWithStatus`: ~ACK overrun ends the loop with OK and data bytes as the SW. |
| `t0_case3e_6x` | violation | `Case3EStopsOnError` (spec 8): the extended Get Response loop ignores SW1. |
| `t0_getresponse_p3` | violation | `GetResponseAsksAnnounced`: P3 is read from a freed response (line 283). |

Not modelled in ProtocolT0: the `PROTOCOL_T0_ISO`-off build, in which
every case returns the first TPDU response unchanged.

## IfdHandler: threads on one reader

`IfdHandler.tla` models `ifdhandler.c` for one reader with one slot, called
by a set of host threads (`Threads`).

- **State.**
  - `ctx` is `ifdh_context[ctn][0]` (`"LIVE"` or `"NULL"`).
  - `owner` is the holder of `ifdh_context_mutex[ctn]` (`NoOwner` when free).
  - `pc[t]` is the step thread `t` is at.
  - `opened` is the host's view: `IFDHCreateChannel` returned success and
    `IFDHCloseChannel` has not been called.  The resource manager calls
    nothing else on a channel it has not opened, and opens and closes a
    channel from one thread.
- **Actions.** Each entry point is split where the code calls into the
  CT-API (`CT_init`, `CT_data`, `CT_close`; not under `src/`).  That call is
  entered at one step and returns at a later one, with any result:
  - `CreateChannel` / `CreateChannelDone`: `CT_init` under the lock; `malloc`
    may fail and `IFD_SUCCESS` is still returned.
  - `CloseChannel` / `CloseChannelDone` / `CloseChannelFree`: `CT_close`
    outside the lock, then free under the lock.
  - `GetCapabilities` / `GetCapabilitiesDone`: the ATR is read through the
    context pointer, under the lock, without a NULL check.
  - `LockedDataCall` / `LockedDataOk` / `StoreAtr` / `LockedDataFailed`:
    `IFDHSetProtocolParameters` and `IFDHPowerICC`, which call `CT_data`
    with the lock held.
  - `UnlockedDataCall` / `UnlockedDataDone`: `IFDHTransmitToICC`, which
    checks the context under the lock and calls `CT_data` after
    unlocking.  `IFDHControl` is an action of its own that starts the same
    way, with the reader as the destination.
  - `ICCPresence`: `CT_data` with no lock at all.
- **Fairness.** `WF` on each thread's `Busy` steps (a call under way
  returns: the serial transport reads with timeouts).  None on taking the
  mutex: pthread mutexes are not fair.

| Run | Expect | Checks |
|---|---|---|
| `ifdh_locked` | pass | `ContextLiveWhenStored` (the ATR store of PowerICC never meets a freed context) and `LockReleased` (every path that takes the mutex releases it), with 3 threads. |
| `ifdh_race` | violation | `NoConcurrentCT` (spec 5): TransmitToICC/Control/ICCPresence enter `CT_data` without the lock while another thread is in the CT-API. |
| `ifdh_getcap` | violation | `ContextLiveWhenRead`: CreateChannel succeeds with a failed `malloc`, and GetCapabilities(TAG_IFD_ATR) then reads through NULL. |

Two threads are enough for both races.  Three give `ifdh_locked` a third
thread queued on the mutex while two others are in the critical sections.

## CtSlot and IfdLink: slots sharing a reader link

`CtSlot.tla` models `ct_slot.c` for a set of slot objects (`Slots`) on a
set of terminals (`Terminals`, `TermOf[s]` the terminal of slot `s`).
`IfdLink.tla` models what the slots of one terminal share: its serial port
and its reader.

- **Slot state.** `ifd`, `icc`, `icc_type`, `protocol` and `protocol_type`
  are the slot's fields.  Each pointer holds the kind of object it points
  to, or `"NULL"`.  `ret` is each slot's last return value.
- **Ownership.** `live[s][k]` counts the objects of kind `k` that slot `s`
  has allocated and not freed.  Every `_New` and `_Delete` the code makes
  is an event, and an action folds its events, in the code's order, into
  the counts.
- **Link state.** `link[t]` is a record:
  - `port`: the speed and parity of the tty (termios);
  - `cache`: `{}` or `{p}`, the `IO_Serial_Properties` cache `io->props`;
  - `reader`: the speed and parity the reader was last told;
  - `kind`: the reader's type byte, Kartenzwerg or another.
  A port just opened has no cache, and the reader is at its power-on 9600
  baud (`LinkAtOpen`).
- **Link operations.** Each `ifd_towitoko.c` and `io_serial.c` function
  is an operator from a link to the set of `[ret, l]` results it can
  give.  `Then` chains them as the code's `if (f () != OK) return` does.
  - `GetProperties` returns the cache, or reads the port and fills the
    cache.
  - `SetProperties` fails in two ways.  A failing ioctl or tcsetattr
    changes nothing.  A failing tcflush changes the port but not the cache.
  - `Wire` is a command write followed by the read of its reply.  The
    reader acts on a frame only when the port runs at its speed.  The IfdTowitoko assumption
    is that a garbled frame fails the checksum and is dropped.
  - `SetBaudrate` sends nothing when the cached speed already matches.
    Otherwise it tells the reader the quantum of the speed's bracket
    (`ReaderSpeed`, the table's upper ends 1200 .. 115200).  The port then
    gets the termios speed `IO_Serial_Bitrate` rounds down to
    (`PortSpeed`), while the cache keeps the speed asked for.  The two
    agree for 9600 and 115200, the only speeds the code under `src/` asks
    for.  A speed PPS could ask for, such as 6975 for an F = 512 card,
    would leave them apart (a hazard in `PROJECT.json`).
  - `SetParity` switches the port to even parity for its command and to
    odd after it.
  - `GetStatus` retries once.
  - `IFD_Towitoko_Init` and `ResetAsyncICC` follow the code step by step.
  - `ResetAsyncICC` runs its even-parity pass.  When that pass gets no ATR,
    it switches to odd, runs a second pass, and switches back to even.
  - `ICC_Sync_Init`/`_Close` send LED, speed and card commands.
  - `Protocol_Sync_Command` first calls `ICC_Sync_BeginTransmission`
    (`SetBaudrate` to 115200) and ignores its result.  SELECT FILE and an
    unknown instruction then return OK whatever the card calls gave; the
    other commands fail when a card call does.
  - `ICC_Async_Init`/`_Close` and `PPS_Perform` are not under `src/` and
    are taken from spec 4.3-4.4.  Commands whose result depends on the card
    (`CardTalk`) may fail whenever the reader hears them.
- **Actions.** `CT_Slot_Init` (runs `IFD_Towitoko_Init`), `CT_Slot_Check`
  (runs `GetStatus`), `CT_Slot_Probe`, `CT_Slot_Command`, `CT_Slot_Release`
  and `CT_Slot_Close`.  `CT_Slot_Command` dispatches on `protocol_type`: a
  memory card's command goes over the link; for T=0 and T=1 only the
  result is chosen, because their reader traffic goes through ICC_Async,
  which is not under `src/` (ProtocolT0 models the T=0 engine itself); a
  slot without a card answers 6F 00 with OK.  Probe is one action whose disjuncts are its paths:
  - `ProbeNoCard`, `ProbeAsync` and `ProbeSync`, each given the link as
    the ICC init left it;
  - the allocator may fail on every `_New`;
  - the ICC close on an error path runs with its result ignored, as in the
    code.
  `Protocol_Sync_Init` cannot fail, so the sync path has no error after it.
- **Faults.** `Faults` is a subset of `{"TERMIOS", "WRITE", "READ"}`.
  `ctslot_ownership` uses all three: a termios call fails (a failing
  tcflush after the port took the settings), a command write fails, or a
  reply the reader sent is lost and the host read times out, the fault
  the code's own retry in `GetStatus` names.  `CtView` leaves out `ret`,
  which no action reads.
- **Bounds.** `MCCtSlot` has two terminals.
  - `tA` is a two-slot reader (`sA`, `sB`), a Chipdrive Extern II, the
    only type `IFD_Towitoko_GetNumSlots` gives two slots.  Its slots share one link, so
    one slot's probe changes the speed the other slot's calls see.
  - `tB` has one slot (`sC`) and may be a Kartenzwerg.
  - A leak would grow a count without bound, so `LiveBound` cuts the
    counts at 2.
  - The run reaches 39,900 distinct states in about 35 seconds.

| Run | Expect | Checks |
|---|---|---|
| `ctslot_ownership` | pass | `SlotShape` (spec 3: the engine exists iff the ICC does, and the tags match the pointers); `NoLeak` (spec 8.2: every object allocated on every path is freed or held exactly once); `InitSettlesLink` (a `CT_Slot_Init` that returns OK leaves reader and port at one speed, with even parity, or 8N1 on a Kartenzwerg, and the cache equal to the port). |

Hazards of the link that no run checks (each is in `PROJECT.json`):

- **Desync after a lost reply.** A lost reply to the speed command of
  `ICC_Sync_Init` leaves the reader at 115200 baud and the port at 9600.
  `SetBaudrate` and `IFD_Towitoko_Init` trust the cached speed
  (`ifd_towitoko.c:200`), so the code sends no command that would bring
  the two back together, and `ICC_Sync_BeginTransmission`'s failure is
  ignored.  `InitSettlesLink` only shows that no later Init reports such a
  link as settled; that the split is permanent is not a property of any
  run.
- **Parity left odd.** Spec 4.1 says the asynchronous reset ends at even
  parity.  Two ignored results in the code can break that: a failing
  tcflush in `IO_Serial_SetProperties` (`io_serial.c:505`) leaves the port
  odd under a cache that says even, and the result of the final switch to
  even is ignored when no ATR came (`ifd_towitoko.c:622`).  The run keeps
  all three faults, and so it states no property about parity after a
  probe: under them the code does not guarantee it.

## IccSync: the synchronous memory card

`IccSync.tla` models `icc_sync.c` over the reader primitives of
`ifd_towitoko.c`.

- **Calls.** Each `ICC_Sync_xxx` call runs to completion (spec 5).  `New`,
  `Init` and `Close` are actions of IccSync.  `Read`, `Write`, `EnterPin`
  and `ChangePin` are called only by `protocol_sync.c`, so they are
  operators, and each becomes part of the one action of the protocol
  command that calls it in ProtocolSync.
- **Results.** A call is an operator from a state record
  `[c |-> card, i |-> icc, buf |-> data read]` to the set of results its
  callees allow.
  - `Then(rs, F)` is the code's `if (f () != OK) return error;`.
  - The loops of Write (the bursts and the verify-and-retry do-while) are
    `RECURSIVE` operators.
- **State.**
  - `icc` is the `ICC_Sync` object: its `phase` (new, ready, failed,
    closed), `atr`, `active`, `pin_ok`, `pin_needed`, `pin`, `type`,
    `pagemode` and `length`.
  - `card` is the environment: its kind, whether it has an ATR, power,
    whether a PIN was presented in this power cycle, the PIN error
    counter, the PIN, the memory (an image from `Images`) and the ATR
    header bytes H2 H3 H4.  H1 follows from the kind (`CardH1`): the
    general structure under protocol type 2W 0x0A, 3W 0x09, SDA 0x08, or
    the reserved 0x0F for a card of kind "OTHER".
  - `call` records the last call and its arguments, for the properties.
- **The card's behaviour.**
  - It answers only when powered and addressed in its own bus protocol.
    Otherwise any value is read back.
  - It wraps a burst within its page, and its address counter wraps at
    the end of its memory.
  - A 2W/3W card stores only after the PIN was presented.
  - Under `CardFaults` an I2C EEPROM write may not take.
  - Under `IfdFaults` any frame of a reader command may go unanswered
    (`Frames`): the driver gets an error, while the card is as the frames
    that reached it left it.  A one-frame command (`Prim`) fails before or
    after the card acted.  `PresentPin` is the three steps of
    `IFD_Towitoko_EnterPin`: a counter bit written (a trial spent), the
    PIN compared (a right one unlocks), the counter erased.
- **Results the code ignores.** These are nondeterministic:
  - the status byte after a failed `GetStatus`, which is uninitialised;
  - `orig[0]` after a failed read;
  - the power state after the ignored `ActivateICC`/`DeactivateICC` of the
    probes.
- **Card type.**  With an ATR, `ProbeCardType` decodes the protocol type
  of H1 (`ProtocolType`, `AtrType`); a type other than 2W, 3W or SDA is
  DETECT_ERROR.
- **Memory length.**  With an ATR, `ICC_Sync_ProbeMemoryLength` computes it
  from H2 (`AtrSync.MemoryLength`); without one, the doubling search is
  taken to find the card's `MemLen`.  `SearchBounds` and `SearchLengths`
  give the lengths the unscaled search can stop at.
- **Fake ATR.**  `ICC_Sync_CreateAtr` is `CreateAtr`: protocol type from
  the card type, H2 from the code's table of lengths 256..32768 (0x4B for
  any other), H3 0x10, H4 0x84.  `Atr` (`ICC_Sync_GetAtr`) is the card's
  ATR or the fake one.  With the scaled `MemLen` of 16, the fake H2 is
  0x4B, as the code writes it for a length outside its table.

| Run | Expect | Checks |
|---|---|---|
| `iccsync_initerr` | violation | `InitErrorPowersDown` (spec 7): for a card whose ATR names no known type, Init returns DETECT_ERROR with the card still powered.  `CT_Slot_Probe` then reports an empty slot. |

The card-type probe reads byte 0 after powering the card down with
`icc->active` still TRUE (a hazard in `PROJECT.json`).  What an unpowered
card returns is up to the hardware, so an I2C long card may be taken for a
short one, and later commands then read and write whatever the line gives.

## AtrSync and IfdTowitoko: decoding and framing

- `AtrSync.tla` has the operators of `atr_sync.c` that the driver uses:
  - `ATR_Sync_Init` (`AtrSyncInit`): its length check and its structure
    check, where the general structure needs category indicator 0x10;
  - the protocol type of H1;
  - the number and length of data units in H2 (the memory length);
  - the category indicator H3 and the DIR data reference H4, with the
    macros of `atr_sync.h`;
  - `ATR_Sync_GetRaw`, the bytes CT-API callers receive.
- `CreatedAtrDescribesCard`, an invariant of the `psync` run, checks the
  fake ATR of a card that Init typed without an ATR.  It checks it for
  every length the doubling search can stop at for that type (256..2048,
  or 2048..32768 for I2C long, the kind the run probes this way).  Its raw bytes must
  pass `ATR_Sync_Init`, its H2 must decode to that length, and its H1
  must decode to the bus `ProbeCardType` would use.  Both I2C types come
  back as SDA, which `ProbeCardType` types as I2C short.  A mutant that
  repeats a table entry breaks it.
- `IfdTowitoko.tla` has `IFD_Towitoko_Checksum` as a `RECURSIVE` operator
  (one step: XOR the byte, shift left, set bit 0 to the complement of the
  bit shifted out) and `IFD_Towitoko_PrepareCommand` at both speeds.  At
  115200 baud and above a length byte is sent first and its checksum seeds
  the frame's.  `PowerFrameAccepted` is an invariant of the `psync` run.
  It takes the ActivateICC or DeactivateICC frame, the one that set the
  card's present power state, as the code writes it out in full.  It checks
  that `PrepareCommand` leaves the frame's checksum unchanged at the default
  speed.  At high speed, from either slot, it checks that the frame ends in
  the checksum of what precedes it.  Both must agree with the closed form of
  spec 9.

## ProtocolSync: the memory-card file system

`ProtocolSync.tla` extends IccSync and IfdTowitoko.  It instantiates
`TlvObject.tla` with `Protocol_Sync_GetData`, an `ICC_Sync_Read`, as the
fetch callback.

- **Actions.** The actions are what the slot does:
  - `Probe` is `CT_Slot_Probe` on a synchronous card.  It runs
    `ICC_Sync_New`/`Init` and, on success, `Protocol_Sync_New`/`Init`, which
    select the MF.
  - One action per instruction of `Protocol_Sync_Command`: SELECT FILE,
    READ BINARY, UPDATE BINARY, VERIFY, CHANGE REFERENCE DATA, and the
    default (6E00).
  - `Release` is `Protocol_Sync_Close` followed by `ICC_Sync_Close`.
- **Outcomes.** Every ICC call inside a command, with its faults, is part of
  that command's action.  A command is an operator to the set of its
  outcomes: the state, the status word, the protocol result, the data, the
  section selected, and the last ICC result.
- **TLV.** `TlvObject.tla` turns every `TLV_Object_xxx` function into an
  operator from a caller state to its possible results.  A fetch that fails
  yields NULL.  The walker:
  - decodes tags of one or two bytes;
  - decodes lengths in short form, or long form with 0x81 or 0x82;
  - rounds each length to the data;
  - iterates over a constructed object, and finds an object in it by tag.
- **SELECT FILE** has these cases:
  - by FID: MF 3F00, the ATR area 2F01, the DIR 2F00;
  - by AID: the DIR is an AID object, an AID in a template, or a sequence
    of templates with a PATH each;
  - any other selection control.
  - `path_length` is uninitialised in the code.  It takes the values of
    `PathLens`, and `path[0]`, which is never written when that length is
    0, takes any value of `Vals`.
  - The AID length shortened by `TLV_Object_CompareValue` carries into the
    following templates, as in the code.
- **APDUs.** An APDU is its instruction plus the fields the code reads:
  - an offset;
  - Le, or "all available" (`APDU_Cmd_Le_Available`);
  - Lc copies of one data byte;
  - an FID or an AID;
  - a PIN pair.

  `APDU_MAX_RSP_SIZE` lives outside `src/`.  The cap it sets cannot bind
  for a 16-byte memory.

Bounds (`MCProtocolSync.cfg`):

| Constant | Value | Why this is enough |
|---|---|---|
| `ByteMod` | 8 | Pages of 8 bytes, and 2-byte I2C long write pages.  A 3-byte update crosses pages, and a wrong page mask writes outside the section. |
| `MemLen` | 16 | Room for an application area, a DIR at 4 or 10 and an application data object.  ATR H2 = 0x08 declares exactly these 16 bytes. |
| Images | 4 | One image for each DIR shape: a sequence of one template with a 2-byte PATH; a mono AID followed by an object whose length 0x7F runs past the memory; a template; and a DIR at 10, so that 2F01 succeeds. |
| `CardKinds` | I2C short, I2C long, 2W | I2C short and long are probed without an ATR; I2C long has 2-byte pages.  2W has an ATR, a PIN and a counter. |
| `MaxTrials` | 2 | A trial can be spent and a right PIN restore the counter, and two wrong PINs (or one and a lost reply) block the card, so blocked entry is reached. |
| `Offsets`, `Les`, `Lcs`, `Datas` | {0,2}, {3}, {3}, {1} | Offset 2 with 3 bytes overruns the 4-byte sections (6282 and partial update).  Le "all available" reads the rest. |
| `MCAids` | A1, A1 00, A2 | The application, a longer AID that matches it by prefix, and one that matches nothing. |
| `PathLens` | 0, 1, 65535 | The uninitialised length gives: nothing read, one byte, or cut to the PATH's two bytes. |
| `MaxUpdates` | 1 | The host sends at most one UPDATE BINARY per behaviour.  Without this bound, the memory images the updates produce grow past the time budget.  One update already rewrites DIR bytes when the section is the MF. |

`PsView` leaves out `call`, `rsp` and `ret`: no action reads the first
two, `ret` is only carried into `ret'`, and the properties read the three
only after a step, which TLC checks on every step it generates.  With
reader and EEPROM faults on, the run has about 41,000 distinct views and
takes about 35 seconds with two workers.

| Run | Expect | Checks |
|---|---|---|
| `psync` | pass | `PsTypeOK`; `SelectedFileInMemory` (the section selected by FID, AID or PATH ends within `ICC_Sync_GetLength`); `ReadEffect` (a successful READ BINARY returns no byte past the section, as many bytes as asked with 9000, and on a card in step the section's bytes); `UpdateEffect` (on a card in step, UPDATE BINARY changes no byte outside the section, and with 9000 all given bytes are stored, through bursts, retries and faults); `VerifyOkMeansPin` (9000 to VERIFY/CHANGE on a 2W/3W card in step only for the card's PIN, and a change leaves the new PIN); `TrialLossReported` (no command that cost the card a PIN trial answers 9000, whether the trial went to a wrong PIN, to a reply lost between the frames of the PIN entry, or to a stale stored PIN re-entered by Write); `PowerFrameAccepted`; `CreatedAtrDescribesCard`. |

"In step" (`InSync`) means two things: the ICC object addresses the card
in the card's own bus protocol, and a card the object takes for active is
powered.  The probe hazard above breaks this, and commands on such an
object are not judged.

What the PIN paths allow, and no passing property rules out: a reply to
`IFD_Towitoko_ChangePin` lost after the card took the new PIN makes
`ICC_Sync_ChangePin` return before it copies the new PIN, with `pin_ok`
still set.  The next UPDATE BINARY that re-activates the card presents
the old PIN and spends a trial; the host only ever sent right PINs.
`TrialLossReported` shows that the host is told (6200), not that the
trial is safe.

No fairness is assumed.  The IccSync, ProtocolSync, CtSlot and IfdLink
properties are all safety properties.

## Not modelled

- In `ifd_towitoko.c`:
  - `Transmit`, `Receive` and `Switch` carry T=0 data for the asynchronous
    ICC, which is not in `src/`; ProtocolT0 models that traffic at the TPDU
    level, so the chunking of `Transmit` is not modelled;
  - the ATR bytes the asynchronous reset reads, and their parse;
  - the other primitives enter IccSync by their effect on the card.
- In `atr_sync.c`: `ATR_Sync_New`/`_Delete`, which only allocate and free,
  and `GetStructureID`, `GetProtocolParameter`, `GetReadToEnd` and
  `GetHistoricalBytes`, which nothing under `src/` calls.  The results of
  `ATR_Sync_Init` are ignored by both callers; the model computes them
  only for `CreatedAtrDescribesCard`.
- In `protocol_t0.c`: `Protocol_T0_Init`'s work waiting time (reads that
  may time out stand for it) and the `PROTOCOL_T0_ISO`-off build.
- In `io_serial.c`, the device names, PnP identification, the decoding of
  a termios speed in `IO_Serial_GetProperties` (a port speed is named by
  its rate, so it reads back unchanged), poll/select and `IO_Serial_Close`/`_Delete` (called only by the
  CT-API, not in `src/`): they are pure OS I/O.
- The tester is an interactive harness.
