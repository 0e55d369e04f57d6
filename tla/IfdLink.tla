------------------------------- MODULE IfdLink -------------------------------
(***************************************************************************)
(* The link from the host to one Towitoko reader: the serial port of      *)
(* src/src/driver/io_serial.c with its properties cache (io->props), and  *)
(* the reader commands of src/src/driver/ifd_towitoko.c that set the      *)
(* link (speed, parity) or only need an answer (LED, status, reader info, *)
(* the asynchronous reset).  A link value l is a record                    *)
(*   port   : the speed and parity the tty is set to (termios),           *)
(*   cache  : {} or {p}, the cached IO_Serial_Properties,                 *)
(*   reader : the speed and parity the reader is set to,                  *)
(*   kind   : the reader's type byte (IFD_TOWITOKO_KARTENZWERG or other). *)
(* Every terminal slot on the reader shares its link.                     *)
(*                                                                         *)
(* The reader decodes a command only when the port runs at its speed: a   *)
(* frame sent at another speed arrives garbled, fails the checksum, and   *)
(* the reader drops it (the IfdTowitoko assumption), so the host read    *)
(* then times out.  Each function is an operator from a link to the set  *)
(* of results [ret, l] its callees allow; Then(rs, F) is the code's      *)
(* "if (f () != OK) return error;".  Faults names what may fail: the     *)
(* termios and modem-line calls ("TERMIOS"), a write ("WRITE"), a read   *)
(* that times out although the reader answered ("READ").                 *)
(***************************************************************************)
EXTENDS Integers

CONSTANTS
  Faults    \* a subset of {"TERMIOS", "WRITE", "READ"}

\* IFD_TOWITOKO_BAUDRATE and ICC_SYNC_BAUDRATE: the speeds the code sets.
IfdBaudrate == 9600
SyncBaudrate == 115200
Bauds == {IfdBaudrate, SyncBaudrate}

\* IFD_Towitoko_GetMaxBaudrate.
MaxBaudrate == 115200

\* The termios speeds B0 .. B230400, each by the rate it names.
TermiosRates ==
  {0, 50, 75, 110, 134, 150, 200, 300, 600, 1200, 1800, 2400, 4800, 9600,
   19200, 38400, 57600, 115200, 230400}

\* IO_Serial_Bitrate: the highest termios speed not above the bitrate.
PortSpeed(b) ==
  CHOOSE r \in TermiosRates :
    r <= b /\ \A r2 \in TermiosRates : r2 <= b => r2 <= r

\* The brackets of IFD_Towitoko_SetBaudrate's "quantum magnitude" table,
\* by their upper ends; the reader runs at the end of the bracket the
\* speed falls in.
QuantumTops ==
  {1200, 2400, 4800, 6975, 9600, 14400, 19200, 28800, 38400, 57600, 115200}

ReaderSpeed(b) ==
  CHOOSE q \in QuantumTops :
    b <= q /\ \A q2 \in QuantumTops : b <= q2 => q <= q2

Props == [baud : Bauds, parity : {"EVEN", "ODD", "NONE"}]
Kinds == {"KARTENZWERG", "OTHER"}
Conventions == {"NONE", "DIRECT", "INVERSE"}   \* the card in the slot

Link == [port : Props, cache : SUBSET Props,
         reader : [baud : Bauds, parity : {"EVEN", "ODD"}], kind : Kinds]

Res(r, l) == [ret |-> r, l |-> l]
Then(rs, F(_)) == UNION {IF r.ret = "OK" THEN F(r.l) ELSE {r} : r \in rs}

\* The properties a filled cache holds.
Cached(l) == CHOOSE p \in l.cache : TRUE

\* The reader can decode what the host sends.
Heard(l) == l.port.baud = l.reader.baud

-----------------------------------------------------------------------------
(* io_serial.c                                                             *)

\* IO_Serial_Write of a command frame, then IO_Serial_Read of its reply:
\* the frame was sent, the reader acted on it, the reply was read.  A
\* write that fails (WaitToWrite timeout, short write) leaves a partial
\* frame the reader drops.
Wire(l) ==
  {o \in [sent : BOOLEAN, acted : BOOLEAN, ok : BOOLEAN] :
     /\ o.acted = (o.sent /\ Heard(l))
     /\ o.ok => o.acted
     /\ ~o.sent => "WRITE" \in Faults
     /\ (o.acted /\ ~o.ok) => "READ" \in Faults}

\* IO_Serial_GetProperties: the cache if it is set; else tcgetattr and
\* TIOCMGET, and the result is cached.
GetProperties(l) ==
  IF l.cache # {} THEN {Res("OK", l)}
  ELSE {Res("OK", [l EXCEPT !.cache = {l.port}])}
       \cup (IF "TERMIOS" \in Faults THEN {Res("IO_ERROR", l)} ELSE {})

\* IO_Serial_SetProperties: DTR and RTS, tcsetattr, tcflush, then the
\* cache.  The port takes the termios speed IO_Serial_Bitrate gives; the
\* cache keeps the bitrate asked for.  A failing ioctl or tcsetattr
\* changes nothing; a failing tcflush leaves the new settings in the port
\* and the old ones in the cache.
SetProperties(l, p) ==
  LET tty == [p EXCEPT !.baud = PortSpeed(p.baud)]
  IN {Res("OK", [l EXCEPT !.port = tty, !.cache = {p}])}
     \cup (IF "TERMIOS" \in Faults
           THEN {Res("IO_ERROR", l), Res("IO_ERROR", [l EXCEPT !.port = tty])}
           ELSE {})

-----------------------------------------------------------------------------
(* ifd_towitoko.c                                                          *)

\* Mutation helper: IO_Serial_Read reporting success when it timed out.
CommandTimeoutAsData(l, r) ==
  {Res(IF o.sent THEN "OK" ELSE "IO_ERROR",
       IF o.acted THEN [l EXCEPT !.reader = r] ELSE l) : o \in Wire(l)}

\* A command whose reply the code reads (and, where it checks it, finds
\* 0x01 from a reader that decoded it); a reader that decodes it takes
\* the settings r.
Command(l, r) ==
  {Res(IF o.ok THEN "OK" ELSE "IO_ERROR",
       IF o.acted THEN [l EXCEPT !.reader = r] ELSE l) : o \in Wire(l)}

\* IFD_Towitoko_SetBaudrate: nothing is sent when the (cached) port speed
\* is already b; else the reader is told b's quantum, then the port
\* follows.
SetBaudrate(l, b) ==
  IF MaxBaudrate < b THEN {Res("PARAM_ERROR", l)}
  ELSE Then(GetProperties(l), LAMBDA l1 :
         IF Cached(l1).baud = b THEN {Res("OK", l1)}
         ELSE Then(Command(l1, [l1.reader EXCEPT !.baud = ReaderSpeed(b)]),
                   LAMBDA l2 :
                SetProperties(l2, [Cached(l1) EXCEPT !.baud = b])))

\* IFD_Towitoko_SetParity: the port is put to even parity for the command
\* (whose status byte is not checked), and to odd after it when odd was
\* asked for.
SetParity(l, type, par) ==
  IF type = "KARTENZWERG" THEN {Res("UNSUPPORTED", l)}
  ELSE Then(GetProperties(l), LAMBDA l1 :
    LET p1 == IF Cached(l1).parity = "ODD"
              THEN [Cached(l1) EXCEPT !.parity = "EVEN"] ELSE Cached(l1)
    IN Then(IF Cached(l1).parity = "ODD" THEN SetProperties(l1, p1)
            ELSE {Res("OK", l1)}, LAMBDA l2 :
         Then(Command(l2, [l2.reader EXCEPT !.parity = par]), LAMBDA l3 :
           IF par = "ODD" /\ p1.parity = "EVEN"
           THEN SetProperties(l3, [p1 EXCEPT !.parity = "ODD"])
           ELSE {Res("OK", l3)})))

\* IFD_Towitoko_SetLED, and every other command that only needs its
\* status byte (activate, deactivate).
SetLED(l) == Command(l, l.reader)

\* IFD_Towitoko_GetStatus: a first read that times out is retried once
\* (a card just inserted or removed); a failed write is not.
GetStatus(l) ==
  UNION {IF o.ok THEN {Res("OK", l)}
         ELSE IF ~o.sent THEN {Res("IO_ERROR", l)}
         ELSE Command(l, l.reader) : o \in Wire(l)}

\* IFD_Towitoko_GetReaderInfo: the type byte is l.kind.
GetReaderInfo(l) == Command(l, l.reader)

\* IFD_Towitoko_Init: 9600 8E2 on the port, SetBaudrate(9600) and
\* SetParity(even) with the type still unknown, the reader type, and 8N1
\* for a Kartenzwerg.
IFD_Towitoko_Init(l) ==
  Then(SetProperties(l, [baud |-> IfdBaudrate, parity |-> "EVEN"]), LAMBDA l1 :
  Then(SetBaudrate(l1, IfdBaudrate), LAMBDA l2 :
  Then(SetParity(l2, "UNKNOWN", "EVEN"), LAMBDA l3 :
  Then(GetReaderInfo(l3), LAMBDA l4 :
    IF l4.kind = "KARTENZWERG"
    THEN SetProperties(l4, [baud |-> IfdBaudrate, parity |-> "NONE"])
    ELSE {Res("OK", l4)}))))

\* IFD_Towitoko_Close: the LED off.
IFD_Towitoko_Close(l) == SetLED(l)

\* A card answers a reset at the port's parity: a direct-convention card
\* at even parity, an inverse-convention one at odd (the port has IGNPAR
\* set, so bytes of the other parity are dropped).
Answers(l, conv) ==
  /\ Heard(l)
  /\ \/ conv = "DIRECT" /\ l.port.parity = "EVEN"
     \/ conv = "INVERSE" /\ l.port.parity = "ODD"

\* One pass of the for loop of IFD_Towitoko_ResetAsyncICC: two active-low
\* and two active-high resets, each ATR read byte by byte until a read
\* times out.  An ATR ends the pass; so does a failed write.
ResetPass(l, conv) ==
  {got \in BOOLEAN :
     /\ got => Answers(l, conv)
     /\ ~got => ~Answers(l, conv) \/ Faults \cap {"WRITE", "READ"} # {}}

\* IFD_Towitoko_ResetAsyncICC (default build: no CONVENTION macro, lenient
\* ATR check): a pass with parity even; without an ATR, parity odd (the
\* result of SetParity ignored) and a second pass; then back to even,
\* whose result is returned after an ATR and ignored without one.
ResetAsyncICC(l, type, conv) ==
  IF type = "KARTENZWERG" THEN {Res("UNSUPPORTED", l)}
  ELSE UNION {
    IF got THEN {Res("OK", l)}
    ELSE UNION {UNION {IF got2 THEN SetParity(o.l, type, "EVEN")
                       ELSE {Res("IO_ERROR", e.l) :
                               e \in SetParity(o.l, type, "EVEN")}
                       : got2 \in ResetPass(o.l, conv)}
                : o \in SetParity(l, type, "ODD")}
    : got \in ResetPass(l, conv)}

-----------------------------------------------------------------------------
(* The card objects' use of the link                                      *)

\* Reader commands whose outcome also depends on the card: activate and
\* reset of a memory card, its type and length probes, deactivate.
CardTalk(l) == (IF Heard(l) THEN {Res("OK", l)} ELSE {}) \cup {Res("FAIL", l)}

\* ICC_Sync_Init: LED red, the speed of memory cards, the card commands
\* (LED green among them).
ICC_Sync_Init(l) ==
  Then(SetLED(l), LAMBDA l1 :
  Then(SetBaudrate(l1, SyncBaudrate), LAMBDA l2 : CardTalk(l2)))

\* ICC_Sync_Close: deactivate, LED off.
ICC_Sync_Close(l) == Then(SetLED(l), LAMBDA l1 : SetLED(l1))

\* ICC_Sync_BeginTransmission: the speed of memory cards.
ICC_Sync_BeginTransmission(l) == SetBaudrate(l, SyncBaudrate)

\* Protocol_Sync_Command: ICC_Sync_BeginTransmission, whose result is
\* ignored, then the command.  SELECT FILE and an unknown instruction
\* return OK whatever the card calls gave; READ BINARY, UPDATE BINARY,
\* VERIFY and CHANGE REFERENCE DATA return an error when a card call fails.
Protocol_Sync_Command(l) ==
  UNION {CardTalk(b.l) \cup {Res("OK", b.l)} : b \in ICC_Sync_BeginTransmission(l)}

\* ICC_Async_Init (spec 4.3, not under src/): LED red, activate, the
\* asynchronous reset, the ATR parse, LED green.
ICC_Async_Init(l, conv) ==
  Then(SetLED(l), LAMBDA l1 :
  Then(SetLED(l1), LAMBDA l2 :
  Then(ResetAsyncICC(l2, l2.kind, conv), LAMBDA l3 :
  Then({Res("OK", l3), Res("ATR_ERROR", l3)}, LAMBDA l4 : SetLED(l4)))))

\* ICC_Async_Close (not under src/): deactivate, LED off.
ICC_Async_Close(l) == Then(SetLED(l), LAMBDA l1 : SetLED(l1))

\* PPS_Perform (spec 4.4, not under src/): the PPS exchange with the card.
PPS_Perform(l) == CardTalk(l)
=============================================================================
