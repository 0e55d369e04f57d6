----------------------------- MODULE ProtocolT0 -----------------------------
(***************************************************************************)
(* The T=0 engine of src/src/driver/protocol_t0.c, built with              *)
(* PROTOCOL_T0_ISO (the ISO-strict default).                               *)
(*                                                                         *)
(*  - Protocol_T0_Command dispatches an APDU on its case; the case         *)
(*    handlers map it onto command TPDUs (Get Response chains on 61xx,     *)
(*    re-issue on 6Cxx).  Their position is apc.                           *)
(*  - Protocol_T0_ExchangeTPDU exchanges one TPDU: header out, then a loop *)
(*    over procedure bytes (NULL, SW1, ACK, ~ACK).  Its position is xpc.  *)
(*    A handler "calls" it by setting tpdu and xpc = "Begin", and resumes  *)
(*    at its own label when xpc = "Done".                                  *)
(*                                                                         *)
(* The card is the environment: each byte it sends is a nondeterministic  *)
(* choice, and any read may time out.  Case names are the code's:          *)
(* APDU_CASE_2S sends Lc data bytes, APDU_CASE_3S receives Le bytes.       *)
(* Byte values are scaled: PROTOCOL_T0_MAX_SHORT_RESPONSE = 258 becomes    *)
(* MaxShortResponse and Le = 256 becomes ShortLe = MaxShortResponse - 2;   *)
(* a Le or SW2 byte 0 stands for ShortLe.                                  *)
(***************************************************************************)
EXTENDS Integers, Sequences

CONSTANTS
  MaxShortResponse, \* PROTOCOL_T0_MAX_SHORT_RESPONSE (258), scaled down
  MaxNulls,         \* PROTOCOL_T0_MAX_NULLS (200), scaled down
  MaxLc,            \* largest Lc of the short commands passed in (255)
  ExtLc,            \* largest Lc of the extended commands passed in
  ExtLe,            \* largest Le of the extended commands passed in
  MaxRspData,       \* data an APDU_Rsp can hold; APDU_Rsp_AppendData fails beyond
  CardCompliant,    \* the card sends procedure bytes as ISO 7816-3 says
  WriteFaults,      \* transmit, switch, begin/end transmission may fail
  NoRsp,            \* *rsp = NULL
  NoApdu            \* no command taken yet

ASSUME MaxShortResponse >= 4 /\ MaxNulls >= 1 /\ MaxLc >= 1 /\ ExtLc > MaxLc
ASSUME ExtLe > MaxShortResponse - 2 /\ MaxRspData >= ExtLe
ASSUME CardCompliant \in BOOLEAN /\ WriteFaults \in BOOLEAN

ShortLe == MaxShortResponse - 2

\* Bytes the card may send after the header.  SW1 values are grouped into
\* the classes the handlers tell apart; "6x" is any other 0x6X but 0x60,
\* "90" any 0x9X.  "D" is a data byte, "S" the SW2 byte (its value is sw2).
StatusWords == {"61", "6C", "67", "6x", "90"}
Byte == 0 .. ShortLe - 1
Cell == StatusWords \cup {"D", "S"}

Rets == {"OK", "ERROR", "ICC_ERROR", "NULL_ERROR"}

Rsp == [data : 0 .. MaxRspData, sw1 : StatusWords \cup {"D"}, sw2 : Byte]

Tpdu == [case : {"2S", "3S"}, lc : 0 .. MaxLc, le : 0 .. ShortLe]

\* The extended commands that carry data, sent as one TPDU or in envelopes.
DataExtApdus ==
       [case : {"2E"}, lc : 1 .. ExtLc, le : {0}]
  \cup [case : {"4E"}, lc : 1 .. ExtLc, le : 1 .. ExtLe]

Apdus ==
       [case : {"1"}, lc : {0}, le : {0}]
  \cup [case : {"2S"}, lc : 1 .. MaxLc, le : {0}]
  \cup [case : {"3S"}, lc : {0}, le : 1 .. ShortLe]
  \cup [case : {"4S"}, lc : 1 .. MaxLc, le : 1 .. ShortLe]
  \cup [case : {"3E"}, lc : {0}, le : 1 .. ExtLe]
  \cup DataExtApdus

VARIABLES
  \* Protocol_T0_ExchangeTPDU
  xpc,     \* "Idle", "Begin", "Proc", "SW2", "SendRest", "SendOne", "Final", "Done"
  tpdu,    \* the command TPDU being exchanged
  nulls,   \* NULL bytes since the last ACK / ~ACK
  sent,    \* data bytes sent (case 2S)
  buf,     \* buffer[0 .. recv-1]; recv = Len(buf)
  sw2,     \* value of the SW2 byte received
  xret,    \* ret of ExchangeTPDU
  trsp,    \* the response TPDU it hands back
  line,    \* last thing done on the line: "tx", "rx" or "sw" (ICC_Async_Switch)
  \* Protocol_T0_Command and the case handlers
  apc,     \* "Ready" or the label where a handler resumes after an exchange
  apdu,    \* the command APDU
  s3le,    \* Le of the command Protocol_T0_Case3S is serving
  e3le,    \* Le of the command Protocol_T0_Case3E is serving
  lx,      \* Lx of Protocol_T0_Case3E
  env,     \* i of Protocol_T0_Case2E: raw bytes sent in earlier envelopes
  rsp,     \* *rsp, the response APDU being built
  ret,     \* the value Protocol_T0_Command returned
  tpdus    \* TPDUs exchanged for the current APDU (bounded in the MC)

xvars == <<xpc, tpdu, nulls, sent, buf, sw2, xret, trsp, line>>
avars == <<apc, apdu, s3le, e3le, lx, env, rsp, ret, tpdus>>
vars == <<xvars, avars>>

-----------------------------------------------------------------------------
(* Helpers                                                                 *)

\* Le or SW2 byte 0 means 256.
LeOf(b) == IF b = 0 THEN ShortLe ELSE b

Min2(a, b) == IF a < b THEN a ELSE b

\* APDU_Rsp_New (buffer, recv): the last two bytes are SW1 SW2.  When they
\* are data bytes, SW2 is whatever byte the card sent (0 here).
RspOf(b) == [data |-> Len(b) - 2, sw1 |-> b[Len(b) - 1],
             sw2 |-> IF b[Len(b)] = "S" THEN sw2 ELSE 0]

\* APDU_Rsp_AppendData: the data of t goes after the data of r, and the
\* status word becomes t's.  It fails when the result would not fit.
CanAppend(r, t) == r.data + t.data <= MaxRspData
AppendRsp(r, t) == [data |-> r.data + t.data, sw1 |-> t.sw1, sw2 |-> t.sw2]

\* Variants of helpers below, each with a plausible coding error; every
\* property checked on a passing run is broken by one of them.
TruncateMissing(r, n) == r
NullLimitMissing(n) == FALSE
RoomForSW2Unchecked(b) == TRUE
SwitchSkipped(ok) == line

\* if (APDU_Rsp_DataLen (rsp) > Le) APDU_Rsp_TruncateData (rsp, Le)
TruncateTo(r, n) == IF r.data > n THEN [r EXCEPT !.data = n] ELSE r

\* Buffer after "Read remaining data bytes" on ACK: recv = Le.
FillTo(b, n) ==
  IF n >= Len(b) THEN b \o [i \in 1 .. n - Len(b) |-> "D"]
  ELSE SubSeq(b, 1, n)

\* Maximum number of nulls reached.
NullLimit(n) == n >= MaxNulls

\* recv after storing SW1 still leaves room for SW2 (line 806).
RoomForSW2(b) == Len(b) < MaxShortResponse

\* Loop condition while (recv < PROTOCOL_T0_MAX_SHORT_RESPONSE).
LoopGoesOn(b) == Len(b) < MaxShortResponse

\* What a card may still send.  A compliant card acknowledges only while
\* data remains to be moved and never sends an unknown procedure byte.
DataLeft == IF tpdu.case = "2S" THEN sent < tpdu.lc ELSE Len(buf) < tpdu.le
CardMayAck == CardCompliant => DataLeft

-----------------------------------------------------------------------------
(* Protocol_T0_ExchangeTPDU                                                *)

\* Leave the procedure-byte loop with ret r (break).
Break(r) == xret' = r /\ xpc' = "Final"

\* return without the final switch and EndTransmission; *rsp is not set.
ReturnEarly(r) == xret' = r /\ trsp' = NoRsp /\ xpc' = "Done"

\* BeginTransmission, then the 5 header bytes.
XBegin ==
  /\ xpc = "Begin"
  /\ \/ /\ WriteFaults
        /\ ReturnEarly("ICC_ERROR")
        /\ UNCHANGED <<nulls, sent, buf, line>>
     \/ /\ WriteFaults
        /\ line' = "tx"
        /\ ReturnEarly("ICC_ERROR")
        /\ UNCHANGED <<nulls, sent, buf>>
     \/ /\ line' = "tx"
        /\ nulls' = 0 /\ sent' = 0 /\ buf' = << >>
        /\ xret' = "OK"
        /\ xpc' = "Proc"
        /\ UNCHANGED trsp
  /\ UNCHANGED <<sw2, tpdu, avars>>

\* A read of the card times out.
XTimeout ==
  /\ xpc \in {"Proc", "SW2"}
  /\ Break("ICC_ERROR")
  /\ line' = "rx"
  /\ UNCHANGED <<sw2, tpdu, nulls, sent, buf, trsp, avars>>

\* 0x60: NULL byte.
XNull ==
  /\ xpc = "Proc"
  /\ nulls' = nulls + 1
  /\ IF NullLimit(nulls + 1) THEN Break("NULL_ERROR") ELSE UNCHANGED <<xpc, xret>>
  /\ line' = "rx"
  /\ UNCHANGED <<sw2, tpdu, sent, buf, trsp, avars>>

\* (b & 0xF0) == 0x60 or 0x90: SW1 byte.
XSW1 ==
  /\ xpc = "Proc"
  /\ \E s \in StatusWords :
       /\ buf' = Append(buf, s)
       /\ IF RoomForSW2(buf') THEN xpc' = "SW2" /\ UNCHANGED <<xret, trsp>>
          ELSE ReturnEarly("ERROR")
  /\ line' = "rx"
  /\ UNCHANGED <<sw2, tpdu, nulls, sent, avars>>

\* SW2 byte; the loop ends with PROTOCOL_T0_OK.  Only 61xx and 6Cxx give
\* SW2 a meaning the handlers read.
XSW2 ==
  /\ xpc = "SW2"
  /\ buf' = Append(buf, "S")
  /\ sw2' \in IF buf[Len(buf)] \in {"61", "6C"} THEN Byte ELSE {0}
  /\ Break("OK")
  /\ line' = "rx"
  /\ UNCHANGED <<tpdu, nulls, sent, trsp, avars>>

\* (b & 0x0E) == (INS & 0x0E): ACK, move all remaining data.
XAck ==
  /\ xpc = "Proc"
  /\ CardMayAck
  /\ nulls' = 0
  /\ \/ /\ tpdu.case = "2S"
        /\ sent >= tpdu.lc
        /\ line' = "rx"
        /\ ReturnEarly("ERROR")
        /\ UNCHANGED buf
     \/ /\ tpdu.case = "2S"
        /\ sent < tpdu.lc
        /\ \/ line' = "sw" /\ xpc' = "SendRest" /\ UNCHANGED xret
           \/ WriteFaults /\ line' = "rx" /\ Break("ICC_ERROR")
        /\ UNCHANGED <<buf, trsp>>
     \/ /\ tpdu.case = "3S"
        /\ line' = "rx"
        /\ \/ buf' = FillTo(buf, tpdu.le) /\ UNCHANGED <<xpc, xret>>
           \/ Break("ICC_ERROR") /\ UNCHANGED buf
        /\ UNCHANGED trsp
  /\ UNCHANGED <<sw2, tpdu, sent, avars>>

\* (b & 0x0E) == (~INS & 0x0E): ~ACK, move one data byte.
XNack ==
  /\ xpc = "Proc"
  /\ CardMayAck
  /\ nulls' = 0
  /\ \/ /\ tpdu.case = "2S"
        /\ sent >= tpdu.lc
        /\ line' = "rx"
        /\ ReturnEarly("ERROR")
        /\ UNCHANGED buf
     \/ /\ tpdu.case = "2S"
        /\ sent < tpdu.lc
        /\ \/ line' = "sw" /\ xpc' = "SendOne" /\ UNCHANGED xret
           \/ WriteFaults /\ line' = "rx" /\ Break("ICC_ERROR")
        /\ UNCHANGED <<buf, trsp>>
     \/ /\ tpdu.case = "3S"
        /\ line' = "rx"
        /\ \/ /\ buf' = Append(buf, "D")
              /\ IF LoopGoesOn(buf') THEN UNCHANGED xpc ELSE xpc' = "Final"
              /\ UNCHANGED xret
           \/ Break("ICC_ERROR") /\ UNCHANGED buf
        /\ UNCHANGED trsp
  /\ UNCHANGED <<sw2, tpdu, sent, avars>>

\* Any other procedure byte.
XOther ==
  /\ xpc = "Proc"
  /\ ~CardCompliant
  /\ Break("ERROR")
  /\ line' = "rx"
  /\ UNCHANGED <<sw2, tpdu, nulls, sent, buf, trsp, avars>>

\* After ACK: send the remaining Lc - sent data bytes.
XSendRest ==
  /\ xpc = "SendRest"
  /\ line' = "tx"
  /\ \/ sent' = tpdu.lc /\ xpc' = "Proc" /\ UNCHANGED xret
     \/ WriteFaults /\ Break("ICC_ERROR") /\ UNCHANGED sent
  /\ UNCHANGED <<sw2, tpdu, nulls, buf, trsp, avars>>

\* After ~ACK: send the next data byte.
XSendOne ==
  /\ xpc = "SendOne"
  /\ line' = "tx"
  /\ \/ sent' = sent + 1 /\ xpc' = "Proc" /\ UNCHANGED xret
     \/ WriteFaults /\ Break("ICC_ERROR") /\ UNCHANGED sent
  /\ UNCHANGED <<sw2, tpdu, nulls, buf, trsp, avars>>

\* Line state after ICC_Async_Switch, which succeeded or not.
SwitchedLine(ok) == IF ok THEN "sw" ELSE line

\* Out of the loop: switch, build *rsp if ret is OK, EndTransmission.
XFinal ==
  /\ xpc = "Final"
  /\ \E switchOk \in IF WriteFaults THEN BOOLEAN ELSE {TRUE},
        endOk \in IF WriteFaults THEN BOOLEAN ELSE {TRUE} :
       LET r == IF switchOk THEN xret ELSE "ICC_ERROR" IN
       /\ line' = SwitchedLine(switchOk)
       /\ trsp' = IF r = "OK" THEN RspOf(buf) ELSE NoRsp
       /\ xret' = IF endOk THEN r ELSE "ICC_ERROR"
  /\ xpc' = "Done"
  /\ UNCHANGED <<sw2, tpdu, nulls, sent, buf, avars>>

-----------------------------------------------------------------------------
(* Protocol_T0_Command and the case handlers                               *)

GetResponse(le) == [case |-> "3S", lc |-> 0, le |-> le]

\* Start an exchange of t and resume at label k when it is done.
Exchange(t, k) ==
  /\ tpdu' = t
  /\ xpc' = "Begin"
  /\ apc' = k
  /\ tpdus' = tpdus + 1

\* The handler returns r with *rsp = s.
Finish(r, s) ==
  /\ ret' = r
  /\ rsp' = s
  /\ apc' = "Ready"
  /\ xpc' = "Idle"

\* The exchange this handler waited for is done.
Resume(k) == apc = k /\ xpc = "Done"

\* APDU_Cmd_RawLen of an extended command: its Lc data bytes and, ahead of
\* them, the header and the three Lc bytes (one unit at this scale).
RawLen(a) == a.lc + 1

\* The envelope TPDU (INS C2) carrying raw bytes i .. of command a:
\* P3 = MIN (255, APDU_Cmd_RawLen (cmd) - i).
EnvSegment(a, i) == [case |-> "2S", lc |-> Min2(MaxLc, RawLen(a) - i), le |-> 0]

\* The first TPDU of Protocol_T0_Case2E, and of Case4E, which calls it
\* for Lc >= 256: the command as a short TPDU when Lc < 256 (k is where
\* the handler resumes), else the first envelope.
Case2EStart(a, k) ==
  IF a.lc <= MaxLc
  THEN tpdu' = [case |-> "2S", lc |-> a.lc, le |-> 0] /\ apc' = k /\ UNCHANGED env
  ELSE tpdu' = EnvSegment(a, 0) /\ env' = 0 /\ apc' = "E2Env"

\* Protocol_T0_Command: take an APDU and dispatch it on its case.  Case 1
\* sends CLA INS P1 P2 00; Case 2S the command as it is; Case 3S and a
\* Case 3E with Le <= 256 enter Protocol_T0_Case3S; Case 4S first sends the
\* command without Le; Case 3E with Le > 256 sends P3 = 00; Case 2E and 4E
\* send the data, as one TPDU or in envelopes.
Command ==
  /\ apc = "Ready"
  /\ xpc = "Idle"
  /\ \E a \in Apdus :
       /\ apdu' = a
       /\ rsp' = NoRsp
       /\ tpdus' = 1
       /\ xpc' = "Begin"
       /\ \/ a.case = "1" /\ tpdu' = GetResponse(ShortLe) /\ apc' = "Ret"
             /\ UNCHANGED <<s3le, e3le, env>>
          \/ a.case = "2S" /\ tpdu' = [case |-> "2S", lc |-> a.lc, le |-> 0]
             /\ apc' = "Ret" /\ UNCHANGED <<s3le, e3le, env>>
          \/ a.case \in {"3S", "3E"} /\ a.le <= ShortLe
             /\ tpdu' = GetResponse(a.le) /\ s3le' = a.le /\ apc' = "S3First"
             /\ UNCHANGED <<e3le, env>>
          \/ a.case = "4S" /\ tpdu' = [case |-> "2S", lc |-> a.lc, le |-> 0]
             /\ apc' = "S4First" /\ UNCHANGED <<s3le, e3le, env>>
          \/ a.case = "3E" /\ a.le > ShortLe
             /\ tpdu' = GetResponse(ShortLe) /\ e3le' = a.le /\ apc' = "E3First"
             /\ UNCHANGED <<s3le, env>>
          \/ a.case = "2E" /\ Case2EStart(a, "Ret") /\ UNCHANGED <<s3le, e3le>>
          \/ a.case = "4E" /\ Case2EStart(a, "E4First") /\ UNCHANGED <<s3le, e3le>>
  /\ UNCHANGED <<sw2, nulls, sent, buf, xret, trsp, line, lx, ret>>

\* Case 1 and 2S, and the last exchange of Case 3E on 6Cxx and of Case 4S
\* on 61xx: the exchange's result is the handler's.
ReturnTPDU ==
  /\ Resume("Ret")
  /\ Finish(xret, trsp)
  /\ UNCHANGED <<sw2, tpdu, nulls, sent, buf, xret, trsp, line, apdu, e3le, env, s3le, lx, tpdus>>

\* Protocol_T0_Case3S after its first exchange.
Case3SFirst ==
  /\ Resume("S3First")
  /\ \/ xret # "OK" /\ Finish(xret, NoRsp) /\ UNCHANGED <<tpdu, tpdus>>
     \/ xret = "OK" /\ trsp.sw1 \notin {"67", "6C", "61"}
        /\ Finish("OK", trsp) /\ UNCHANGED <<tpdu, tpdus>>
     \/ xret = "OK" /\ trsp.sw1 = "67"
        /\ Finish("OK", trsp) /\ UNCHANGED <<tpdu, tpdus>>
     \/ xret = "OK" /\ trsp.sw1 = "6C"
        /\ Exchange(GetResponse(LeOf(trsp.sw2)), "S3Reissue")
        /\ UNCHANGED <<rsp, ret>>
     \/ xret = "OK" /\ trsp.sw1 = "61"
        /\ rsp' = trsp
        /\ Exchange(GetResponse(LeOf(trsp.sw2)), "S3GR")
        /\ UNCHANGED ret
  /\ UNCHANGED <<sw2, nulls, sent, buf, xret, trsp, line, apdu, e3le, env, s3le, lx>>

\* Case 3S, 6Cxx: the re-issued command's response, truncated to Le.
Case3SReissue ==
  /\ Resume("S3Reissue")
  /\ Finish(xret, IF xret = "OK" THEN TruncateTo(trsp, s3le) ELSE trsp)
  /\ UNCHANGED <<sw2, tpdu, nulls, sent, buf, xret, trsp, line, apdu, e3le, env, s3le, lx, tpdus>>

\* Case 3S, 61xx: append a Get Response and loop while SW1 is 0x61.  The
\* next Get Response takes its P3 from APDU_Rsp_SW2 (tpdu_rsp), read after
\* tpdu_rsp was deleted: any byte the freed memory holds.
Case3SGetResponse ==
  /\ Resume("S3GR")
  /\ \/ xret # "OK" /\ Finish(xret, rsp) /\ UNCHANGED <<tpdu, tpdus>>
     \/ xret = "OK" /\ ~CanAppend(rsp, trsp)
        /\ Finish("ERROR", rsp) /\ UNCHANGED <<tpdu, tpdus>>
     \/ xret = "OK" /\ CanAppend(rsp, trsp)
        /\ LET r == AppendRsp(rsp, trsp) IN
           \/ r.sw1 = "61" /\ rsp' = r /\ UNCHANGED ret
              /\ \E b \in Byte : Exchange(GetResponse(LeOf(b)), "S3GR")
           \/ r.sw1 # "61" /\ Finish("OK", TruncateTo(r, s3le))
              /\ UNCHANGED <<tpdu, tpdus>>
  /\ UNCHANGED <<sw2, nulls, sent, buf, xret, trsp, line, apdu, e3le, env, s3le, lx>>

\* Protocol_T0_Case4S after the command (without Le) was sent.  61xx: one
\* Get Response for SW2 bytes (Le if SW2 is 0), at most Le.  Class 6x:
\* the response as it is.  Otherwise a Case 3S Get Response for Le bytes.
Case4SFirst ==
  /\ Resume("S4First")
  /\ \/ xret # "OK" /\ Finish(xret, NoRsp) /\ UNCHANGED <<tpdu, tpdus, s3le>>
     \/ xret = "OK" /\ trsp.sw1 = "61"
        /\ Exchange(GetResponse(IF trsp.sw2 = 0 THEN apdu.le
                                ELSE Min2(apdu.le, trsp.sw2)), "Ret")
        /\ UNCHANGED <<rsp, ret, s3le>>
     \/ xret = "OK" /\ trsp.sw1 \in {"6C", "67", "6x"}
        /\ Finish("OK", trsp) /\ UNCHANGED <<tpdu, tpdus, s3le>>
     \/ xret = "OK" /\ trsp.sw1 \in {"90", "D"}
        /\ s3le' = apdu.le
        /\ Exchange(GetResponse(apdu.le), "S3First")
        /\ UNCHANGED <<rsp, ret>>
  /\ UNCHANGED <<sw2, nulls, sent, buf, xret, trsp, line, apdu, e3le, env, lx>>

\* Protocol_T0_Case3E, Le > 256, after the command was sent with P3 = 00.
\* 61xx: Lx = SW2 (256 if 0), Lm = Le - data so far, and Get Responses of
\* MIN (Lm, Lx) bytes while Lm > 0.
Case3EFirst ==
  /\ Resume("E3First")
  /\ \/ xret # "OK" /\ Finish(xret, NoRsp) /\ UNCHANGED <<tpdu, tpdus, lx>>
     \/ xret = "OK" /\ trsp.sw1 \notin {"67", "6C", "61"}
        /\ Finish("OK", trsp) /\ UNCHANGED <<tpdu, tpdus, lx>>
     \/ xret = "OK" /\ trsp.sw1 = "67"
        /\ Finish("OK", trsp) /\ UNCHANGED <<tpdu, tpdus, lx>>
     \/ xret = "OK" /\ trsp.sw1 = "6C"
        /\ Exchange(GetResponse(LeOf(trsp.sw2)), "Ret")
        /\ UNCHANGED <<rsp, ret, lx>>
     \/ xret = "OK" /\ trsp.sw1 = "61"
        /\ lx' = LeOf(trsp.sw2)
        /\ LET lm == e3le - trsp.data IN
           \/ lm > 0 /\ rsp' = trsp /\ UNCHANGED ret
              /\ Exchange(GetResponse(Min2(lm, lx')), "E3GR")
           \/ lm <= 0 /\ Finish("OK", trsp) /\ UNCHANGED <<tpdu, tpdus>>
  /\ UNCHANGED <<sw2, nulls, sent, buf, xret, trsp, line, apdu, e3le, env, s3le>>

\* Case 3E Get Response loop: append, recompute Lm, go on while Lm > 0.
Case3EGetResponse ==
  /\ Resume("E3GR")
  /\ \/ xret # "OK" /\ Finish(xret, rsp) /\ UNCHANGED <<tpdu, tpdus>>
     \/ xret = "OK" /\ ~CanAppend(rsp, trsp)
        /\ Finish("ERROR", rsp) /\ UNCHANGED <<tpdu, tpdus>>
     \/ xret = "OK" /\ CanAppend(rsp, trsp)
        /\ LET r == AppendRsp(rsp, trsp)
               lm == e3le - r.data IN
           \/ lm > 0 /\ rsp' = r /\ UNCHANGED ret
              /\ Exchange(GetResponse(Min2(lm, lx)), "E3GR")
           \/ lm <= 0 /\ Finish("OK", r) /\ UNCHANGED <<tpdu, tpdus>>
  /\ UNCHANGED <<sw2, nulls, sent, buf, xret, trsp, line, apdu, e3le, env, s3le, lx>>

\* Protocol_T0_Case3E called by Case4E for a Get Response of le bytes:
\* through Case3S when le <= 256, else with P3 = 00.
Call3E(le) ==
  IF le <= ShortLe
  THEN s3le' = le /\ Exchange(GetResponse(le), "S3First") /\ UNCHANGED e3le
  ELSE e3le' = le /\ Exchange(GetResponse(ShortLe), "E3First") /\ UNCHANGED s3le

\* Protocol_T0_Case4E once its data is sent, with ret r and response t.
\* 61xx: a Get Response for MIN (SW2, Le) bytes, or Le if SW2 is 0.  Class
\* 6x: the response as it is.  Otherwise a Get Response for Le bytes.
Case4EThen(r, t) ==
  \/ r # "OK" /\ Finish(r, NoRsp) /\ UNCHANGED <<tpdu, tpdus, s3le, e3le>>
  \/ r = "OK" /\ t.sw1 = "61"
     /\ Call3E(IF t.sw2 # 0 THEN Min2(t.sw2, apdu.le) ELSE apdu.le)
     /\ UNCHANGED <<rsp, ret>>
  \/ r = "OK" /\ t.sw1 \in {"6C", "67", "6x"}
     /\ Finish("OK", t) /\ UNCHANGED <<tpdu, tpdus, s3le, e3le>>
  \/ r = "OK" /\ t.sw1 \in {"90", "D"}
     /\ Call3E(apdu.le) /\ UNCHANGED <<rsp, ret>>

\* Protocol_T0_Case2E returns r with response t: to Protocol_T0_Command,
\* or to Case4E when it called it.
Case2EReturn(r, t) ==
  IF apdu.case = "4E" THEN Case4EThen(r, t)
  ELSE Finish(r, t) /\ UNCHANGED <<tpdu, tpdus, s3le, e3le>>

\* Protocol_T0_Case2E, Lc >= 256, after an envelope: on an error, break;
\* on SW1 = 0x90 the next envelope, unless this one was the last; else
\* the card's response, unchanged.  The class "90" holds 0x91 .. 0x9F as
\* well, which also end the loop.
Case2EEnvelope ==
  /\ Resume("E2Env")
  /\ LET next == env + tpdu.lc IN
     \/ xret # "OK" /\ Case2EReturn(xret, NoRsp) /\ UNCHANGED env
     \/ xret = "OK" /\ trsp.sw1 = "90" /\ next < RawLen(apdu)
        /\ env' = next
        /\ Exchange(EnvSegment(apdu, next), "E2Env")
        /\ UNCHANGED <<rsp, ret, s3le, e3le>>
     \/ xret = "OK" /\ Case2EReturn("OK", trsp) /\ UNCHANGED env
  /\ UNCHANGED <<sw2, nulls, sent, buf, xret, trsp, line, apdu, lx>>

\* Protocol_T0_Case4E, Lc < 256, after the command was sent without Le.
Case4EFirst ==
  /\ Resume("E4First")
  /\ Case4EThen(xret, trsp)
  /\ UNCHANGED <<sw2, nulls, sent, buf, xret, trsp, line, apdu, env, lx>>

-----------------------------------------------------------------------------

Init ==
  /\ xpc = "Idle"
  /\ tpdu = GetResponse(ShortLe)
  /\ nulls = 0 /\ sent = 0 /\ buf = << >> /\ sw2 = 0
  /\ xret = "OK"
  /\ trsp = NoRsp
  /\ line = "sw"
  /\ apc = "Ready"
  /\ apdu = NoApdu
  /\ s3le = 0 /\ e3le = 0 /\ lx = 0 /\ env = 0
  /\ rsp = NoRsp
  /\ ret = "OK"
  /\ tpdus = 0

Next ==
  \/ XBegin \/ XTimeout \/ XNull \/ XSW1 \/ XSW2 \/ XAck \/ XNack \/ XOther
  \/ XSendRest \/ XSendOne \/ XFinal
  \/ Command \/ ReturnTPDU \/ Case3SFirst \/ Case3SReissue
  \/ Case3SGetResponse \/ Case4SFirst \/ Case3EFirst \/ Case3EGetResponse
  \/ Case2EEnvelope \/ Case4EFirst

Spec == Init /\ [][Next]_vars

-----------------------------------------------------------------------------
(* Properties                                                              *)

TypeOK ==
  /\ xpc \in {"Idle", "Begin", "Proc", "SW2", "SendRest", "SendOne", "Final", "Done"}
  /\ tpdu \in Tpdu
  /\ nulls \in 0 .. MaxNulls
  /\ sent \in 0 .. MaxLc
  /\ buf \in Seq(Cell)
  /\ sw2 \in Byte
  /\ xret \in Rets
  /\ trsp \in Rsp \cup {NoRsp}
  /\ line \in {"tx", "rx", "sw"}
  /\ apc \in {"Ready", "Ret", "S3First", "S3Reissue", "S3GR", "S4First",
              "E3First", "E3GR", "E2Env", "E4First"}
  /\ apdu \in Apdus \cup {NoApdu}
  /\ s3le \in 0 .. ShortLe
  /\ e3le \in 0 .. ExtLe
  /\ env \in 0 .. ExtLc
  /\ lx \in 0 .. ShortLe
  /\ rsp \in Rsp \cup {NoRsp}
  /\ ret \in Rets

\* ExchangeTPDU never stores a byte past buffer[PROTOCOL_T0_MAX_SHORT_RESPONSE
\* - 1], whatever the card sends: the "paranoid" loop bound and the check
\* before reading SW2 keep recv in range.
NoBufferOverflow == Len(buf) <= MaxShortResponse

\* Spec 4.5: a direction switch is issued before any transmit that follows
\* a receive.  Inside ExchangeTPDU the ACK / ~ACK paths switch before
\* sending data, and the exchange ends with ICC_Async_Switch, so the next
\* header goes out on a switched line.
NoTransmitAfterReceive == [][line = "rx" => line' # "tx"]_line

\* An exchange that returns PROTOCOL_T0_OK hands back a response whose last
\* two bytes are a status word the card sent, not data bytes.
OkExchangeEndsWithStatus ==
  (xpc = "Done" /\ xret = "OK") => trsp # NoRsp /\ trsp.sw1 \in StatusWords

\* Spec 8: an extended Get Response loop stops once the card answers with a
\* class-6x status (other than 61xx).  Protocol_T0_Case3E loops while
\* Lm > 0 and looks at nothing else.
Case3EStopsOnError ==
  [][(apc = "E3GR" /\ xpc = "Done" /\ xret = "OK"
      /\ trsp.sw1 \in {"6C", "67", "6x"}) => apc' # "E3GR"]_vars

\* Each Get Response of the Case 3S chain asks for the SW2 bytes the card
\* announced in the 61xx it just sent.
GetResponseAsksAnnounced ==
  [][(apc = "S3GR" /\ apc' = "S3GR") => tpdu'.le = LeOf(rsp'.sw2)]_vars

\* Protocol_T0_Command implements T0Command: an OK result carries a status
\* word from the card and at most Le data bytes.
NoResult == [ret |-> "NONE", rsp |-> NoRsp]
T0 == INSTANCE T0Command
        WITH busy <- apc # "Ready",
             cmd <- apdu,
             result <- IF apc = "Ready" /\ apdu # NoApdu
                       THEN [ret |-> ret, rsp |-> rsp] ELSE NoResult
T0CommandRefined == T0!Spec

=============================================================================
