---------------------------- MODULE MCProtocolT0 ----------------------------
(***************************************************************************)
(* ProtocolT0 instantiated for TLC.  Buffers of 5 bytes (Le = 256 scaled  *)
(* to 3) leave room for a full ACK transfer, a ~ACK overrun and the       *)
(* status word; extended Le up to 5 needs two Get Responses, extended Lc  *)
(* 4 three envelopes of at most 2 (Lc = 255) bytes.                       *)
(***************************************************************************)
EXTENDS ProtocolT0

\* Get Response chains are unbounded in the code; explore at most this
\* many TPDUs per APDU.
MaxTPDUs == 3

TPDUBound == tpdus <= MaxTPDUs

\* A local of the handlers or of ExchangeTPDU is written before it is read
\* again once the code has left the place that reads it: the exchange's
\* counters and buffer before BeginTransmission and after the response is
\* built, the TPDU between two APDUs, each handler's Le, Lx and envelope
\* offset outside that handler.  States that differ only in such dead
\* values have the same futures, and TLC keeps one of them.
MCView ==
  <<apc, apdu, rsp, ret, line, tpdus, xpc,
    IF apc = "Ready" THEN NoApdu ELSE tpdu,
    CASE xpc \in {"Idle", "Begin"} -> <<>>
      [] xpc = "Done"               -> <<xret, trsp>>
      [] OTHER                      -> <<nulls, sent, buf, sw2, xret>>,
    IF apc \in {"S3First", "S3Reissue", "S3GR"} THEN s3le ELSE 0,
    IF apc \in {"E3First", "E3GR"} THEN e3le ELSE 0,
    IF apc = "E3GR" THEN lx ELSE 0,
    IF apc = "E2Env" THEN env ELSE 0>>
=============================================================================
