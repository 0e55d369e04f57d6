----------------------------- MODULE T0Command -----------------------------
(***************************************************************************)
(* What the T=0 engine promises its caller (Protocol_T0_Command): one APDU *)
(* at a time is taken, and when the call returns PROTOCOL_T0_OK the        *)
(* response ends with a status word the card sent and carries no more data *)
(* than the command asked for.  ProtocolT0 is shown to implement this.     *)
(***************************************************************************)
EXTENDS Integers

CONSTANTS
  Apdus,        \* the commands a caller may pass
  NoApdu,       \* no command taken yet
  NoRsp,        \* *rsp not set (NULL)
  NoResult,     \* a command is in progress, or none was taken
  ShortLe,      \* Le = 256 of a short command, scaled
  StatusWords   \* the SW1 values a card may answer with

VARIABLES busy, cmd, result

vars == <<busy, cmd, result>>

\* The most data a successful response to command a may carry.  Case 2S
\* and 2E (Lc data sent, nothing expected) get none; Case 1 is mapped onto
\* a TPDU with P3 = 00, that is Le = 256.
MaxData(a) ==
  CASE a.case \in {"2S", "2E"} -> 0
    [] a.case = "1"  -> ShortLe
    [] OTHER         -> a.le

\* A result the engine may hand back for command a.
Acceptable(a, r) ==
  r.ret = "OK" =>
    /\ r.rsp # NoRsp
    /\ r.rsp.sw1 \in StatusWords
    /\ r.rsp.data <= MaxData(a)

Init ==
  /\ busy = FALSE
  /\ cmd = NoApdu
  /\ result = NoResult

Issue ==
  /\ ~busy
  /\ busy' = TRUE
  /\ cmd' \in Apdus
  /\ result' = NoResult

Complete ==
  /\ busy
  /\ busy' = FALSE
  /\ result' # NoResult
  /\ Acceptable(cmd, result')
  /\ UNCHANGED cmd

Next == Issue \/ Complete

Spec == Init /\ [][Next]_vars
=============================================================================
