------------------------------- MODULE CtSlot -------------------------------
(***************************************************************************)
(* The card terminal slots of src/src/ct-api/ct_slot.c.  Each slot owns a  *)
(* reader object (ifd), an ICC object (icc, tagged by icc_type) and a      *)
(* protocol engine (protocol, tagged by protocol_type).  The pointers hold *)
(* the kind of object they point to, or "NULL".  live[s][k] counts the     *)
(* objects of kind k that slot s allocated and has not deleted, so a leak  *)
(* or a double delete shows as a count that differs from the pointers.    *)
(*                                                                         *)
(* Every call runs to completion on the caller's thread (spec 5) and is   *)
(* one action.  The slots of one terminal share its reader and serial     *)
(* port: link[t] is the IfdLink state of terminal t, and what the reader *)
(* commands of IFD_Towitoko, ICC_Sync, ICC_Async and PPS return comes     *)
(* from it; what the card and the allocator do is a nondeterministic     *)
(* choice.                                                                 *)
(***************************************************************************)
EXTENDS Integers, Sequences, SequencesExt, IfdLink

CONSTANTS
  Slots,       \* the CT_Slot objects of the open terminals
  Terminals,   \* the open terminals, one reader and serial port each
  TermOf,      \* TermOf[s]: the terminal of slot s
  ReaderKinds  \* ReaderKinds[t]: the reader types terminal t may have

Objs == {"IFD", "ICC_SYNC", "ICC_ASYNC", "PPS", "PROTO_SYNC", "PROTO_T0",
         "PROTO_T1"}

\* The protocols PPS_Perform may settle on: T=0 or T=1.
AsyncProtocols == {"T0", "T1"}

VARIABLES
  ifd, icc, icc_type, protocol, protocol_type,
  live,   \* live[s][k]: objects of kind k allocated by slot s, not deleted
  ret,    \* ret[s]: what the last call on slot s returned
  link    \* link[t]: serial port, properties cache and reader of terminal t

vars == <<ifd, icc, icc_type, protocol, protocol_type, live, ret, link>>

\* Allocation events: xxx_New and xxx_Delete of an object of kind k.
New(k) == <<"new", k>>
Del(k) == <<"del", k>>

\* The counts after the events evs, in order.
Run(c, evs) ==
  FoldLeft(LAMBDA x, e : [x EXCEPT ![e[2]] = @ + (IF e[1] = "new" THEN 1 ELSE -1)],
           c, evs)

\* The kind of engine protocol_type names.
ProtoObj(t) == "PROTO_" \o t

-----------------------------------------------------------------------------
(* Mutation helpers (faults a review of this code looks for).              *)

DropIccSyncOnly(s) ==
  IF icc_type[s] = "SYNC" THEN <<Del(icc[s])>> ELSE <<>>

ClearSlotKeepsType(s) ==
  /\ icc' = [icc EXCEPT ![s] = "NULL"]
  /\ protocol' = [protocol EXCEPT ![s] = "NULL"]
  /\ protocol_type' = [protocol_type EXCEPT ![s] = "NULL"]
  /\ UNCHANGED icc_type

-----------------------------------------------------------------------------

\* Protocol_xxx_Close and Protocol_xxx_Delete, chosen by protocol_type.
DropProtocol(s) ==
  IF protocol_type[s] \in {"SYNC", "T0", "T1"} THEN <<Del(protocol[s])>>
  ELSE <<>>

\* ICC_xxx_Close and ICC_xxx_Delete, chosen by icc_type.
DropIcc(s) ==
  IF icc_type[s] \in {"SYNC", "ASYNC"} THEN <<Del(icc[s])>> ELSE <<>>

\* CT_Slot_Clear without the ifd: every pointer and tag to NULL.
ClearSlot(s) ==
  /\ icc' = [icc EXCEPT ![s] = "NULL"]
  /\ protocol' = [protocol EXCEPT ![s] = "NULL"]
  /\ icc_type' = [icc_type EXCEPT ![s] = "NULL"]
  /\ protocol_type' = [protocol_type EXCEPT ![s] = "NULL"]

Events(s, evs) == live' = [live EXCEPT ![s] = Run(@, evs)]

Return(s, r) == ret' = [ret EXCEPT ![s] = r]

\* The link of the terminal of slot s, and its new value.
LinkOf(s) == link[TermOf[s]]
SetLink(s, l) == link' = [link EXCEPT ![TermOf[s]] = l]

-----------------------------------------------------------------------------

\* CT_Slot_Init: IFD_Towitoko_New, then IFD_Towitoko_Init on the port of
\* the terminal; on an Init error the IFD is deleted and ERR_TRANS
\* returned.
CT_Slot_Init(s) ==
  /\ ifd[s] = "NULL"
  /\ \/ /\ Return(s, "ERR_MEMORY")
        /\ UNCHANGED <<ifd, live, link>>
     \/ \E r \in IFD_Towitoko_Init(LinkOf(s)) :
          /\ SetLink(s, r.l)
          /\ IF r.ret = "OK"
             THEN /\ Events(s, <<New("IFD")>>)
                  /\ ifd' = [ifd EXCEPT ![s] = "IFD"]
                  /\ Return(s, "OK")
             ELSE /\ Events(s, <<New("IFD"), Del("IFD")>>)
                  /\ Return(s, "ERR_TRANS")
                  /\ UNCHANGED ifd
  /\ UNCHANGED <<icc, icc_type, protocol, protocol_type>>

\* CT_Slot_Check: IFD_Towitoko_GetStatus, and again once a second while
\* no card is in and the timeout lasts.  GetStatus changes no link state,
\* so every call of the loop has the outcomes of the first.
CT_Slot_Check(s) ==
  /\ ifd[s] = "IFD"
  /\ \E r \in GetStatus(LinkOf(s)) :
       Return(s, IF r.ret = "OK" THEN "OK" ELSE "ERR_TRANS")
  /\ UNCHANGED <<ifd, icc, icc_type, protocol, protocol_type, live, link>>

\* CT_Slot_Probe, sync first (ICC_PROBE_ASYNC_FIRST is undefined).  The
\* ICC_Sync object is built and initialised; if that fails it is deleted
\* and an ICC_Async is tried.  Every path below is one way through the
\* function, its allocation events in the order the code makes them, l
\* the link after the ICC init.

\* Neither init succeeds: the slot is empty and OK is returned.
ProbeNoCard(s, l) ==
  /\ Events(s, <<New("ICC_SYNC"), Del("ICC_SYNC"), New("ICC_ASYNC"),
                 Del("ICC_ASYNC")>>)
  /\ SetLink(s, l)
  /\ icc' = [icc EXCEPT ![s] = "NULL"]
  /\ icc_type' = [icc_type EXCEPT ![s] = "NULL"]
  /\ Return(s, "OK")
  /\ UNCHANGED <<protocol, protocol_type>>

\* An asynchronous card: PPS_New, PPS_Perform (which builds the T=0 or
\* T=1 engine), PPS_Delete.  Without a PPS object, or on a PPS error, the
\* ICC is closed (the result ignored) and deleted.
ProbeAsync(s, l) ==
  LET tried == <<New("ICC_SYNC"), Del("ICC_SYNC"), New("ICC_ASYNC")>>
  IN \/ /\ Events(s, tried \o <<Del("ICC_ASYNC")>>)      \* PPS_New NULL
        /\ \E c \in ICC_Async_Close(l) : SetLink(s, c.l)
        /\ ClearSlot(s)
        /\ Return(s, "ERR_MEMORY")
     \/ \E p \in PPS_Perform(l) :
          IF p.ret # "OK"
          THEN /\ Events(s, tried \o <<New("PPS"), Del("PPS"), Del("ICC_ASYNC")>>)
               /\ \E c \in ICC_Async_Close(p.l) : SetLink(s, c.l)
               /\ ClearSlot(s)
               /\ Return(s, "ERR_TRANS")
          ELSE \E t \in AsyncProtocols :
               /\ Events(s, tried \o <<New("PPS"), New(ProtoObj(t)), Del("PPS")>>)
               /\ SetLink(s, p.l)
               /\ icc' = [icc EXCEPT ![s] = "ICC_ASYNC"]
               /\ icc_type' = [icc_type EXCEPT ![s] = "ASYNC"]
               /\ protocol' = [protocol EXCEPT ![s] = ProtoObj(t)]
               /\ protocol_type' = [protocol_type EXCEPT ![s] = t]
               /\ Return(s, "OK")

\* A synchronous card: Protocol_Sync_New, then Protocol_Sync_Init, which
\* cannot fail.  Without a protocol object the ICC is closed (the result
\* ignored) and deleted.
ProbeSync(s, l) ==
  \/ /\ Events(s, <<New("ICC_SYNC"), Del("ICC_SYNC")>>)  \* Protocol_Sync_New NULL
     /\ \E c \in ICC_Sync_Close(l) : SetLink(s, c.l)
     /\ ClearSlot(s)
     /\ Return(s, "ERR_MEMORY")
  \/ /\ Events(s, <<New("ICC_SYNC"), New("PROTO_SYNC")>>)
     /\ SetLink(s, l)
     /\ icc' = [icc EXCEPT ![s] = "ICC_SYNC"]
     /\ icc_type' = [icc_type EXCEPT ![s] = "SYNC"]
     /\ protocol' = [protocol EXCEPT ![s] = "PROTO_SYNC"]
     /\ protocol_type' = [protocol_type EXCEPT ![s] = "SYNC"]
     /\ Return(s, "OK")

\* The caller (the CT-BCS dispatcher, not in src/) probes an empty slot of
\* an initialised terminal; the card in the slot answers a reset in the
\* convention conv, or not at all.
CT_Slot_Probe(s) ==
  /\ ifd[s] = "IFD"
  /\ icc_type[s] = "NULL"
  /\ \/ /\ Events(s, <<>>)                                  \* ICC_Sync_New NULL
        /\ Return(s, "ERR_MEMORY")
        /\ UNCHANGED <<icc, icc_type, protocol, protocol_type, link>>
     \/ \E sy \in ICC_Sync_Init(LinkOf(s)) :
          IF sy.ret = "OK" THEN ProbeSync(s, sy.l)
          ELSE \/ /\ Events(s, <<New("ICC_SYNC"), Del("ICC_SYNC")>>) \* ICC_Async_New NULL
                  /\ SetLink(s, sy.l)
                  /\ icc' = [icc EXCEPT ![s] = "NULL"]
                  /\ Return(s, "ERR_MEMORY")
                  /\ UNCHANGED <<icc_type, protocol, protocol_type>>
               \/ \E conv \in Conventions : \E ay \in ICC_Async_Init(sy.l, conv) :
                    IF ay.ret = "OK" THEN ProbeAsync(s, ay.l)
                    ELSE ProbeNoCard(s, ay.l)
  /\ UNCHANGED ifd

\* ICC_Sync_Close or ICC_Async_Close, chosen by icc_type: the links it may
\* leave and whether it failed.  The protocol closes cannot fail.
IccClose(s) ==
  CASE icc_type[s] = "SYNC"  -> ICC_Sync_Close(LinkOf(s))
    [] icc_type[s] = "ASYNC" -> ICC_Async_Close(LinkOf(s))
    [] OTHER                 -> {Res("OK", LinkOf(s))}

\* CT_Slot_Release: close and delete the engine named by protocol_type,
\* then the ICC named by icc_type; a failed close gives ERR_TRANS but the
\* object is deleted all the same.
CT_Slot_Release(s) ==
  /\ ifd[s] = "IFD"
  /\ Events(s, DropProtocol(s) \o DropIcc(s))
  /\ ClearSlot(s)
  /\ \E c \in IccClose(s) :
       /\ SetLink(s, c.l)
       /\ Return(s, IF c.ret = "OK" THEN "OK" ELSE "ERR_TRANS")
  /\ UNCHANGED ifd

\* CT_Slot_Close: as Release, then IFD_Towitoko_Close and _Delete, then
\* CT_Slot_Clear.  The IFD is closed whatever the ICC close gave.
CT_Slot_Close(s) ==
  /\ ifd[s] = "IFD"
  /\ Events(s, DropProtocol(s) \o DropIcc(s) \o <<Del("IFD")>>)
  /\ ClearSlot(s)
  /\ ifd' = [ifd EXCEPT ![s] = "NULL"]
  /\ \E c \in IccClose(s) : \E d \in IFD_Towitoko_Close(c.l) :
       /\ SetLink(s, d.l)
       /\ Return(s, IF c.ret = "OK" /\ d.ret = "OK" THEN "OK" ELSE "ERR_TRANS")

\* CT_Slot_Command: the engine protocol_type names.  A memory card's
\* commands go over the link; the T=0 and T=1 engines talk through
\* ICC_Async, whose transmission calls are not under src/, so only their
\* result is chosen.  A slot whose card was removed answers 6F 00 with OK.
CT_Slot_Command(s) ==
  /\ ifd[s] = "IFD"
  /\ CASE protocol_type[s] = "SYNC" ->
            \E r \in Protocol_Sync_Command(LinkOf(s)) :
              /\ SetLink(s, r.l)
              /\ Return(s, IF r.ret = "OK" THEN "OK" ELSE "ERR_TRANS")
       [] protocol_type[s] \in AsyncProtocols ->
            \E r \in {"OK", "ERR_TRANS"} : Return(s, r) /\ UNCHANGED link
       [] protocol_type[s] = "NULL" -> Return(s, "OK") /\ UNCHANGED link
       [] OTHER -> Return(s, "ERR_HTSI") /\ UNCHANGED link
  /\ UNCHANGED <<ifd, icc, icc_type, protocol, protocol_type, live>>

-----------------------------------------------------------------------------

\* A port just opened by IO_Serial_Init: no properties cached (the tty's
\* own settings are never read before IFD_Towitoko_Init sets them), and a
\* reader at its power-on speed.
LinkAtOpen(k) ==
  [port |-> [baud |-> IfdBaudrate, parity |-> "NONE"], cache |-> {},
   reader |-> [baud |-> IfdBaudrate, parity |-> "EVEN"], kind |-> k]

\* CT_Slot_New: CT_Slot_Clear on fresh memory.
Init ==
  /\ ifd = [s \in Slots |-> "NULL"]
  /\ icc = [s \in Slots |-> "NULL"]
  /\ icc_type = [s \in Slots |-> "NULL"]
  /\ protocol = [s \in Slots |-> "NULL"]
  /\ protocol_type = [s \in Slots |-> "NULL"]
  /\ live = [s \in Slots |-> [k \in Objs |-> 0]]
  /\ ret = [s \in Slots |-> "OK"]
  /\ link \in {[t \in Terminals |-> LinkAtOpen(kind[t])] :
                kind \in {k \in [Terminals -> Kinds] :
                           \A t \in Terminals : k[t] \in ReaderKinds[t]}}

Next ==
  \E s \in Slots :
    \/ CT_Slot_Init(s) \/ CT_Slot_Check(s) \/ CT_Slot_Probe(s)
    \/ CT_Slot_Command(s)
    \/ CT_Slot_Release(s) \/ CT_Slot_Close(s)

Spec == Init /\ [][Next]_vars

-----------------------------------------------------------------------------
(* Properties                                                              *)

TypeOK ==
  /\ ifd \in [Slots -> {"NULL", "IFD"}]
  /\ icc \in [Slots -> {"NULL", "ICC_SYNC", "ICC_ASYNC"}]
  /\ icc_type \in [Slots -> {"NULL", "SYNC", "ASYNC"}]
  /\ protocol \in [Slots -> {"NULL", "PROTO_SYNC", "PROTO_T0", "PROTO_T1"}]
  /\ protocol_type \in [Slots -> {"NULL", "SYNC", "T0", "T1"}]
  /\ live \in [Slots -> [Objs -> Int]]
  /\ ret \in [Slots -> {"OK", "ERR_MEMORY", "ERR_TRANS", "ERR_HTSI"}]
  /\ link \in [Terminals -> Link]

\* Spec 3 "Slot": the protocol engine exists iff the ICC does, and the
\* tags agree with what the pointers hold: Empty, SyncCard{icc, sync
\* engine} or AsyncCard{icc, T=0 or T=1 engine}.  Command and Release
\* dispatch on the tags alone.
SlotShape ==
  \A s \in Slots :
    \/ /\ icc[s] = "NULL" /\ protocol[s] = "NULL"
       /\ icc_type[s] = "NULL" /\ protocol_type[s] = "NULL"
    \/ /\ icc[s] = "ICC_SYNC" /\ icc_type[s] = "SYNC"
       /\ protocol[s] = "PROTO_SYNC" /\ protocol_type[s] = "SYNC"
    \/ /\ icc[s] = "ICC_ASYNC" /\ icc_type[s] = "ASYNC"
       /\ protocol_type[s] \in AsyncProtocols
       /\ protocol[s] = ProtoObj(protocol_type[s])

\* Spec 8.2 (ownership hierarchy): on every path of Probe, Release and Close,
\* including the error returns, each object allocated is either deleted or
\* held by the slot, exactly once.
NoLeak ==
  \A s \in Slots : \A k \in Objs :
    live[s][k] = IF k \in {ifd[s], icc[s], protocol[s]} THEN 1 ELSE 0

\* The link as IFD_Towitoko_Init leaves it when it returns OK: reader and
\* port at one speed, the cache holding the port's settings, the reader
\* at even parity and the port at 8E2, or 8N1 on a Kartenzwerg.
Settled(l) ==
  /\ Heard(l)
  /\ l.cache = {l.port}
  /\ l.reader.parity = "EVEN"
  /\ l.port.parity = IF l.kind = "KARTENZWERG" THEN "NONE" ELSE "EVEN"

\* CT_Slot_Init returns OK only when IFD_Towitoko_Init has brought the
\* shared link of its terminal into the settled state, whatever the other
\* slots of the terminal, and the link faults, did to it before: the slot's
\* later commands depend on it.
InitSettlesLink ==
  [][\A s \in Slots :
       ifd[s] = "NULL" /\ ifd'[s] = "IFD" => Settled(link'[TermOf[s]])]_vars
=============================================================================
