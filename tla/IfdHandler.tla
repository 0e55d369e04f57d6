----------------------------- MODULE IfdHandler -----------------------------
(***************************************************************************)
(* The PC/SC IFD handler of src/src/ifd-handler/ifdhandler.c on one reader *)
(* with one slot (IFDH_MAX_SLOTS = 1), called by several host threads.    *)
(*                                                                         *)
(* ifdh_context[ctn][0] is ctx ("LIVE" or "NULL") and                     *)
(* ifdh_context_mutex[ctn] is owner.  Each thread runs one entry point at  *)
(* a time; pc[t] is where it is.  The CT-API below (CT_init, CT_data,      *)
(* CT_close; not in src/) is a critical section entered at one step and   *)
(* left at a later one, and its result is a nondeterministic choice.      *)
(* Steps that happen entirely under the mutex are single actions.          *)
(***************************************************************************)
EXTENDS Naturals, FiniteSets

CONSTANTS
  Threads,   \* host threads calling the handler
  NoOwner    \* the mutex is free

ASSUME NoOwner \notin Threads

VARIABLES
  opened,  \* the host saw IFDHCreateChannel return IFD_SUCCESS (and has
           \* not yet called IFDHCloseChannel)
  ctx,     \* ifdh_context[ctn][0]: "LIVE" or "NULL"
  owner,   \* holder of ifdh_context_mutex[ctn]
  pc       \* pc[t]: "idle" or the step thread t is at

vars == <<opened, ctx, owner, pc>>

\* Steps at which a thread is inside CT_init, CT_close or CT_data.
CTSteps == {"c_init", "x_close", "p_data", "t_data"}

\* Threads inside the CT-API of this reader.
InCT == {t \in Threads : pc[t] \in CTSteps}

\* pthread_mutex_lock, when the mutex is free (the call then proceeds).
Lock(t) == owner = NoOwner /\ owner' = t

Unlock(t) == owner = t /\ owner' = NoOwner

\* The steps of IFDHCloseChannel.  The resource manager creates and closes
\* the channel of a reader from one thread, one call after the other.
Closing == {"x_close", "x_free"}

\* An idle thread starts a call on a channel the host has opened; the
\* resource manager calls nothing else before IFDHCreateChannel succeeded.
Start(t) == pc[t] = "idle" /\ opened

Goto(t, l) == pc' = [pc EXCEPT ![t] = l]

-----------------------------------------------------------------------------

\* IFDHCreateChannel: lock; if the context is NULL call CT_init with the
\* lock held, otherwise return IFD_SUCCESS at once.
CreateChannel(t) ==
  /\ pc[t] = "idle" /\ ~opened
  /\ \A u \in Threads : pc[u] \notin Closing
  /\ owner = NoOwner
  /\ IF ctx = "NULL" THEN Lock(t) /\ Goto(t, "c_init") /\ UNCHANGED opened
     ELSE opened' = TRUE /\ UNCHANGED <<owner, pc>>
  /\ UNCHANGED ctx

\* CT_init returned: on OK malloc the context (which may fail and leave it
\* NULL while IFD_SUCCESS is returned), then unlock.
CreateChannelDone(t) ==
  /\ pc[t] = "c_init"
  /\ \E initOk, mallocOk \in BOOLEAN :
       /\ ctx' = IF initOk /\ mallocOk THEN "LIVE" ELSE ctx
       /\ opened' = initOk
  /\ Unlock(t)
  /\ Goto(t, "idle")

\* IFDHCloseChannel: CT_close first, without the mutex.
CloseChannel(t) ==
  /\ Start(t)
  /\ opened' = FALSE
  /\ Goto(t, "x_close")
  /\ UNCHANGED <<ctx, owner>>

\* CT_close returned: on OK free the context under the mutex.
CloseChannelDone(t) ==
  /\ pc[t] = "x_close"
  /\ \/ Goto(t, "x_free")
     \/ Goto(t, "idle")
  /\ UNCHANGED <<opened, ctx, owner>>

\* Fault variant: the context freed without taking the mutex.
CloseChannelFreeUnlocked(t) ==
  /\ pc[t] = "x_free"
  /\ ctx' = "NULL"
  /\ Goto(t, "idle")
  /\ UNCHANGED <<opened, owner>>

\* lock; free (ifdh_context[ctn][slot]); set it NULL; unlock.
CloseChannelFree(t) ==
  /\ pc[t] = "x_free"
  /\ owner = NoOwner
  /\ ctx' = "NULL"
  /\ Goto(t, "idle")
  /\ UNCHANGED <<opened, owner>>

\* IFDHGetCapabilities: lock; for TAG_IFD_ATR read the ATR through the
\* context pointer, with no NULL check; other tags touch no state.
GetCapabilities(t) ==
  /\ Start(t)
  /\ \E tag \in {"TAG_IFD_ATR", "OTHER"} :
       IF tag = "TAG_IFD_ATR" THEN Lock(t) /\ Goto(t, "g_atr")
       ELSE owner = NoOwner /\ UNCHANGED <<owner, pc>>
  /\ UNCHANGED <<opened, ctx>>

\* memcpy from ifdh_context[ctn][slot]->icc_state.ATR, then unlock.
GetCapabilitiesDone(t) ==
  /\ pc[t] = "g_atr"
  /\ Unlock(t)
  /\ Goto(t, "idle")
  /\ UNCHANGED <<opened, ctx>>

\* IFDHSetProtocolParameters and IFDHPowerICC: lock; with a context, call
\* CT_data with the lock held, else unlock and return IFD_ICC_NOT_PRESENT.
LockedDataCall(t) ==
  /\ Start(t)
  /\ owner = NoOwner
  /\ IF ctx = "LIVE" THEN Lock(t) /\ Goto(t, "p_data")
     ELSE UNCHANGED <<owner, pc>>
  /\ UNCHANGED <<opened, ctx>>

\* CT_data returned OK: the ATR goes into ifdh_context[ctn][slot]->icc_state.
LockedDataOk(t) ==
  /\ pc[t] = "p_data"
  /\ Goto(t, "p_store")
  /\ UNCHANGED <<opened, ctx, owner>>

\* Fault variant: an error path that returns without unlocking.
LockedDataFailedLeaks(t) ==
  /\ pc[t] = "p_data"
  /\ Goto(t, "idle")
  /\ UNCHANGED <<opened, ctx, owner>>

\* CT_data failed: rv is an error, unlock.
LockedDataFailed(t) ==
  /\ pc[t] = "p_data"
  /\ Unlock(t)
  /\ Goto(t, "idle")
  /\ UNCHANGED <<opened, ctx>>

\* memcpy into the context's icc_state, then unlock.
StoreAtr(t) ==
  /\ pc[t] = "p_store"
  /\ Unlock(t)
  /\ Goto(t, "idle")
  /\ UNCHANGED <<opened, ctx>>

\* IFDHTransmitToICC and IFDHControl: lock, check the context, unlock, and
\* only then call CT_data.
UnlockedDataCall(t) ==
  /\ Start(t)
  /\ owner = NoOwner
  /\ IF ctx = "LIVE" THEN Goto(t, "t_data") ELSE UNCHANGED pc
  /\ UNCHANGED <<opened, ctx, owner>>

\* IFDHControl: the same lock, check, unlock and unlocked CT_data, with
\* the reader (dad 0x01) as destination; CT_data's result sets RxLength
\* and IFD_SUCCESS or IFD_COMMUNICATION_ERROR, which no property reads.
IFDHControl(t) == UnlockedDataCall(t)

\* IFDHICCPresence: CT_data with no lock at all.
ICCPresence(t) ==
  /\ Start(t)
  /\ Goto(t, "t_data")
  /\ UNCHANGED <<opened, ctx, owner>>

\* CT_data returned to an unlocked caller.
UnlockedDataDone(t) ==
  /\ pc[t] = "t_data"
  /\ Goto(t, "idle")
  /\ UNCHANGED <<opened, ctx, owner>>

-----------------------------------------------------------------------------

Init ==
  /\ opened = FALSE
  /\ ctx = "NULL"
  /\ owner = NoOwner
  /\ pc = [t \in Threads |-> "idle"]

\* A call already under way.
Busy(t) ==
  \/ CreateChannelDone(t) \/ CloseChannelDone(t) \/ CloseChannelFree(t)
  \/ LockedDataOk(t) \/ LockedDataFailed(t) \/ StoreAtr(t)
  \/ UnlockedDataDone(t) \/ GetCapabilitiesDone(t)

\* A new call by an idle thread.
Call(t) ==
  \/ CreateChannel(t) \/ CloseChannel(t) \/ LockedDataCall(t)
  \/ UnlockedDataCall(t) \/ IFDHControl(t) \/ ICCPresence(t)
  \/ GetCapabilities(t)

Next == \E t \in Threads : Call(t) \/ Busy(t)

\* A thread that has started a call keeps being scheduled, and every
\* CT-API call returns (the serial transport reads with timeouts).  No
\* fairness is assumed for acquiring the mutex: pthread mutexes are not fair.
Fairness == \A t \in Threads : WF_vars(Busy(t))

Spec == Init /\ [][Next]_vars /\ Fairness

-----------------------------------------------------------------------------
(* Properties                                                              *)

TypeOK ==
  /\ opened \in BOOLEAN
  /\ ctx \in {"LIVE", "NULL"}
  /\ owner \in Threads \cup {NoOwner}
  /\ pc \in [Threads -> {"idle", "c_init", "x_close", "x_free", "p_data",
                         "p_store", "t_data", "g_atr"}]

\* Spec 5: the slot's engine is not safe to enter from two threads; the
\* handler must serialise every call into the CT-API of one reader.
NoConcurrentCT == Cardinality(InCT) <= 1

\* IFDHSetProtocolParameters / IFDHPowerICC write the ATR into a context
\* that is still allocated: IFDHCloseChannel cannot free it in between
\* because both hold the reader mutex.
ContextLiveWhenStored == \A t \in Threads : pc[t] = "p_store" => ctx = "LIVE"

\* Every read of the context through its pointer finds it allocated: the
\* ATR read of IFDHGetCapabilities as well as the ATR write of
\* IFDHPowerICC.  IFDHCreateChannel returns IFD_SUCCESS even when malloc
\* failed, so a host may go on to ask for the ATR.
ContextLiveWhenRead ==
  \A t \in Threads : pc[t] \in {"p_store", "g_atr"} => ctx = "LIVE"

\* Every path that takes the reader mutex releases it again.
LockReleased == \A t \in Threads : owner = t ~> owner # t

=============================================================================
