------------------------------ MODULE HostSlot ------------------------------
(***************************************************************************)
(* The one httpHosts slot of the device, and those who write it without    *)
(* any lock: configure_host and clear_host (isapi/webhook.py), the capture *)
(* tool (main of tools/capture_httphost.py), and outsiders, an NVR or      *)
(* HikConnect, that just write it.                                         *)
(*                                                                         *)
(* A task is one configuration, named by the address it writes: it reads   *)
(* the slot, may PUT its address, and later DELETEs what is there.  Each   *)
(* of these awaits a request, in which the device acts at one moment and   *)
(* the task goes on at a later one.  A request that fails may have been    *)
(* carried out, or be carried out yet (what RemoteCall says of request).   *)
(***************************************************************************)
CONSTANTS
  Installers,     \* calls of configure_host, each followed by clear_host
  Forced,         \* those with force=True
  Captures,       \* runs of the capture tool
  Outsiders,      \* other consumers of the slot
  Nobody          \* a slot that is free, or blank as the factory left it

ASSUME HostSlotAssumption ==
  /\ Forced \subseteq Installers
  /\ Installers \cap Captures = {}
  /\ Outsiders \cap (Installers \cup Captures) = {}
  /\ Nobody \notin Installers \cup Captures \cup Outsiders

Tasks  == Installers \cup Captures
Owners == Tasks \cup Outsiders

VARIABLES
  slot,     \* device: whose address is configured
  stage,    \* stage[t]: the request t awaits, or how it ended
  carried,  \* carried[t]: the device has carried that request out
  late,     \* [by, op]: failed requests the device has not carried out
  saw,      \* saw[t]: the owner t read, `existing' or `original'
  placed,   \* placed[t]: t was told that its PUT succeeded
  fresh     \* history: fresh[t]: that was the truth, and nobody else has
            \* written the slot since

vars == <<slot, stage, carried, late, saw, placed, fresh>>

\* "back" and "window" are the readback and the sleep of the capture tool.
Awaiting == {"get", "put", "delete", "back", "window"}
Ended    == {"refused", "failed", "cleared", "warned", "interrupted"}

TypeOK ==
  /\ slot    \in Owners \cup {Nobody}
  /\ stage   \in [Tasks -> Awaiting \cup Ended \cup {"new", "installed"}]
  /\ carried \in [Tasks -> BOOLEAN]
  /\ late    \subseteq [by : Tasks, op : {"put", "delete"}]
  /\ saw     \in [Tasks -> Owners \cup {Nobody}]
  /\ placed  \in [Tasks -> BOOLEAN]
  /\ fresh   \in [Tasks -> BOOLEAN]

Init ==
  /\ slot    \in Outsiders \cup {Nobody}
  /\ stage   = [t \in Tasks |-> "new"]
  /\ carried = [t \in Tasks |-> FALSE]
  /\ late    = {}
  /\ saw     = [t \in Tasks |-> Nobody]
  /\ placed  = [t \in Tasks |-> FALSE]
  /\ fresh   = [t \in Tasks |-> FALSE]

------------------------------------------------------------------------------
Goto(t, next) ==
  /\ stage'   = [stage EXCEPT ![t] = next]
  /\ carried' = [carried EXCEPT ![t] = FALSE]

Begin(t) ==
  /\ stage[t] = "new" /\ Goto(t, "get")
  /\ UNCHANGED <<slot, late, saw, placed, fresh>>

\* configure_host raises HttpHostSlotInUse; the capture tool never does.
Refuses_Ours(t, existing) == t \in Installers \ Forced /\ existing = t
Refuses(t, existing) ==
  t \in Installers \ Forced /\ existing \notin {Nobody, t}

\* The GET, and what follows it up to the PUT.  Any failure is taken for a
\* free slot: the device does answer 400 if there is no entry.
ReadSlot(t) ==
  /\ stage[t] = "get"
  /\ \E existing \in {slot, Nobody} :
       /\ saw'   = [saw EXCEPT ![t] = existing]
       /\ fresh' = [fresh EXCEPT ![t] = existing = slot]
       /\ Goto(t, IF Refuses(t, existing) THEN "refused" ELSE "put")
  /\ UNCHANGED <<slot, late, placed>>

\* The device carries out a PUT or a DELETE.
Write(t, op) ==
  /\ slot'  = IF op = "put" THEN t ELSE Nobody
  /\ fresh' = [u \in Tasks |-> fresh[u] /\ u = t]

CarryOut(t) ==
  /\ stage[t] \in {"put", "delete"} /\ ~carried[t]
  /\ Write(t, stage[t])
  /\ carried' = [carried EXCEPT ![t] = TRUE]
  /\ UNCHANGED <<stage, late, saw, placed>>

CarryOutLate(request) ==
  /\ Write(request.by, request.op)
  /\ late' = late \ {request}
  /\ UNCHANGED <<stage, carried, saw, placed>>

\* An outsider writes the slot.
TakeOver(o) ==
  /\ slot' = o
  /\ fresh' = [t \in Tasks |-> FALSE]
  /\ UNCHANGED <<stage, carried, late, saw, placed>>

\* The awaited request succeeds.
Succeed(t) ==
  /\ carried[t]
  /\ placed' = [placed EXCEPT ![t] = @ \/ stage[t] = "put"]
  /\ Goto(t, IF stage[t] = "delete" THEN "cleared"
             ELSE IF t \in Captures THEN "back" ELSE "installed")
  /\ UNCHANGED <<slot, late, saw, fresh>>

\* clear_host, also after a configure_host that raised.
Clear(t) ==
  /\ t \in Installers /\ stage[t] \in {"installed", "failed"}
  /\ Goto(t, "delete")
  /\ UNCHANGED <<slot, late, saw, placed, fresh>>

\* The window of the capture tool: the readback answers, the sleep ends.
GoOn(t) ==
  /\ \/ stage[t] = "back" /\ Goto(t, "window")
     \/ stage[t] = "window" /\ Goto(t, "delete")
  /\ UNCHANGED <<slot, late, saw, placed, fresh>>

\* `configured', when an exception leaves the try block of the capture tool:
\* the finally block then sends the DELETE.
Configured_ReadBack(t) == t \in Captures /\ stage[t] = "window"
Configured(t) == t \in Captures /\ stage[t] \in {"back", "window"}

\* The awaited request is given up; the device may come to it later.
Abandon_Any(t) ==
  late' = IF ~carried[t] THEN late \cup {[by |-> t, op |-> stage[t]]} ELSE late
Abandon(t) ==
  late' = IF stage[t] \in {"put", "delete"} /\ ~carried[t]
            THEN late \cup {[by |-> t, op |-> stage[t]]} ELSE late

\* Where an exception takes the task.  The capture tool warns of an IsapiError
\* of its DELETE; that the answer to it does not parse is none, and ends it
\* without a warning.
AfterFailure(t) ==
  IF Configured(t) THEN {"delete"}
  ELSE IF t \in Captures /\ stage[t] = "delete"
       THEN {"warned"} \cup IF carried[t] THEN {"failed"} ELSE {}
  ELSE {"failed"}

\* The awaited request raises.
Fail(t) ==
  /\ stage[t] \in {"put", "delete", "back"}
  /\ UNCHANGED late \/ Abandon(t)
  /\ \E next \in AfterFailure(t) : Goto(t, next)
  /\ UNCHANGED <<slot, saw, placed, fresh>>

\* Ctrl-C cancels main of the capture tool in whatever it awaits.
Interrupt(t) ==
  /\ t \in Captures /\ stage[t] \in Awaiting
  /\ Abandon(t)
  /\ Goto(t, IF Configured(t) THEN "delete" ELSE "interrupted")
  /\ UNCHANGED <<slot, saw, placed, fresh>>

Next ==
  \/ \E t \in Tasks :
       \/ Begin(t) \/ ReadSlot(t) \/ CarryOut(t) \/ Succeed(t) \/ Clear(t)
       \/ GoOn(t) \/ Fail(t) \/ Interrupt(t)
  \/ \E request \in late : CarryOutLate(request)
  \/ \E o \in Outsiders : TakeOver(o)

Spec == Init /\ [][Next]_vars

------------------------------------------------------------------------------
(* Properties.                                                             *)

Takes(t, slots) == slot' = t /\ slot' # slot => slot \in slots

\* configure_host without force takes no address out of the slot that it could
\* have seen there: at worst one its GET failed to return, or that was written
\* between its GET and its PUT.
OverwritesOnlyUnseen ==
  [][\A t \in Installers \ Forced : fresh[t] => Takes(t, {Nobody})]_vars

\* A capture that was told that the device is configured does not end without
\* its warning as long as the device is: whatever fails or is interrupted, save
\* that the clean-up itself is interrupted.
ConfiguredIsUndone ==
  \A t \in Captures :
    placed[t] /\ stage[t] \in {"failed", "cleared"} => slot # t
=============================================================================
