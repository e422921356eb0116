---------------------------- MODULE HostSlotProofs ----------------------------
(***************************************************************************)
(* Theorems about HostSlot, for any number of installers, captures and     *)
(* outsiders: its types, the clean-up of a capture, and what a             *)
(* configuration without force may overwrite.                              *)
(***************************************************************************)
EXTENDS HostSlot, TLAPS

Put(t) == [by |-> t, op |-> "put"]

\* A task sends one PUT, and none that it left behind before.
OnePut(t) ==
  /\ carried[t] => stage[t] \in {"put", "delete"}
  /\ Put(t) \in late => stage[t] \notin {"new", "get", "refused", "put"}

\* A capture that was told of its PUT has sent no other, and undoes it.
UndoesItsOwn(t) ==
  placed[t] => /\ stage[t] \in {"back", "window", "delete", "cleared", "failed",
                                "warned", "interrupted"}
               /\ Put(t) \notin late
               /\ \/ stage[t] \in {"cleared", "failed"}
                  \/ stage[t] = "delete" /\ carried[t]
                  => slot # t

\* As long as what an installer read in the slot is the truth, the slot it
\* writes is free or its own.
Started(t) == stage[t] \notin {"new", "get", "refused"}
WritesWhatItSaw(t) == fresh[t] /\ Started(t) => slot \in {Nobody, t}

IInv ==
  /\ TypeOK
  /\ \A t \in Tasks : OnePut(t)
  /\ \A t \in Captures : UndoesItsOwn(t)
  /\ \A t \in Installers \ Forced : WritesWhatItSaw(t)

USE DEF Tasks, Owners, Awaiting, Ended

LEMMA IInvImpliesUndone == IInv => ConfiguredIsUndone
BY DEF IInv, ConfiguredIsUndone, UndoesItsOwn

LEMMA InitEstablishes == Init => IInv
<1> SUFFICES ASSUME Init PROVE IInv
  OBVIOUS
<1>1. TypeOK
  BY DEF Init, TypeOK
<1>2. \A t \in Tasks : OnePut(t) /\ UndoesItsOwn(t) /\ WritesWhatItSaw(t)
  BY DEF Init, OnePut, UndoesItsOwn, WritesWhatItSaw, Started
<1> QED BY <1>1, <1>2 DEF IInv

\* A late request of a task is one it still awaited, and had not been carried out.
LEMMA Abandons ==
  ASSUME TypeOK, NEW t \in Tasks, UNCHANGED late \/ Abandon(t)
  PROVE  /\ late' \subseteq [by : Tasks, op : {"put", "delete"}]
         /\ \A u \in Tasks : Put(u) \in late' =>
              Put(u) \in late \/ (u = t /\ stage[t] = "put")
BY DEF TypeOK, Abandon, Put

LEMMA Goes ==
  ASSUME TypeOK, NEW t \in Tasks,
         NEW next \in Awaiting \cup Ended \cup {"installed"}, Goto(t, next)
  PROVE  /\ stage'   \in [Tasks -> Awaiting \cup Ended \cup {"new", "installed"}]
         /\ carried' \in [Tasks -> BOOLEAN]
         /\ stage'[t] = next /\ ~carried'[t]
         /\ \A u \in Tasks \ {t} : stage'[u] = stage[u] /\ (carried'[u] <=> carried[u])
BY DEF TypeOK, Goto

\* What the others do, to a task that is not at work.
Bystander(u) ==
  /\ stage'[u] = stage[u]
  /\ carried'[u] <=> carried[u]
  /\ placed'[u] <=> placed[u]
  /\ fresh'[u] => fresh[u]
  /\ Put(u) \in late' => Put(u) \in late
  /\ slot' = slot \/ (slot' # u /\ ~fresh'[u])

LEMMA BystanderKept ==
  ASSUME NEW u, Bystander(u)
  PROVE  /\ OnePut(u) => OnePut(u)'
         /\ UndoesItsOwn(u) => UndoesItsOwn(u)'
         /\ WritesWhatItSaw(u) => WritesWhatItSaw(u)'
<1>1. UndoesItsOwn(u) => UndoesItsOwn(u)'
  BY DEF Bystander, UndoesItsOwn, Put
<1>2. WritesWhatItSaw(u) => WritesWhatItSaw(u)'
  BY DEF Bystander, WritesWhatItSaw, Started
<1>3. OnePut(u) => OnePut(u)'
  BY DEF Bystander, OnePut, Put
<1> QED BY <1>1, <1>2, <1>3

\* So a step need only be looked at for the task that takes it.
LEMMA OneAtWork ==
  ASSUME IInv, TypeOK', NEW t \in Tasks,
         \A u \in Tasks \ {t} : Bystander(u), OnePut(t)',
         t \in Captures => UndoesItsOwn(t)',
         t \in Installers \ Forced => WritesWhatItSaw(t)'
  PROVE  IInv'
<1>1. ASSUME NEW u \in Captures PROVE UndoesItsOwn(u)'
  BY <1>1, BystanderKept DEF IInv
<1>2. ASSUME NEW u \in Installers \ Forced PROVE WritesWhatItSaw(u)'
  BY <1>2, BystanderKept DEF IInv
<1>3. ASSUME NEW u \in Tasks PROVE OnePut(u)'
  BY <1>3, BystanderKept DEF IInv
<1> QED BY <1>1, <1>2, <1>3 DEF IInv

------------------------------------------------------------------------------
(* The steps.                                                              *)

\* A task goes on without the slot being written: where a capture that was told
\* of its PUT, or an installer that has read the slot, may not go is left to the
\* step.
LEMMA GoesOn ==
  ASSUME IInv, NEW t \in Tasks,
         NEW next \in (Awaiting \cup Ended \cup {"installed"}) \ {"put", "refused"},
         Goto(t, next), UNCHANGED late \/ Abandon(t),
         UNCHANGED <<slot, saw, placed, fresh>>,
         t \in Captures /\ placed[t] =>
           \/ next \in {"back", "window", "delete", "warned", "interrupted"}
           \/ next = "failed" /\ slot # t,
         t \in Installers => Started(t) \/ next = "get",
         next = "get" => stage[t] = "new"
  PROVE  IInv'
<1>1. TypeOK'
  BY Goes, Abandons DEF IInv, TypeOK
<1>2. \A u \in Tasks \ {t} : Bystander(u)
  BY Goes, Abandons DEF IInv, TypeOK, Bystander
<1>3. stage'[t] = next /\ ~carried'[t]
  BY Goes DEF IInv
<1>4. Put(t)' = Put(t) /\ (Put(t) \in late' => Put(t) \in late \/ stage[t] = "put")
  BY Abandons DEF IInv, Put
<1>5. OnePut(t)'
  BY <1>3, <1>4 DEF IInv, OnePut
<1>6. t \in Captures => UndoesItsOwn(t)'
  <2> SUFFICES ASSUME t \in Captures, placed[t] PROVE UndoesItsOwn(t)'
    BY DEF UndoesItsOwn
  <2>1. Put(t) \notin late /\ stage[t] # "put"
    BY DEF IInv, UndoesItsOwn
  <2> QED BY <1>3, <1>4, <2>1 DEF UndoesItsOwn
<1>7. t \in Installers \ Forced => WritesWhatItSaw(t)'
  BY <1>3 DEF IInv, WritesWhatItSaw, Started
<1> QED BY <1>1, <1>2, <1>5, <1>6, <1>7, OneAtWork

LEMMA ReadSlotPreserves ==
  ASSUME IInv, NEW t \in Tasks, ReadSlot(t)
  PROVE  IInv'
<1>1. PICK existing \in {slot, Nobody} :
        /\ saw'   = [saw EXCEPT ![t] = existing]
        /\ fresh' = [fresh EXCEPT ![t] = existing = slot]
        /\ Goto(t, IF Refuses(t, existing) THEN "refused" ELSE "put")
  BY DEF ReadSlot
<1>2. stage[t] = "get" /\ UNCHANGED <<slot, late, placed>>
  BY DEF ReadSlot
<1> DEFINE next == IF Refuses(t, existing) THEN "refused" ELSE "put"
<1>3. /\ stage' \in [Tasks -> Awaiting \cup Ended \cup {"new", "installed"}]
      /\ carried' \in [Tasks -> BOOLEAN]
      /\ stage'[t] = next /\ ~carried'[t]
      /\ \A u \in Tasks \ {t} : stage'[u] = stage[u] /\ (carried'[u] <=> carried[u])
  BY <1>1, Goes DEF IInv
<1>4. TypeOK'
  BY <1>1, <1>2, <1>3 DEF IInv, TypeOK
<1>5. \A u \in Tasks \ {t} : Bystander(u)
  BY <1>1, <1>2, <1>3 DEF IInv, TypeOK, Bystander
<1>6. t \in Captures => UndoesItsOwn(t)'
  BY <1>2 DEF IInv, UndoesItsOwn
<1>7. t \in Installers \ Forced => WritesWhatItSaw(t)'
  <2> SUFFICES ASSUME t \in Installers \ Forced PROVE WritesWhatItSaw(t)'
    OBVIOUS
  <2>1. ASSUME fresh'[t], next = "put" PROVE slot \in {Nobody, t}
    <3>1. existing = slot
      BY <1>1, <2>1 DEF IInv, TypeOK
    <3> QED BY <2>1, <3>1 DEF Refuses
  <2> QED BY <1>2, <1>3, <2>1 DEF WritesWhatItSaw, Started
<1>8. OnePut(t)'
  BY <1>2, <1>3 DEF IInv, OnePut, Put
<1> QED BY <1>4, <1>5, <1>6, <1>7, <1>8, OneAtWork

\* The device writes: what the others saw is no longer the truth.
LEMMA Writes ==
  ASSUME TypeOK, NEW t \in Tasks, NEW op \in {"put", "delete"}, Write(t, op)
  PROVE  /\ slot' \in {Nobody, t}
         /\ fresh' \in [Tasks -> BOOLEAN]
         /\ \A u \in Tasks \ {t} : slot' # u /\ ~fresh'[u]
         /\ fresh'[t] => fresh[t]
         /\ op = "delete" => slot' # t
<1>1. t # Nobody /\ Nobody \notin Tasks
  BY HostSlotAssumption
<1> QED BY <1>1 DEF Write, TypeOK

LEMMA CarryOutPreserves ==
  ASSUME IInv, NEW t \in Tasks, CarryOut(t)
  PROVE  IInv'
<1>1. /\ stage[t] \in {"put", "delete"} /\ Write(t, stage[t])
      /\ carried' = [carried EXCEPT ![t] = TRUE]
      /\ UNCHANGED <<stage, late, saw, placed>>
  BY DEF CarryOut
<1>2. TypeOK'
  BY <1>1, Writes DEF IInv, TypeOK
<1>3. \A u \in Tasks \ {t} : Bystander(u)
  BY <1>1, Writes DEF IInv, TypeOK, Bystander
<1>4. t \in Captures => UndoesItsOwn(t)'
  BY <1>1, Writes DEF IInv, UndoesItsOwn, Put
<1>5. t \in Installers \ Forced => WritesWhatItSaw(t)'
  BY <1>1, Writes DEF IInv, WritesWhatItSaw, Started
<1>6. OnePut(t)'
  BY <1>1 DEF IInv, TypeOK, OnePut, Put
<1> QED BY <1>2, <1>3, <1>4, <1>5, <1>6, OneAtWork

LEMMA CarryOutLatePreserves ==
  ASSUME IInv, NEW request \in late, CarryOutLate(request)
  PROVE  IInv'
<1> DEFINE t == request.by
<1>1. /\ t \in Tasks /\ request.op \in {"put", "delete"}
      /\ request = [by |-> t, op |-> request.op]
  BY DEF IInv, TypeOK
<1>2. /\ Write(t, request.op) /\ late' = late \ {request}
      /\ UNCHANGED <<stage, carried, saw, placed>>
  BY DEF CarryOutLate
<1> HIDE DEF t
<1>3. TypeOK'
  BY <1>1, <1>2, Writes DEF IInv, TypeOK
<1>4. \A u \in Tasks \ {t} : Bystander(u)
  BY <1>1, <1>2, Writes DEF IInv, TypeOK, Bystander
<1>5. t \in Captures => UndoesItsOwn(t)'
  <2> SUFFICES ASSUME t \in Captures, placed[t] PROVE UndoesItsOwn(t)'
    BY <1>2 DEF UndoesItsOwn
  <2>1. Put(t) \notin late /\ request.op = "delete"
    BY <1>1 DEF IInv, UndoesItsOwn, Put
  <2> QED BY <1>1, <1>2, <2>1, Writes DEF IInv, UndoesItsOwn, Put
<1>6. t \in Installers \ Forced => WritesWhatItSaw(t)'
  BY <1>1, <1>2, Writes DEF IInv, WritesWhatItSaw, Started
<1>7. OnePut(t)'
  BY <1>1, <1>2 DEF IInv, OnePut, Put
<1> QED BY <1>1, <1>3, <1>4, <1>5, <1>6, <1>7, OneAtWork

LEMMA TakeOverPreserves ==
  ASSUME IInv, NEW o \in Outsiders, TakeOver(o)
  PROVE  IInv'
<1>1. o \notin Tasks
  BY HostSlotAssumption
<1>2. TypeOK'
  BY DEF TakeOver, IInv, TypeOK
<1>3. \A u \in Tasks : Bystander(u)
  BY <1>1 DEF TakeOver, Bystander
<1> QED BY <1>2, <1>3, BystanderKept DEF IInv

\* The awaited request succeeds: for a capture, only now is the PUT its own to
\* undo, and there is no other on its way.
LEMMA SucceedPreserves ==
  ASSUME IInv, NEW t \in Tasks, Succeed(t)
  PROVE  IInv'
<1> DEFINE next == IF stage[t] = "delete" THEN "cleared"
                   ELSE IF t \in Captures THEN "back" ELSE "installed"
<1>1. /\ carried[t] /\ Goto(t, next) /\ UNCHANGED <<slot, late, saw, fresh>>
      /\ placed' = [placed EXCEPT ![t] = @ \/ stage[t] = "put"]
  BY DEF Succeed
<1>2. /\ stage' \in [Tasks -> Awaiting \cup Ended \cup {"new", "installed"}]
      /\ carried' \in [Tasks -> BOOLEAN]
      /\ stage'[t] = next /\ ~carried'[t]
      /\ \A u \in Tasks \ {t} : stage'[u] = stage[u] /\ (carried'[u] <=> carried[u])
  BY <1>1, Goes DEF IInv
<1>3. TypeOK'
  BY <1>1, <1>2 DEF IInv, TypeOK
<1>4. \A u \in Tasks \ {t} : Bystander(u)
  BY <1>1, <1>2 DEF IInv, TypeOK, Bystander
<1>5. stage[t] \in {"put", "delete"}
  BY <1>1 DEF IInv, OnePut
<1>6. OnePut(t)'
  BY <1>1, <1>2 DEF IInv, OnePut, Put
<1>7. t \in Captures => UndoesItsOwn(t)'
  <2>1. CASE stage[t] = "put"
    BY <1>1, <1>2, <2>1 DEF IInv, OnePut, UndoesItsOwn, Put
  <2>2. CASE stage[t] = "delete"
    BY <1>1, <1>2, <2>2 DEF IInv, TypeOK, UndoesItsOwn, Put
  <2> QED BY <1>5, <2>1, <2>2
<1>8. t \in Installers \ Forced => WritesWhatItSaw(t)'
  BY <1>1, <1>2, <1>5 DEF IInv, WritesWhatItSaw, Started
<1> QED BY <1>3, <1>4, <1>6, <1>7, <1>8, OneAtWork

\* Every step of the tasks, the device and the others preserves the invariant.
LEMMA StepPreserves == IInv /\ [Next]_vars => IInv'
<1> SUFFICES ASSUME IInv, [Next]_vars PROVE IInv'
  OBVIOUS
<1>1. ASSUME NEW t \in Tasks, Begin(t) PROVE IInv'
  <2>1. ~(t \in Captures /\ placed[t]) /\ ~Started(t)
    BY <1>1 DEF Begin, IInv, UndoesItsOwn, Started
  <2> QED BY <1>1, <2>1, GoesOn DEF Begin
<1>2. ASSUME NEW t \in Tasks, ReadSlot(t) PROVE IInv'
  BY <1>2, ReadSlotPreserves
<1>3. ASSUME NEW t \in Tasks, CarryOut(t) PROVE IInv'
  BY <1>3, CarryOutPreserves
<1>4. ASSUME NEW t \in Tasks, Succeed(t) PROVE IInv'
  BY <1>4, SucceedPreserves
<1>5. ASSUME NEW t \in Tasks, Clear(t) PROVE IInv'
  <2>1. Started(t)
    BY <1>5 DEF Clear, Started
  <2> QED BY <1>5, <2>1, GoesOn DEF Clear
<1>6. ASSUME NEW t \in Tasks, GoOn(t) PROVE IInv'
  <2>1. Started(t)
    BY <1>6 DEF GoOn, Started
  <2> QED BY <1>6, <2>1, GoesOn DEF GoOn
<1>7. ASSUME NEW t \in Tasks, Fail(t) PROVE IInv'
  <2>1. PICK next \in AfterFailure(t) : Goto(t, next)
    BY <1>7 DEF Fail
  <2>2. /\ stage[t] \in {"put", "delete", "back"}
        /\ UNCHANGED late \/ Abandon(t)
        /\ UNCHANGED <<slot, saw, placed, fresh>>
    BY <1>7 DEF Fail
  <2>3. Started(t)
    BY <2>2 DEF Started
  <2>4. next \in {"delete", "warned", "failed"}
    BY <2>1 DEF AfterFailure
  <2>5. t \in Captures /\ placed[t] =>
          next \in {"delete", "warned"} \/ (next = "failed" /\ slot # t)
    BY <2>1, <2>2 DEF IInv, UndoesItsOwn, Configured, AfterFailure
  <2> QED BY <2>1, <2>2, <2>3, <2>4, <2>5, GoesOn
<1>8. ASSUME NEW t \in Tasks, Interrupt(t) PROVE IInv'
  <2>1. t \notin Installers
    BY <1>8, HostSlotAssumption DEF Interrupt
  <2> QED BY <1>8, <2>1, GoesOn DEF Interrupt
<1>9. ASSUME NEW request \in late, CarryOutLate(request) PROVE IInv'
  BY <1>9, CarryOutLatePreserves
<1>10. ASSUME NEW o \in Outsiders, TakeOver(o) PROVE IInv'
  BY <1>10, TakeOverPreserves
<1>11. CASE UNCHANGED vars
  <2>1. TypeOK' /\ \A u \in Tasks : Bystander(u)
    BY <1>11 DEF vars, IInv, TypeOK, Bystander
  <2> QED BY <2>1, BystanderKept DEF IInv
<1> QED BY <1>1, <1>2, <1>3, <1>4, <1>5, <1>6, <1>7, <1>8, <1>9, <1>10, <1>11
        DEF Next

LEMMA Invariance == Spec => []IInv
BY InitEstablishes, StepPreserves, PTL DEF Spec

------------------------------------------------------------------------------
(* The theorems.                                                           *)

\* Type correctness.
THEOREM TypeCorrect == Spec => []TypeOK
<1>1. IInv => TypeOK
  BY DEF IInv
<1> QED BY <1>1, Invariance, PTL

\* A capture that was told that the device is configured does not end without
\* its warning as long as the device is.
THEOREM CaptureCleansUp == Spec => []ConfiguredIsUndone
BY IInvImpliesUndone, Invariance, PTL

\* A configuration without force takes no address out of the slot that it could
\* have seen there.  Only two steps write the address of a task.
THEOREM OverwritesNothingSeen == Spec => OverwritesOnlyUnseen
<1>1. IInv /\ [Next]_vars =>
        [\A t \in Installers \ Forced : fresh[t] => Takes(t, {Nobody})]_vars
  <2> SUFFICES ASSUME IInv, Next, NEW t \in Installers \ Forced, fresh[t],
                      slot' = t, slot' # slot
               PROVE  slot = Nobody
    BY DEF Takes
  <2> USE HostSlotAssumption
  <2>1. \/ CarryOut(t) /\ stage[t] = "put"
        \/ CarryOutLate(Put(t)) /\ Put(t) \in late
    <3>1. ASSUME NEW u \in Tasks, CarryOut(u)
          PROVE  CarryOut(t) /\ stage[t] = "put"
      BY <3>1 DEF CarryOut, Write
    <3>2. ASSUME NEW request \in late, CarryOutLate(request)
          PROVE  CarryOutLate(Put(t)) /\ Put(t) \in late
      <4>1. request.op = "put" /\ request.by = t
        BY <3>2 DEF CarryOutLate, Write, IInv, TypeOK
      <4>2. request = Put(t)
        BY <4>1 DEF Put, IInv, TypeOK
      <4> QED BY <3>2, <4>2
    <3>3. ASSUME NEW o \in Outsiders PROVE ~TakeOver(o)
      BY DEF TakeOver
    <3> QED BY <3>1, <3>2, <3>3
            DEF Next, Begin, ReadSlot, Succeed, Clear, GoOn, Fail, Interrupt
  <2>2. Started(t)
    BY <2>1 DEF IInv, OnePut, Started
  <2> QED BY <2>2 DEF IInv, WritesWhatItSaw
<1> QED BY <1>1, Invariance, PTL DEF Spec, OverwritesOnlyUnseen
==============================================================================
