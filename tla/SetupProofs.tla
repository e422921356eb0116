----------------------------- MODULE SetupProofs -----------------------------
(***************************************************************************)
(* Theorems about Setup, for any devices, flows and entries: its types, one*)
(* entry per device, and what may be stored.  A reauth flow writes into the*)
(* entry it was opened for, so the proof needs that there still is one.    *)
(***************************************************************************)
EXTENDS Setup, TLAPS

\* Whatever is under way for an entry, the entry is there.
Grounded ==
  \A e \in Entries :
    phase[e] # "new" \/ reauth[e] \/ sent[e] # Nothing => stored[e] # Nothing

IInv == TypeOK /\ OneEntryPerDevice /\ Grounded

\* A request that succeeds had the right login.
LEMMA OkIsAccepted ==
  ASSUME NEW login, "ok" \in Outcomes(login)
  PROVE  Accepts(login)
BY DEF Outcomes

\* A device that accepts a login is one.
LEMMA AcceptedIsDevice ==
  ASSUME TypeOK, NEW login \in Logins, Accepts(login)
  PROVE  at[login.host] \in Devices
BY DEF TypeOK, Accepts, Logins

\* What an entry stores is no longer Nothing once its login is replaced, is of
\* the same device, and no other entry changes.
LEMMA LoginReplaced ==
  ASSUME TypeOK, NEW e \in Entries, stored[e] # Nothing, NEW login \in Logins,
         stored' = [stored EXCEPT ![e].login = login]
  PROVE  /\ stored' \in [Entries -> Rows \cup {Nothing}]
         /\ stored'[e].device = stored[e].device /\ stored'[e].login = login
         /\ stored'[e] # Nothing
         /\ \A f \in Entries \ {e} : stored'[f] = stored[f]
<1>1. stored \in [Entries -> Rows \cup {Nothing}] /\ stored[e] \in Rows
  BY DEF TypeOK
<1>2. stored'[e] = [stored[e] EXCEPT !.login = login]
  BY <1>1
<1>3. stored'[e] \in Rows /\ stored'[e].device = stored[e].device
      /\ stored'[e].login = login
  BY <1>1, <1>2 DEF Rows
<1>4. \A f \in Entries \ {e} : stored'[f] = stored[f]
  BY <1>1
<1>5. Nothing \notin Rows
  BY NothingAssumption DEF Rows
<1>6. stored' \in [Entries -> Rows \cup {Nothing}]
  BY <1>1, <1>3, <1>4
<1> QED BY <1>3, <1>4, <1>5, <1>6

\* A new login keeps the entries of different devices apart.
LEMMA ReplacingKeepsOne ==
  ASSUME IInv, NEW e \in Entries, stored[e] # Nothing, NEW login \in Logins,
         stored' = [stored EXCEPT ![e].login = login]
  PROVE  OneEntryPerDevice' /\ \A f \in Entries : stored[f] # Nothing => stored'[f] # Nothing
<1>1. \A f \in Entries : /\ stored'[f] # Nothing <=> stored[f] # Nothing
                         /\ stored[f] # Nothing => stored'[f].device = stored[f].device
  BY LoginReplaced DEF IInv
<1> QED BY <1>1 DEF IInv, OneEntryPerDevice

LEMMA InitEstablishes == Init => IInv
BY SetupAssumption DEF Init, IInv, TypeOK, Placements, Phases, Underway,
                       OneEntryPerDevice, Grounded

------------------------------------------------------------------------------
(* The steps.                                                              *)

\* The answer to the user step: an entry is made for a device that has none.
LEMMA ValidatedPreserves ==
  ASSUME IInv, NEW f \in Flows, Validated(f)
  PROVE  IInv'
<1> DEFINE d == at[flow[f].host]
<1>1. flow[f] \in Logins /\ Accepts(flow[f])
  BY OkIsAccepted DEF Validated, IInv, TypeOK
<1>2. d \in Devices
  BY <1>1, AcceptedIsDevice DEF IInv
<1>3. /\ UNCHANGED <<at, secret, changes, phase, using, reauth, sent>>
      /\ flow' \in [Flows -> Logins \cup {Nothing}]
  BY DEF Validated, world, IInv, TypeOK
<1>4. CASE Configured(d) # {}
  <2>1. PICK e \in Configured(d) : UpdateEntry(e, flow[f])
    BY <1>4 DEF Validated
  <2>2. e \in Entries /\ stored[e] # Nothing
        /\ stored' = [stored EXCEPT ![e].login = flow[f]]
    BY <2>1 DEF Configured, UpdateEntry
  <2>3. stored' \in [Entries -> Rows \cup {Nothing}]
    BY <1>1, <2>2, LoginReplaced DEF IInv
  <2>4. reload' \in [Entries -> BOOLEAN]
    BY <2>1 DEF UpdateEntry, IInv, TypeOK
  <2>5. OneEntryPerDevice' /\ \A g \in Entries : stored[g] # Nothing => stored'[g] # Nothing
    BY <1>1, <2>2, ReplacingKeepsOne
  <2>6. Grounded'
    BY <1>3, <2>5 DEF IInv, Grounded
  <2> QED BY <1>3, <2>3, <2>4, <2>5, <2>6 DEF IInv, TypeOK
<1>5. CASE Configured(d) = {}
  <2>1. CreateEntry(d, flow[f])
    BY <1>5 DEF Validated
  <2>2. PICK e \in Entries :
          /\ stored[e] = Nothing
          /\ stored' = [stored EXCEPT ![e] = [device |-> d, login |-> flow[f]]]
    BY <2>1 DEF CreateEntry
  <2>3. [device |-> d, login |-> flow[f]] \in Rows
    BY <1>1, <1>2 DEF Rows
  <2>4. /\ stored' \in [Entries -> Rows \cup {Nothing}]
        /\ stored'[e].device = d /\ stored'[e] # Nothing
        /\ \A g \in Entries \ {e} : stored'[g] = stored[g]
    <3>1. stored'[e] = [device |-> d, login |-> flow[f]]
      BY <2>2 DEF IInv, TypeOK
    <3>2. Nothing \notin Rows
      BY NothingAssumption DEF Rows
    <3> QED BY <2>2, <2>3, <3>1, <3>2 DEF IInv, TypeOK
  <2>5. \A g \in Entries : stored[g] # Nothing => stored[g].device # d
    BY <1>5 DEF Configured
  <2>6. OneEntryPerDevice'
    BY <2>4, <2>5 DEF IInv, OneEntryPerDevice
  <2>7. Grounded'
    BY <1>3, <2>4 DEF IInv, Grounded
  <2>8. UNCHANGED reload
    BY <2>1 DEF CreateEntry
  <2> QED BY <1>3, <2>4, <2>6, <2>7, <2>8 DEF IInv, TypeOK
<1> QED BY <1>4, <1>5

\* The answer to a reauth flow.
LEMMA ReauthPreserves ==
  ASSUME IInv, NEW e \in Entries, ReauthValidated(e)
  PROVE  IInv'
<1>1. sent[e] \in Logins /\ stored[e] # Nothing
  BY DEF ReauthValidated, IInv, TypeOK, Grounded
<1>2. stored' = [stored EXCEPT ![e].login = sent[e]]
  BY DEF ReauthValidated, ReauthData
<1>3. /\ UNCHANGED <<at, secret, changes, flow, phase, using>>
      /\ reload' \in [Entries -> BOOLEAN]
      /\ reauth' \in [Entries -> BOOLEAN]
      /\ sent' \in [Entries -> Logins \cup {Nothing}]
      /\ \A g \in Entries : (reauth'[g] => reauth[g]) /\ (sent'[g] # Nothing => sent[g] # Nothing)
  BY DEF ReauthValidated, Reloaded, world, IInv, TypeOK
<1>4. stored' \in [Entries -> Rows \cup {Nothing}]
  BY <1>1, <1>2, LoginReplaced DEF IInv
<1>5. OneEntryPerDevice' /\ \A g \in Entries : stored[g] # Nothing => stored'[g] # Nothing
  BY <1>1, <1>2, ReplacingKeepsOne
<1>6. Grounded'
  BY <1>3, <1>5 DEF IInv, Grounded
<1> QED BY <1>3, <1>4, <1>5, <1>6 DEF IInv, TypeOK

\* No other step touches the entries; each keeps its types, and starts what it
\* starts only for an entry.
LEMMA SubmitsPreserve ==
  ASSUME IInv, NEW e \in Entries, NEW p \in Passwords, SubmitReauth(e, p)
  PROVE  IInv'
<1>1. stored[e] \in Rows
  BY DEF SubmitReauth, IInv, TypeOK, Grounded
<1>2. [stored[e].login EXCEPT !.password = p] \in Logins
  BY <1>1 DEF Rows, Logins
<1>3. TypeOK'
  BY <1>2 DEF SubmitReauth, world, IInv, TypeOK
<1>4. OneEntryPerDevice'
  BY DEF SubmitReauth, IInv, OneEntryPerDevice
<1>5. Grounded'
  BY DEF SubmitReauth, IInv, TypeOK, Grounded
<1> QED BY <1>3, <1>4, <1>5 DEF IInv

LEMMA ProceedPreserves ==
  ASSUME IInv, NEW e \in Entries,
         NEW outcome \in {"ok", "rejected", "unavailable", "garbled"},
         Proceed(e, outcome)
  PROVE  IInv'
<1>1. After(phase[e], outcome) \in Phases
  BY DEF Proceed, After, AfterInfo, AfterProbe, AfterRefresh, Underway, Phases
<1>2. stored[e] # Nothing
  BY DEF Proceed, Underway, IInv, Grounded
<1>3. /\ UNCHANGED <<at, secret, changes, flow, stored, reload, sent>>
      /\ phase' \in [Entries -> Phases]
      /\ \A g \in Entries \ {e} : phase'[g] = phase[g]
  BY <1>1 DEF Proceed, world, IInv, TypeOK
<1>4. using' \in [Entries -> Logins \cup {Nothing}]
  BY DEF Proceed, IInv, TypeOK
<1>5. /\ reauth' \in [Entries -> BOOLEAN]
      /\ \A g \in Entries \ {e} : reauth'[g] <=> reauth[g]
  BY DEF Proceed, AskFor, IInv, TypeOK
<1>6. TypeOK'
  BY <1>3, <1>4, <1>5 DEF IInv, TypeOK
<1>7. OneEntryPerDevice'
  BY <1>3 DEF IInv, OneEntryPerDevice
<1>8. Grounded'
  BY <1>2, <1>3, <1>5 DEF IInv, Grounded
<1> QED BY <1>6, <1>7, <1>8 DEF IInv

\* The steps that leave the entries, and what is under way for them, alone.
LEMMA WorldPreserves ==
  ASSUME IInv, UNCHANGED <<stored, phase, reauth, sent, using>>,
         at' \in [Addresses -> Devices \cup {Nothing}],
         secret' \in [Devices -> Passwords], changes' \in 0 .. MaxChanges,
         flow' \in [Flows -> Logins \cup {Nothing}],
         reload' \in [Entries -> BOOLEAN]
  PROVE  IInv'
<1>1. TypeOK'
  BY DEF IInv, TypeOK
<1>2. OneEntryPerDevice' /\ Grounded'
  BY DEF IInv, OneEntryPerDevice, Grounded
<1> QED BY <1>1, <1>2 DEF IInv

LEMMA ChangeCounts ==
  ASSUME TypeOK, Change
  PROVE  changes' \in 0 .. MaxChanges
BY SetupAssumption DEF TypeOK, Change

\* Every step of the flows, the set-ups and the world preserves the invariant.
LEMMA StepPreserves == IInv /\ [Next]_vars => IInv'
<1> SUFFICES ASSUME IInv, [Next]_vars PROVE IInv'
  OBVIOUS
<1>1. ASSUME NEW f \in Flows, NEW login \in Logins, Submit(f, login)
      PROVE  IInv'
  BY <1>1, WorldPreserves DEF Submit, world, entries, IInv, TypeOK
<1>2. ASSUME NEW f \in Flows, Validated(f) PROVE IInv'
  BY <1>2, ValidatedPreserves
<1>3. ASSUME NEW f \in Flows, Refused(f) PROVE IInv'
  BY <1>3, WorldPreserves DEF Refused, world, entries, IInv, TypeOK
<1>4. ASSUME NEW e \in Entries, NEW p \in Passwords, SubmitReauth(e, p)
      PROVE  IInv'
  BY <1>4, SubmitsPreserve
<1>5. ASSUME NEW e \in Entries, ReauthValidated(e) PROVE IInv'
  BY <1>5, ReauthPreserves
<1>6. ASSUME NEW e \in Entries, ReauthRefused(e) PROVE IInv'
  <2>1. TypeOK'
    BY <1>6 DEF ReauthRefused, world, IInv, TypeOK
  <2>2. OneEntryPerDevice' /\ Grounded'
    BY <1>6 DEF ReauthRefused, IInv, TypeOK, OneEntryPerDevice, Grounded
  <2> QED BY <2>1, <2>2 DEF IInv
<1>7. ASSUME NEW e \in Entries, StartSetup(e) PROVE IInv'
  <2>1. TypeOK'
    <3>1. stored[e].login \in Logins
      BY <1>7 DEF StartSetup, IInv, TypeOK, Rows
    <3>2. "info" \in Phases
      BY DEF Phases, Underway
    <3> QED BY <1>7, <3>1, <3>2 DEF StartSetup, world, IInv, TypeOK
  <2>2. OneEntryPerDevice' /\ Grounded'
    BY <1>7 DEF StartSetup, IInv, TypeOK, OneEntryPerDevice, Grounded
  <2> QED BY <2>1, <2>2 DEF IInv
<1>8. ASSUME NEW e \in Entries, Reload(e) PROVE IInv'
  <2>1. TypeOK'
    BY <1>8 DEF Reload, world, IInv, TypeOK, Phases
  <2>2. OneEntryPerDevice' /\ Grounded'
    BY <1>8 DEF Reload, IInv, TypeOK, OneEntryPerDevice, Grounded
  <2> QED BY <2>1, <2>2 DEF IInv
<1>9. ASSUME NEW e \in Entries,
             NEW outcome \in {"ok", "rejected", "unavailable", "garbled"},
             Proceed(e, outcome)
      PROVE  IInv'
  BY <1>9, ProceedPreserves
<1>10. ASSUME NEW e \in Entries, ChangeOptions(e) \/ AskReload(e) PROVE IInv'
  <2>1. changes' \in 0 .. MaxChanges
    BY <1>10, ChangeCounts DEF ChangeOptions, AskReload, IInv
  <2> QED BY <1>10, <2>1, WorldPreserves DEF ChangeOptions, AskReload, IInv, TypeOK
<1>11. CASE Readdress
  <2>1. changes' \in 0 .. MaxChanges
    BY <1>11, ChangeCounts DEF Readdress, IInv
  <2> QED BY <1>11, <2>1, WorldPreserves
             DEF Readdress, Placements, entries, IInv, TypeOK
<1>12. ASSUME NEW d \in Devices, NEW p \in Passwords, SetPassword(d, p)
       PROVE  IInv'
  <2>1. changes' \in 0 .. MaxChanges
    BY <1>12, ChangeCounts DEF SetPassword, IInv
  <2> QED BY <1>12, <2>1, WorldPreserves DEF SetPassword, entries, IInv, TypeOK
<1>13. CASE Restart
  <2>1. changes' \in 0 .. MaxChanges
    BY <1>13, ChangeCounts DEF Restart, IInv
  <2>2. TypeOK'
    BY <1>13, <2>1 DEF Restart, IInv, TypeOK, Phases
  <2>3. OneEntryPerDevice' /\ Grounded'
    BY <1>13 DEF Restart, IInv, OneEntryPerDevice, Grounded
  <2> QED BY <2>2, <2>3 DEF IInv
<1>14. CASE UNCHANGED vars
  BY <1>14, WorldPreserves DEF vars, world, entries, IInv, TypeOK
<1> QED BY <1>1, <1>2, <1>3, <1>4, <1>5, <1>6, <1>7, <1>8, <1>9, <1>10, <1>11,
           <1>12, <1>13, <1>14 DEF Next

LEMMA Invariance == Spec => []IInv
BY InitEstablishes, StepPreserves, PTL DEF Spec

------------------------------------------------------------------------------
(* The theorems.                                                           *)

\* Type correctness.
THEOREM TypeCorrect == Spec => []TypeOK
<1>1. IInv => TypeOK
  BY DEF IInv
<1> QED BY <1>1, Invariance, PTL

\* However many flows overlap and wherever the devices move, no device gets a
\* second entry.
THEOREM OneEntryEach == Spec => []OneEntryPerDevice
<1>1. IInv => OneEntryPerDevice
  BY DEF IInv
<1> QED BY <1>1, Invariance, PTL

\* A login is stored only as a whole that a device has just accepted, and by the
\* user step only that of the entry's own device.
THEOREM OnlyAcceptedIsStored == Spec => StoresAccepted
<1> DEFINE Allowed(e) ==
      stored'[e] # stored[e] =>
        /\ Accepts(stored'[e].login)
        /\ sent'[e] = sent[e] => at[stored'[e].login.host] = stored'[e].device
<1>1. IInv /\ [Next]_vars => [\A e \in Entries : Allowed(e)]_vars
  <2> SUFFICES ASSUME IInv, Next, NEW e \in Entries, stored'[e] # stored[e]
               PROVE  /\ Accepts(stored'[e].login)
                      /\ sent'[e] = sent[e] =>
                           at[stored'[e].login.host] = stored'[e].device
    BY DEF vars, entries
  <2>1. ASSUME NEW f \in Flows, Validated(f)
        PROVE  /\ Accepts(stored'[e].login)
               /\ at[stored'[e].login.host] = stored'[e].device
    <3> DEFINE d == at[flow[f].host]
    <3>1. flow[f] \in Logins /\ Accepts(flow[f])
      BY <2>1, OkIsAccepted DEF Validated, IInv, TypeOK
    <3>2. stored'[e].login = flow[f] /\ stored'[e].device = d
      <4>1. CASE Configured(d) # {}
        <5>1. PICK g \in Configured(d) : UpdateEntry(g, flow[f])
          BY <2>1, <4>1 DEF Validated
        <5>2. g \in Entries /\ stored[g] # Nothing /\ stored[g].device = d
              /\ stored' = [stored EXCEPT ![g].login = flow[f]]
          BY <5>1 DEF Configured, UpdateEntry
        <5> QED BY <3>1, <5>2, LoginReplaced DEF IInv
      <4>2. CASE Configured(d) = {}
        <5>1. PICK g \in Entries :
                stored' = [stored EXCEPT ![g] = [device |-> d, login |-> flow[f]]]
          BY <2>1, <4>2 DEF Validated, CreateEntry
        <5>2. stored'[e] = [device |-> d, login |-> flow[f]]
          BY <5>1 DEF IInv, TypeOK
        <5> QED BY <5>2
      <4> QED BY <4>1, <4>2
    <3> QED BY <3>1, <3>2
  <2>2. ASSUME NEW g \in Entries, ReauthValidated(g)
        PROVE  Accepts(stored'[e].login) /\ sent'[e] # sent[e]
    <3>1. sent[g] \in Logins /\ Accepts(sent[g]) /\ stored[g] # Nothing
      BY <2>2, OkIsAccepted DEF ReauthValidated, IInv, TypeOK, Grounded
    <3>2. stored' = [stored EXCEPT ![g].login = sent[g]]
      BY <2>2 DEF ReauthValidated, ReauthData
    <3>3. e = g /\ stored'[g].login = sent[g]
      BY <3>1, <3>2, LoginReplaced DEF IInv
    <3>4. sent'[g] = Nothing /\ sent[g] # Nothing
      BY <2>2 DEF ReauthValidated, IInv, TypeOK
    <3> QED BY <3>1, <3>3, <3>4
  <2>3. \/ \E f \in Flows : Validated(f)
        \/ \E g \in Entries : ReauthValidated(g)
    BY DEF Next, Submit, Refused, SubmitReauth, ReauthRefused, StartSetup, Reload,
           Proceed, ChangeOptions, AskReload, Readdress, Restart, SetPassword,
           entries
  <2> QED BY <2>1, <2>2, <2>3
<1> QED BY <1>1, Invariance, PTL DEF Spec, StoresAccepted
==============================================================================
