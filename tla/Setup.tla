------------------------------- MODULE Setup -------------------------------
(***************************************************************************)
(* How an intercom gets into Home Assistant and stays there: the config    *)
(* flows (config_flow.py), the entries they store, the setting up of an    *)
(* entry (__init__.py, with the probe of isapi/client.py) and, external,   *)
(* what Home Assistant does with the outcome: it retries, asks for the     *)
(* password, reloads, restarts.                                            *)
(*                                                                         *)
(* Every await is a step of its own: a flow holds the data it sent to be   *)
(* validated while entries change under it, and a set-up goes on with the  *)
(* data it began with.  Devices change their address and their password.   *)
(*                                                                         *)
(* Left out: titles, the port and the user name (part of the address and   *)
(* of the password here), the texts of forms and errors, entries that the  *)
(* user removes.  An entry unloads whenever it is told to.                 *)
(***************************************************************************)
EXTENDS Naturals

CONSTANTS
  Devices,     \* named by their unique id
  Addresses,
  Passwords,
  Entries,     \* config entries there may be
  Flows,       \* config flows the user may have under way
  Nothing,     \* no device, no entry, nothing to validate
  Moody,       \* a device may reject a password that is right
  Garbled,     \* a device may answer something that does not parse
  MaxChanges   \* bound: changes of the devices, reloads and restarts

ASSUME SetupAssumption ==
  /\ Moody   \in BOOLEAN
  /\ Garbled \in BOOLEAN
  /\ MaxChanges \in Nat

Logins == [host : Addresses, password : Passwords]

ASSUME NothingAssumption ==
  /\ Nothing \notin Devices \cup Logins
  /\ Nothing \notin [device : Devices, login : Logins]

Rows == [device : Devices, login : Logins]     \* what an entry stores

VARIABLES
  at,        \* at[a]: the device that answers at address a
  secret,    \* secret[d]: the password device d accepts
  changes,   \* changes so far
  flow,      \* flow[f]: what the user flow f validates
  stored,    \* stored[e]: the entry
  phase,     \* phase[e]: how far its set-up is
  using,     \* using[e]: the login of the client it is being, or was, set up with
  reload,    \* reload[e]: Home Assistant has scheduled a reload
  reauth,    \* reauth[e]: it has a reauth flow
  sent       \* sent[e]: what that flow validates

world   == <<at, secret, changes>>
entries == <<stored, phase, using, reload, reauth, sent>>
vars    == <<world, flow, entries>>

\* The requests of async_setup_entry: get_device_info, probe_capabilities and
\* the first refresh; then the states in which it leaves the entry.  After
\* ConfigEntryAuthFailed ("rejected") and after any unforeseen exception
\* ("broken") nothing sets the entry up again by itself.
Underway == {"info", "probe", "refresh"}
Phases   == Underway \cup {"new", "loaded", "retry", "rejected", "broken"}

TypeOK ==
  /\ at      \in [Addresses -> Devices \cup {Nothing}]
  /\ secret  \in [Devices -> Passwords]
  /\ changes \in 0 .. MaxChanges
  /\ flow    \in [Flows -> Logins \cup {Nothing}]
  /\ stored  \in [Entries -> Rows \cup {Nothing}]
  /\ phase   \in [Entries -> Phases]
  /\ using   \in [Entries -> Logins \cup {Nothing}]
  /\ reload  \in [Entries -> BOOLEAN]
  /\ reauth  \in [Entries -> BOOLEAN]
  /\ sent    \in [Entries -> Logins \cup {Nothing}]

\* Who is at which address: no device at two, maybe some at none.
Placements ==
  {p \in [Addresses -> Devices \cup {Nothing}] :
     \A a, b \in Addresses : a # b /\ p[a] = p[b] => p[a] = Nothing}

Init ==
  /\ at     \in Placements
  /\ secret \in [Devices -> Passwords]
  /\ changes = 0
  /\ flow    = [f \in Flows |-> Nothing]
  /\ stored  = [e \in Entries |-> Nothing]
  /\ phase   = [e \in Entries |-> "new"]
  /\ using   = [e \in Entries |-> Nothing]
  /\ reload  = [e \in Entries |-> FALSE]
  /\ reauth  = [e \in Entries |-> FALSE]
  /\ sent    = [e \in Entries |-> Nothing]

------------------------------------------------------------------------------
(* What a request of a client with this login may come to.  "unavailable"  *)
(* is CannotConnect or any other IsapiError but AuthError.                 *)

Accepts(login) ==
  at[login.host] # Nothing /\ secret[at[login.host]] = login.password

Outcomes(login) ==
  {"unavailable"}
    \cup (IF Accepts(login) THEN {"ok"} ELSE {})
    \cup (IF at[login.host] # Nothing /\ (Moody \/ ~Accepts(login))
            THEN {"rejected"} ELSE {})
    \cup (IF at[login.host] # Nothing /\ Garbled THEN {"garbled"} ELSE {})

------------------------------------------------------------------------------
(* The user step.                                                          *)

Submit(f, login) ==
  /\ flow[f] = Nothing
  /\ flow' = [flow EXCEPT ![f] = login]
  /\ UNCHANGED <<world, entries>>

\* The entry of this device, looked for when the device has answered.
Configured_ByAddress(d) ==
  {e \in Entries : stored[e] # Nothing /\ at[stored[e].login.host] = d}
Configured(d) == {e \in Entries : stored[e] # Nothing /\ stored[e].device = d}

\* _abort_if_unique_id_configured writes the new login into it; Home Assistant
\* then reloads an entry it has loaded or is retrying, and no other.
UpdateEntry(e, login) ==
  /\ stored' = [stored EXCEPT ![e].login = login]
  /\ reload' = [reload EXCEPT ![e] = \/ @
                                     \/ /\ stored[e].login # login
                                        /\ phase[e] \in {"loaded", "retry"}]

CreateEntry(d, login) ==
  /\ \E e \in Entries :
       /\ stored[e] = Nothing
       /\ stored' = [stored EXCEPT ![e] = [device |-> d, login |-> login]]
  /\ UNCHANGED reload

\* The answer to _validate arrives.
Validated(f) ==
  /\ flow[f] # Nothing
  /\ "ok" \in Outcomes(flow[f])
  /\ flow' = [flow EXCEPT ![f] = Nothing]
  /\ LET d == at[flow[f].host]
     IN  IF Configured(d) # {}
           THEN \E e \in Configured(d) : UpdateEntry(e, flow[f])
           ELSE CreateEntry(d, flow[f])
  /\ UNCHANGED <<world, phase, using, reauth, sent>>

\* It raises: the form is shown again, with an error.  So it is for a device
\* that reports neither serial number nor MAC.
Refused(f) ==
  /\ flow[f] # Nothing
  /\ flow' = [flow EXCEPT ![f] = Nothing]
  /\ UNCHANGED <<world, entries>>

------------------------------------------------------------------------------
(* The reauth flow.                                                        *)

\* data = {**entry.data, **user_input}, before the await.
SubmitReauth(e, password) ==
  /\ reauth[e] /\ sent[e] = Nothing
  /\ sent' = [sent EXCEPT ![e] = [stored[e].login EXCEPT !.password = password]]
  /\ UNCHANGED <<world, flow, stored, phase, using, reload, reauth>>

\* What is written once it is validated.
ReauthData_Merged(e) == [stored[e].login EXCEPT !.password = sent[e].password]
ReauthData_Input(e) == [password |-> sent[e].password]
ReauthData(e) == sent[e]

\* async_update_reload_and_abort reloads the entry in whatever state it is.
Reloaded_Listening(e) == [reload EXCEPT ![e] = @ \/ phase[e] = "loaded"]
Reloaded(e) == [reload EXCEPT ![e] = TRUE]

ReauthValidated(e) ==
  /\ sent[e] # Nothing
  /\ "ok" \in Outcomes(sent[e])
  /\ stored' = [stored EXCEPT ![e].login = ReauthData(e)]
  /\ reload' = Reloaded(e)
  /\ reauth' = [reauth EXCEPT ![e] = FALSE]
  /\ sent'   = [sent EXCEPT ![e] = Nothing]
  /\ UNCHANGED <<world, flow, phase, using>>

ReauthRefused(e) ==
  /\ sent[e] # Nothing
  /\ sent' = [sent EXCEPT ![e] = Nothing]
  /\ UNCHANGED <<world, flow, stored, phase, using, reload, reauth>>

------------------------------------------------------------------------------
(* Setting up an entry.                                                    *)

\* A new entry is set up at once, a failed set-up that was not ready later.
StartSetup(e) ==
  /\ stored[e] # Nothing
  /\ phase[e] \in {"new", "retry"}
  /\ phase' = [phase EXCEPT ![e] = "info"]
  /\ using' = [using EXCEPT ![e] = stored[e].login]
  /\ UNCHANGED <<world, flow, stored, reload, reauth, sent>>

\* What becomes of the entry when get_device_info returns or raises: AuthError
\* is ConfigEntryAuthFailed, CannotConnect and IsapiError ConfigEntryNotReady,
\* and a ParseError passes.
AfterInfo(outcome) ==
  CASE outcome = "ok"          -> "probe"
    [] outcome = "rejected"    -> "rejected"
    [] outcome = "unavailable" -> "retry"
    [] outcome = "garbled"     -> "broken"

\* probe() absorbs what the requests raise, a ParseError of theirs included,
\* but the answers are parsed outside of it.
AfterProbe(outcome) == IF outcome = "garbled" THEN "broken" ELSE "refresh"

\* The first refresh absorbs any IsapiError, as the coordinator does of every
\* read; an answer that does not parse is UpdateFailed, so not ready.
AfterRefresh(outcome) == IF outcome = "garbled" THEN "retry" ELSE "loaded"

After(step, outcome) ==
  CASE step = "info"    -> AfterInfo(outcome)
    [] step = "probe"   -> AfterProbe(outcome)
    [] step = "refresh" -> AfterRefresh(outcome)

\* Home Assistant opens a reauth flow unless there is one.
AskFor(e) == reauth' = [reauth EXCEPT ![e] = TRUE]

Proceed(e, outcome) ==
  /\ phase[e] \in Underway
  /\ outcome \in Outcomes(using[e])
  /\ phase' = [phase EXCEPT ![e] = After(@, outcome)]
  /\ using' = [using EXCEPT ![e] =
                 IF phase'[e] \in Underway \cup {"loaded"} THEN @ ELSE Nothing]
  /\ IF phase'[e] = "rejected" THEN AskFor(e) ELSE UNCHANGED reauth
  /\ UNCHANGED <<world, flow, stored, reload, sent>>

\* A reload waits for a set-up under way.
Reload(e) ==
  /\ reload[e] /\ phase[e] \notin Underway
  /\ reload' = [reload EXCEPT ![e] = FALSE]
  /\ phase'  = [phase EXCEPT ![e] = "new"]
  /\ using'  = [using EXCEPT ![e] = Nothing]
  /\ UNCHANGED <<world, flow, stored, reauth, sent>>

------------------------------------------------------------------------------
(* What happens to them.                                                   *)

Change == changes < MaxChanges /\ changes' = changes + 1

\* The network hands out its addresses afresh, devices come and go.
Readdress ==
  /\ Change
  /\ at' \in Placements
  /\ UNCHANGED <<secret, flow, entries>>

SetPassword(d, p) ==
  /\ Change
  /\ secret' = [secret EXCEPT ![d] = p]
  /\ UNCHANGED <<at, flow, entries>>

\* New options reach the listener, which only a loaded entry has; the user may
\* have any entry reloaded.
ChangeOptions(e) ==
  /\ Change /\ phase[e] = "loaded"
  /\ reload' = [reload EXCEPT ![e] = TRUE]
  /\ UNCHANGED <<at, secret, flow, stored, phase, using, reauth, sent>>

AskReload(e) ==
  /\ Change /\ stored[e] # Nothing
  /\ reload' = [reload EXCEPT ![e] = TRUE]
  /\ UNCHANGED <<at, secret, flow, stored, phase, using, reauth, sent>>

\* Home Assistant restarts: of all this, only the entries are stored.
Restart ==
  /\ Change
  /\ flow'   = [f \in Flows |-> Nothing]
  /\ phase'  = [e \in Entries |-> "new"]
  /\ using'  = [e \in Entries |-> Nothing]
  /\ reload' = [e \in Entries |-> FALSE]
  /\ reauth' = [e \in Entries |-> FALSE]
  /\ sent'   = [e \in Entries |-> Nothing]
  /\ UNCHANGED <<at, secret, stored>>

Next ==
  \/ \E f \in Flows :
       (\E login \in Logins : Submit(f, login)) \/ Validated(f) \/ Refused(f)
  \/ \E e \in Entries :
       \/ \E p \in Passwords : SubmitReauth(e, p)
       \/ ReauthValidated(e) \/ ReauthRefused(e)
       \/ StartSetup(e) \/ Reload(e)
       \/ \E outcome \in {"ok", "rejected", "unavailable", "garbled"} :
            Proceed(e, outcome)
       \/ ChangeOptions(e) \/ AskReload(e)
  \/ Readdress \/ Restart
  \/ \E d \in Devices, p \in Passwords : SetPassword(d, p)

Spec == Init /\ [][Next]_vars

\* Home Assistant starts and retries set-ups and does the reloads it scheduled,
\* every request ends, and a device that is asked the same again and again, with
\* the right password, answers at last.
Fairness ==
  \A e \in Entries :
    /\ WF_vars(StartSetup(e))
    /\ WF_vars(Reload(e))
    /\ WF_vars(\E outcome \in {"rejected", "unavailable"} : Proceed(e, outcome))
    /\ SF_vars(phase[e] = "info" /\ Proceed(e, "ok"))
    /\ SF_vars(phase[e] = "refresh" /\ Proceed(e, "ok"))

FairSpec == Spec /\ Fairness

------------------------------------------------------------------------------
(* Properties.                                                             *)

\* A device has one entry, whichever addresses it was entered under and however
\* the flows overlap.
OneEntryPerDevice ==
  \A e, f \in Entries :
    e # f /\ stored[e] # Nothing /\ stored[f] # Nothing =>
      stored[e].device # stored[f].device

\* A login is stored only as a whole that a device has just accepted, and by the
\* user step only that of the entry's own device.
StoresAccepted ==
  [][\A e \in Entries :
       stored'[e] # stored[e] =>
         /\ Accepts(stored'[e].login)
         /\ sent'[e] = sent[e] =>
              at[stored'[e].login.host] = stored'[e].device]_vars

\* An entry whose login is right for good gets loaded, or has the user asked for
\* the password (Moody), unless an answer that does not parse ends its set-up for
\* good (Garbled): none stays behind, whatever was changed while it was set up.
Right(e)   == stored[e] # Nothing /\ Accepts(stored[e].login)
Settled(e) == phase[e] \in {"loaded", "broken"} \/ reauth[e]
LoadedOrAsked == \A e \in Entries : <>[]Right(e) => []<>Settled(e)

\* The user is asked for the password only if the one of the entry is wrong:
\* "Home Assistant opens the reauth flow and prompts the user for their password
\* for no reason" (docs/protocol.md:58-62).
AskedOnlyIfWrong ==
  [][\A e \in Entries :
       ~reauth[e] /\ reauth'[e] => ~Accepts(using[e])]_vars
=============================================================================
