---------------------------- MODULE IsapiClient ----------------------------
(***************************************************************************)
(* IsapiClient.request and _probe_alert_stream (isapi/client.py) with the  *)
(* DigestAuth they share (isapi/digest.py), run by several tasks of one    *)
(* event loop against one device.                                          *)
(*                                                                         *)
(* A task runs from one await to the next without a pause.  What request   *)
(* awaits is the answer to the attempt it just sent, so one action sends   *)
(* the first attempt, and one processes an answer and sends the next.      *)
(* _auth is shared: any other task may replace the challenge meanwhile.    *)
(*                                                                         *)
(* The device and the network are external.  The device handles a request  *)
(* whose caller has given up just as it handles any other.                 *)
(***************************************************************************)
EXTENDS Naturals, FiniteSets

CONSTANTS
  Tasks,           \* each makes one request, or runs _probe_alert_stream
  Unchecked,       \* tasks whose answer is raw or JSON: nobody looks for a
                   \* ResponseStatus in it
  Raw,             \* those of them with raw=True: the answer is not parsed
  MaxAuthAttempts  \* MAX_AUTH_ATTEMPTS

ASSUME IsapiClientAssumption ==
  /\ IsFiniteSet(Tasks)
  /\ Unchecked \subseteq Tasks /\ Raw \subseteq Unchecked
  /\ MaxAuthAttempts \in Nat /\ MaxAuthAttempts >= 2

VARIABLES
  challenge,  \* _auth._challenge: its nonce, or NoNonce for {}, and stale
  nc,         \* _auth._nc, counted to 2
  probing,    \* probing[t]: t runs _probe_alert_stream
  state,      \* state[t]: "new", "waiting" for an answer, or how it ended
  attempt,    \* attempt[t]: requests sent
  fresh,      \* fresh[t]: used_fresh_challenge
  header,     \* header[t]: nonce of the last Authorization header, or NoNonce
  line,       \* line[t]: what is between task and device
  spent,      \* device: the nonces that came in once
  rightPassword,  \* device: it knows the configured password
  uses,       \* history: uses[n] counts the headers built from n, to 2
  executed    \* history: executed[t] counts how often the device carried out
              \* what t requests, to 2

vars == <<challenge, nc, probing, state, attempt, fresh, header, line, spent,
          rightPassword, uses, executed>>
client == <<challenge, nc, probing, state, attempt, fresh, header>>
device == <<spent, rightPassword, executed>>

\* Enough nonces for each task to have one in every place that holds one.
Nonces  == 1 .. 3 * Cardinality(Tasks) + 1
NoNonce == 0

Failures == {"auth", "unsupported", "error", "unreadable", "unreachable"}
States   == {"new", "waiting", "ok"} \cup Failures

\* Answers: a 401 with a challenge or without one; 404, and notSupport if it is
\* looked for; another HTTP error; HTTP 200 with a ResponseStatus that is not OK;
\* a body that does not parse; success.
Kinds == {"challenged", "refused", "missing", "error", "appError", "garbled",
          "ok"}

Challenges  == [nonce : Nonces \cup {NoNonce}, stale : BOOLEAN]
NoChallenge == [nonce |-> NoNonce, stale |-> FALSE]
Idle        == [at |-> "none", kind |-> "ok", given |-> NoChallenge]
Sent        == [Idle EXCEPT !.at = "request"]
Lines       == [at : {"none", "request", "answer"}, kind : Kinds,
                given : Challenges]

TypeOK ==
  /\ challenge \in Challenges
  /\ nc        \in 0 .. 2
  /\ probing   \in [Tasks -> BOOLEAN]
  /\ state     \in [Tasks -> States]
  /\ attempt   \in [Tasks -> 0 .. MaxAuthAttempts]
  /\ fresh     \in [Tasks -> BOOLEAN]
  /\ header    \in [Tasks -> Nonces \cup {NoNonce}]
  /\ line      \in [Tasks -> Lines]
  /\ spent     \in SUBSET Nonces
  /\ rightPassword \in BOOLEAN
  /\ uses      \in [Nonces -> 0 .. 2]
  /\ executed  \in [Tasks -> 0 .. 2]

Init ==
  /\ challenge = NoChallenge
  /\ nc        = 0
  /\ probing   = [t \in Tasks |-> FALSE]
  /\ state     = [t \in Tasks |-> "new"]
  /\ attempt   = [t \in Tasks |-> 0]
  /\ fresh     = [t \in Tasks |-> FALSE]
  /\ header    = [t \in Tasks |-> NoNonce]
  /\ line      = [t \in Tasks |-> Idle]
  /\ spent     = {}
  /\ rightPassword \in BOOLEAN
  /\ uses      = [n \in Nonces |-> 0]
  /\ executed  = [t \in Tasks |-> 0]

------------------------------------------------------------------------------
(* The client.                                                             *)

AtMostTwo(n) == IF n < 2 THEN n ELSE 2

\* build_header from `current', if there is a challenge, and session.request.
Send(t, current, count) ==
  /\ challenge' = current
  /\ IF current.nonce # NoNonce
       THEN /\ nc'     = AtMostTwo(count + 1)
            /\ header' = [header EXCEPT ![t] = current.nonce]
            /\ uses'   = [uses EXCEPT ![current.nonce] = AtMostTwo(@ + 1)]
       ELSE nc' = count /\ UNCHANGED <<header, uses>>
  /\ state'   = [state EXCEPT ![t] = "waiting"]
  /\ attempt' = [attempt EXCEPT ![t] = @ + 1]
  /\ line'    = [line EXCEPT ![t] = Sent]

\* request ends: it returns, or raises.
End(t, how) ==
  /\ state' = [state EXCEPT ![t] = how]
  /\ line'  = [line EXCEPT ![t] = Idle]
  /\ UNCHANGED <<attempt, fresh, header, uses>>

\* The start of request: the challenge of earlier requests is dropped.
StartChallenge_Kept == challenge
StartChallenge == NoChallenge

Begin(t) ==
  /\ state[t] = "new"
  /\ Send(t, StartChallenge, 0)
  /\ UNCHANGED <<probing, fresh, device>>

\* The start of _probe_alert_stream: it is not.
BeginProbe(t) ==
  /\ state[t] = "new"
  /\ probing' = [probing EXCEPT ![t] = TRUE]
  /\ Send(t, challenge, nc)
  /\ UNCHANGED <<fresh, device>>

Answered(t, kind) ==
  state[t] = "waiting" /\ line[t].at = "answer" /\ line[t].kind = kind

\* After which a 401 with a challenge is answered by another attempt.
Retries_OnAny(t) == TRUE
Retries(t) ==
  IF probing[t] THEN attempt[t] = 1
  ELSE line[t].given.stale \/ ~fresh[t]

\* The attempts range over MAX_AUTH_ATTEMPTS.
MayRetry_Unbounded(t) == TRUE
MayRetry(t) == attempt[t] < MaxAuthAttempts

Retry(t) ==
  /\ Answered(t, "challenged")
  /\ Retries(t) /\ MayRetry(t)
  /\ fresh' = [fresh EXCEPT ![t] = TRUE]
  /\ Send(t, line[t].given, 0)
  /\ UNCHANGED <<probing, device>>

\* The last attempt was answered with stale=true: the loop ends.
ExhaustAttempts(t) ==
  /\ Answered(t, "challenged") /\ ~probing[t]
  /\ Retries(t) /\ ~MayRetry(t)
  /\ challenge' = line[t].given /\ nc' = 0
  /\ End(t, "auth")
  /\ UNCHANGED <<probing, device>>

\* A second challenge that is not stale, or a 401 without one.
Rejected(t) ==
  /\ ~probing[t]
  /\ \/ Answered(t, "challenged") /\ ~Retries(t)
     \/ Answered(t, "refused")
  /\ challenge' = NoChallenge /\ nc' = 0
  /\ End(t, "auth")
  /\ UNCHANGED <<probing, device>>

\* The probe reports whatever it does not accept as no alert stream.
ProbeRejected(t) ==
  /\ probing[t]
  /\ \/ Answered(t, "challenged") /\ ~Retries(t)
     \/ Answered(t, "refused")
  /\ End(t, "unsupported")
  /\ UNCHANGED <<challenge, nc, probing, device>>

\* What the status checks, raw and _decode make of an answer that is not a 401.
Result_NoStatusCheck(t, kind) ==
  IF kind = "garbled" /\ t \notin Raw THEN "unreadable" ELSE "ok"
Result(t, kind) ==
  CASE kind = "missing"  -> "unsupported"
    [] kind = "error"    -> "error"
    [] kind = "appError" -> IF t \in Unchecked THEN "ok" ELSE "error"
    [] kind = "garbled"  -> IF t \in Raw THEN "ok" ELSE "unreadable"
    [] kind = "ok"       -> "ok"

\* To a probe, anything but "ok" means that there is no alert stream.
Ending(t, kind) ==
  IF probing[t] /\ kind # "ok" THEN "unsupported" ELSE Result(t, kind)

Finish(t) ==
  \E kind \in Kinds \ {"challenged", "refused"} :
    /\ Answered(t, kind)
    /\ End(t, Ending(t, kind))
    /\ UNCHANGED <<challenge, nc, probing, device>>

\* ClientError or TimeoutError, whatever became of the request: lost on its way,
\* handled, about to be handled, or answered in vain.
TimesOut_AnsweredOnly(t) == line[t].at = "answer"
TimesOut(t) == state[t] = "waiting"

GiveUp(t) ==
  /\ TimesOut(t)
  /\ state' = [state EXCEPT ![t] = "unreachable"]
  /\ \/ line' = [line EXCEPT ![t] = Idle]
     \/ line[t].at = "request" /\ UNCHANGED line
  /\ UNCHANGED <<challenge, nc, probing, attempt, fresh, header, device, uses>>

------------------------------------------------------------------------------
(* The device.                                                             *)

\* Nonces that nobody holds, so that one of them can stand for a new one.
Held == {challenge.nonce} \cup {header[t] : t \in Tasks}
                          \cup {line[t].given.nonce : t \in Tasks}
NewNonce == CHOOSE n \in Nonces \ Held : \A m \in Nonces \ Held : n <= m

\* The answer reaches the caller only if it still waits.
Answer(t, kind, given) ==
  line' = [line EXCEPT ![t] =
             IF state[t] = "waiting"
               THEN [at |-> "answer", kind |-> kind, given |-> given]
               ELSE Idle]

Spend(n) == spent' = IF n = NoNonce THEN spent ELSE spent \cup {n}

\* A nonce is good for one request.
Authorised(t) ==
  rightPassword /\ header[t] # NoNonce /\ header[t] \notin spent

\* The request is authorised and carried out, though its answer may be garbled.
CarryOut(t) ==
  /\ line[t].at = "request" /\ Authorised(t)
  /\ \E kind \in {"ok", "garbled"} : Answer(t, kind, NoChallenge)
  /\ executed' = [executed EXCEPT ![t] = AtMostTwo(@ + 1)]
  /\ Spend(header[t])
  /\ UNCHANGED <<client, rightPassword, uses>>

\* It is authorised and not carried out.
Decline(t) ==
  /\ line[t].at = "request" /\ Authorised(t)
  /\ \E kind \in {"missing", "error", "appError"} : Answer(t, kind, NoChallenge)
  /\ Spend(header[t])
  /\ UNCHANGED <<client, rightPassword, uses, executed>>

\* A 401 with a new challenge: no header came, the password is wrong, the nonce
\* was used before, or it expired on the way.
Challenge(t) ==
  /\ line[t].at = "request"
  /\ \E stale \in BOOLEAN :
       /\ stale => rightPassword /\ header[t] # NoNonce
       /\ Answer(t, "challenged", [nonce |-> NewNonce, stale |-> stale])
  /\ spent' = (spent \cup {header[t]}) \ {NewNonce, NoNonce}
  /\ uses'  = [uses EXCEPT ![NewNonce] = 0]
  /\ UNCHANGED <<client, rightPassword, executed>>

\* A 401 with an empty WWW-Authenticate, to which the firmware is given at times.
Refuse(t) ==
  /\ line[t].at = "request"
  /\ Answer(t, "refused", NoChallenge)
  /\ Spend(header[t])
  /\ UNCHANGED <<client, rightPassword, uses, executed>>

------------------------------------------------------------------------------
Client(t) ==
  \/ Begin(t) \/ BeginProbe(t)
  \/ Retry(t) \/ ExhaustAttempts(t) \/ Rejected(t) \/ ProbeRejected(t)
  \/ Finish(t) \/ GiveUp(t)

Device(t) == CarryOut(t) \/ Decline(t) \/ Challenge(t) \/ Refuse(t)

Next == \E t \in Tasks : Client(t) \/ Device(t)

Spec == Init /\ [][Next]_vars

\* The event loop resumes a task whose answer is in, and the timeout of the
\* session ends the wait for one that does not come.
Fairness ==
  \A t \in Tasks : /\ WF_vars(line[t].at # "answer" /\ GiveUp(t))
                   /\ WF_vars(line[t].at = "answer" /\ Client(t))

FairSpec == Spec /\ Fairness

------------------------------------------------------------------------------
(* Properties.                                                             *)

\* "Never reuse the nonce" (docs/protocol.md): no header of a request is built from
\* a nonce that another was built from, although all tasks share one DigestAuth and
\* reset, replace and use its challenge while it waits for its own.  A probe of the
\* alert stream does not keep to it.
RequestsUseNewNonces ==
  [][\A t \in Tasks : \A n \in Nonces :
       ~probing'[t] /\ header'[t] = n /\ header[t] # n => uses[n] = 0]_vars

\* A request that was begun ends, however the device plays with its nonces.
RequestsEnd == \A t \in Tasks : state[t] = "waiting" ~> state[t] # "waiting"

\* A request sends a wrong password once, and not again: devices lock out.
WrongPasswordSentOnce ==
  ~rightPassword => \A t \in Tasks : ~probing[t] => attempt[t] <= 2

\* The promise of a remote command, over all of the above, to the tasks whose
\* answer is checked.
Outcome(t) ==
  CASE state[t] = "new"     -> "none"
    [] state[t] = "waiting" -> "running"
    [] state[t] = "ok"      -> "ok"
    [] OTHER                -> "failed"

Remote == INSTANCE RemoteCall WITH
  Tasks   <- Tasks \ Unchecked,
  outcome <- [t \in Tasks \ Unchecked |-> Outcome(t)],
  done    <- [t \in Tasks \ Unchecked |-> executed[t]]
KeepsPromise == Remote!Spec
==============================================================================
