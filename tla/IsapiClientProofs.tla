-------------------------- MODULE IsapiClientProofs --------------------------
(***************************************************************************)
(* Theorems about IsapiClient, for any number of tasks and attempts: its   *)
(* types, what becomes of a wrong password, the nonce of a header, and the *)
(* promise of RemoteCall.                                                  *)
(***************************************************************************)
EXTENDS IsapiClient, FiniteSetTheorems, TLAPS

USE DEF NoNonce

\* What a task that has not begun has left behind: nothing.
Unbegun(t) ==
  state[t] = "new" => /\ attempt[t] = 0 /\ ~fresh[t] /\ ~probing[t]
                      /\ line[t] = Idle /\ executed[t] = 0

\* An answer waits for a task that waits for it, and only a 401 brings a
\* challenge.
InFlight(t) ==
  /\ line[t].at = "answer" => state[t] = "waiting"
  /\ line[t].at = "request" => state[t] \in {"waiting", "unreachable"}
  /\ line[t].given # NoChallenge =>
       line[t].at = "answer" /\ line[t].kind = "challenged"

\* A device tells a task that its nonce was stale if it knows the password, and
\* without that a request is sent twice at most.
SentOnce(t) ==
  /\ line[t].given.stale => rightPassword
  /\ ~fresh[t] => attempt[t] <= 1
  /\ ~rightPassword /\ ~probing[t] => attempt[t] <= 2

\* A challenge that waits for a task is not known to anyone else.
Unclaimed(t) ==
  LET n == line[t].given.nonce
  IN  n # NoNonce => /\ uses[n] = 0
                     /\ challenge.nonce # n
                     /\ \A u \in Tasks : header[u] # n
                     /\ \A u \in Tasks \ {t} : line[u].given.nonce # n

\* What was carried out is answered as carried out, and success is not made up.
Truthful(t) ==
  /\ executed[t] <= 1
  /\ line[t].at = "request" => executed[t] = 0
  /\ line[t].at = "answer" =>
       IF executed[t] = 0 THEN line[t].kind # "ok"
                          ELSE line[t].kind \in {"ok", "garbled"}

TaskInv(t) ==
  Unbegun(t) /\ InFlight(t) /\ SentOnce(t) /\ Unclaimed(t) /\ Truthful(t)

IInv == TypeOK /\ \A t \in Tasks : TaskInv(t)

------------------------------------------------------------------------------
(* There is always a nonce that nobody holds.                              *)

LEMMA NoncesAreNumbers ==
  /\ Cardinality(Tasks) \in Nat
  /\ Nonces \subseteq Nat /\ 0 \notin Nonces
  /\ IsFiniteSet(Nonces) /\ Cardinality(Nonces) = 3 * Cardinality(Tasks) + 1
<1>1. Cardinality(Tasks) \in Nat
  BY IsapiClientAssumption, FS_CardinalityType
<1>2. IsFiniteSet(Nonces) /\ Cardinality(Nonces) = 3 * Cardinality(Tasks) + 1
  <2>1. 3 * Cardinality(Tasks) + 1 \in Int /\ 3 * Cardinality(Tasks) + 1 >= 1
    BY <1>1
  <2> DEFINE k == 3 * Cardinality(Tasks) + 1
  <2> HIDE DEF k
  <2>2. k \in Int /\ k >= 1
    BY <2>1 DEF k
  <2>3. IsFiniteSet(1 .. k) /\ Cardinality(1 .. k) = k
    BY <2>2, FS_Interval
  <2> QED BY <2>3 DEF Nonces, k
<1> QED BY <1>1, <1>2 DEF Nonces

\* A function on Tasks takes no more values than there are tasks.
LEMMA FewValues ==
  ASSUME NEW f, f = [t \in Tasks |-> f[t]]
  PROVE  /\ IsFiniteSet({f[t] : t \in Tasks})
         /\ Cardinality({f[t] : t \in Tasks}) <= Cardinality(Tasks)
         /\ Cardinality({f[t] : t \in Tasks}) \in Nat
<1> DEFINE V == {f[t] : t \in Tasks}
<1>1. f \in Surjection(Tasks, V)
  BY DEF Surjection
<1> HIDE DEF V
<1>2. IsFiniteSet(V) /\ Cardinality(V) <= Cardinality(Tasks)
  BY <1>1, IsapiClientAssumption, FS_Surjection
<1>3. Cardinality(V) \in Nat
  BY <1>2, FS_CardinalityType
<1> QED BY <1>2, <1>3 DEF V

LEMMA FewHeld ==
  ASSUME TypeOK
  PROVE  /\ IsFiniteSet(Held)
         /\ Cardinality(Held) \in Nat
         /\ Cardinality(Held) <= 2 * Cardinality(Tasks) + 1
<1> DEFINE H == {header[t] : t \in Tasks}
           given == [t \in Tasks |-> line[t].given.nonce]
           G == {given[t] : t \in Tasks}
<1>1. /\ IsFiniteSet(H) /\ Cardinality(H) <= Cardinality(Tasks)
      /\ Cardinality(H) \in Nat
  <2>1. header = [t \in Tasks |-> header[t]]
    BY DEF TypeOK
  <2> QED BY <2>1, FewValues
<1>2. /\ IsFiniteSet(G) /\ Cardinality(G) <= Cardinality(Tasks)
      /\ Cardinality(G) \in Nat
  <2>1. given = [t \in Tasks |-> given[t]]
    OBVIOUS
  <2> HIDE DEF given
  <2> QED BY <2>1, FewValues
<1>3. Held = (H \cup G) \cup {challenge.nonce}
  BY DEF Held
<1> HIDE DEF H, G
<1>4. IsFiniteSet(H \cup G) /\ Cardinality(H \cup G) \in Nat
  BY <1>1, <1>2, FS_Union, FS_CardinalityType
<1>5. Cardinality(H \cup G) <= 2 * Cardinality(Tasks)
  <2>1. IsFiniteSet(H \cap G)
    BY <1>1, FS_Intersection
  <2>2. Cardinality(H \cap G) \in Nat
    BY <2>1, FS_CardinalityType
  <2>3. Cardinality(H \cup G)
          = Cardinality(H) + Cardinality(G) - Cardinality(H \cap G)
    BY <1>1, <1>2, FS_Union
  <2> QED BY <1>1, <1>2, <2>2, <2>3, NoncesAreNumbers
<1>6. /\ IsFiniteSet(Held)
      /\ Cardinality(Held) \in {Cardinality(H \cup G), Cardinality(H \cup G) + 1}
  BY <1>3, <1>4, FS_AddElement
<1> QED BY <1>4, <1>5, <1>6, NoncesAreNumbers

\* The nonce of Challenge is one of those, wherever a task is there to get it.
LEMMA NewNonceIsNew ==
  ASSUME TypeOK, NEW t \in Tasks
  PROVE  NewNonce \in Nonces \ Held
<1> DEFINE Left == Nonces \ Held
<1>1. Cardinality(Tasks) >= 1
  <2>1. Tasks # {}
    OBVIOUS
  <2>2. Cardinality(Tasks) # 0
    BY <2>1, IsapiClientAssumption, FS_EmptySet
  <2> QED BY <2>2, NoncesAreNumbers
<1>2. Left # {}
  <2> SUFFICES ASSUME Nonces \subseteq Held PROVE FALSE
    OBVIOUS
  <2>1. Cardinality(Nonces) <= Cardinality(Held)
    BY FewHeld, FS_Subset
  <2> QED BY <1>1, <2>1, FewHeld, NoncesAreNumbers
<1>3. Left \subseteq Nat
  BY NoncesAreNumbers
<1> HIDE DEF Left
<1>4. PICK n \in Left : \A m \in Left : ~ (<<m, n>> \in OpToRel(<, Nat))
  BY <1>2, <1>3, NatLessThanWellFounded, WFMin
<1>5. \A m \in Left : ~ (m < n)
  BY <1>3, <1>4, Zenon DEF OpToRel
<1>6. \A m \in Left : n <= m
  BY <1>3, <1>5
<1> QED BY <1>6 DEF NewNonce, Left

------------------------------------------------------------------------------
(* The invariant.                                                          *)

\* What is on the way, and what is not.
LEMMA Empty ==
  /\ Idle.at = "none" /\ Idle.kind = "ok" /\ Idle.given = NoChallenge
  /\ Sent.at = "request" /\ Sent.kind = "ok" /\ Sent.given = NoChallenge
  /\ NoChallenge.nonce = NoNonce /\ NoChallenge.stale = FALSE
  /\ Idle \in Lines /\ Sent \in Lines /\ NoChallenge \in Challenges
BY DEF Idle, Sent, NoChallenge, Lines, Challenges, Kinds

LEMMA InitEstablishes == Init => IInv
<1> SUFFICES ASSUME Init PROVE IInv
  OBVIOUS
<1> USE Empty DEF Init
<1>1. TypeOK
  BY IsapiClientAssumption DEF TypeOK, States
<1>2. \A t \in Tasks : TaskInv(t)
  BY DEF TaskInv, Unbegun, InFlight, SentOnce, Unclaimed, Truthful
<1> QED BY <1>1, <1>2 DEF IInv

\* The types, wherever an attempt is sent.
LEMMA SendTypes ==
  ASSUME TypeOK, NEW t \in Tasks, attempt[t] < MaxAuthAttempts,
         NEW current \in Challenges, NEW count \in 0 .. 2,
         Send(t, current, count),
         probing' \in [Tasks -> BOOLEAN], fresh' \in [Tasks -> BOOLEAN],
         UNCHANGED device
  PROVE  TypeOK'
<1>1. nc' \in 0 .. 2 /\ uses' \in [Nonces -> 0 .. 2]
  BY DEF Send, TypeOK, AtMostTwo, Challenges
<1>2. header' \in [Tasks -> Nonces \cup {NoNonce}] /\ challenge' \in Challenges
  BY DEF Send, TypeOK, Challenges
<1>3. attempt' \in [Tasks -> 0 .. MaxAuthAttempts]
  BY IsapiClientAssumption DEF Send, TypeOK
<1>4. state' \in [Tasks -> States] /\ line' \in [Tasks -> Lines]
  BY Empty DEF Send, TypeOK, States
<1> QED BY <1>1, <1>2, <1>3, <1>4 DEF TypeOK, device

\* A task that does nothing keeps its invariant, if no header takes the nonce
\* that it was just given.
LEMMA BystanderKept ==
  ASSUME NEW u \in Tasks, TaskInv(u),
         state'[u] = state[u], attempt'[u] = attempt[u], line'[u] = line[u],
         fresh'[u] = fresh[u], probing'[u] = probing[u],
         executed'[u] = executed[u], UNCHANGED rightPassword,
         Unclaimed(u)'
  PROVE  TaskInv(u)'
BY DEF TaskInv, Unbegun, InFlight, SentOnce, Truthful

LEMMA SendPreserves ==
  ASSUME IInv, NEW t \in Tasks, attempt[t] < MaxAuthAttempts,
         NEW current \in Challenges, NEW count \in 0 .. 2,
         Send(t, current, count),
         \A u \in Tasks \ {t} :
           current.nonce # NoNonce => line[u].given.nonce # current.nonce,
         probing' \in [Tasks -> BOOLEAN], fresh' \in [Tasks -> BOOLEAN],
         \A u \in Tasks \ {t} : probing'[u] = probing[u] /\ fresh'[u] = fresh[u],
         UNCHANGED device, executed[t] = 0,
         ~fresh'[t] => attempt[t] = 0,
         ~rightPassword /\ ~probing'[t] => attempt[t] <= 1
  PROVE  IInv'
<1>1. TypeOK'
  BY SendTypes DEF IInv
<1>2. /\ line' = [line EXCEPT ![t] = Sent]
      /\ state' = [state EXCEPT ![t] = "waiting"]
      /\ attempt' = [attempt EXCEPT ![t] = @ + 1]
      /\ challenge' = current
      /\ UNCHANGED <<executed, rightPassword>>
  BY DEF Send, device
<1>3. TypeOK
  BY DEF IInv
<1>4. TaskInv(t)'
  <2>1. line'[t] = Sent /\ state'[t] = "waiting" /\ attempt'[t] = attempt[t] + 1
    BY <1>2, <1>3 DEF TypeOK
  <2>2. Unbegun(t)' /\ InFlight(t)' /\ Truthful(t)' /\ Unclaimed(t)'
    BY <1>2, <2>1, Empty DEF Unbegun, InFlight, Truthful, Unclaimed
  <2>3. SentOnce(t)'
    BY <1>2, <1>3, <2>1, Empty, IsapiClientAssumption DEF SentOnce, TypeOK
  <2> QED BY <2>2, <2>3 DEF TaskInv
<1>5. ASSUME NEW u \in Tasks \ {t} PROVE TaskInv(u)'
  <2>1. /\ line'[u] = line[u] /\ state'[u] = state[u] /\ attempt'[u] = attempt[u]
        /\ executed'[u] = executed[u]
    BY <1>2, <1>3 DEF TypeOK
  <2>2. TaskInv(u)
    BY DEF IInv
  <2>3. Unclaimed(u)'
    <3> DEFINE n == line[u].given.nonce
    <3> HIDE DEF n
    <3>1. SUFFICES ASSUME n # NoNonce
                   PROVE  /\ uses'[n] = 0 /\ challenge'.nonce # n
                          /\ \A v \in Tasks : header'[v] # n
                          /\ \A v \in Tasks \ {u} : line'[v].given.nonce # n
      BY <2>1 DEF Unclaimed, n
    <3>2. /\ uses[n] = 0 /\ \A v \in Tasks : header[v] # n
          /\ \A v \in Tasks \ {u} : line[v].given.nonce # n
      BY <2>2, <3>1 DEF TaskInv, Unclaimed, n
    <3>3. n # current.nonce
      BY <3>1 DEF n
    <3>4. \A v \in Tasks : header'[v] # n
      BY <1>3, <3>2, <3>3 DEF Send, TypeOK
    <3>5. uses'[n] = 0
      <4>1. n \in Nonces
        BY <1>3, <3>1 DEF n, TypeOK, Lines, Challenges
      <4> QED BY <1>3, <3>2, <3>3, <4>1 DEF Send, TypeOK
    <3>6. \A v \in Tasks \ {u} : line'[v].given.nonce # n
      BY <1>2, <1>3, <3>1, <3>2, Empty DEF TypeOK
    <3> QED BY <1>2, <3>3, <3>4, <3>5, <3>6
  <2> QED BY <2>1, <2>2, <2>3, <1>2, BystanderKept
<1> QED BY <1>1, <1>4, <1>5 DEF IInv

LEMMA BeginPreserves ==
  ASSUME IInv, NEW t \in Tasks, Begin(t) \/ BeginProbe(t)
  PROVE  IInv'
<1>1. /\ TypeOK /\ state[t] = "new" /\ attempt[t] = 0 /\ executed[t] = 0
      /\ UNCHANGED device /\ UNCHANGED fresh
  BY DEF IInv, TaskInv, Unbegun, Begin, BeginProbe
<1>2. attempt[t] < MaxAuthAttempts
  BY <1>1, IsapiClientAssumption
<1>3. CASE Begin(t)
  <2>1. Send(t, NoChallenge, 0) /\ UNCHANGED probing
    BY <1>3 DEF Begin, StartChallenge
  <2>2. NoChallenge \in Challenges /\ 0 \in 0 .. 2 /\ NoChallenge.nonce = NoNonce
    BY DEF NoChallenge, Challenges
  <2> QED BY <1>1, <1>2, <2>1, <2>2, SendPreserves DEF TypeOK
<1>4. CASE BeginProbe(t)
  <2>1. Send(t, challenge, nc) /\ probing' = [probing EXCEPT ![t] = TRUE]
    BY <1>4 DEF BeginProbe
  <2>2. \A u \in Tasks \ {t} : challenge.nonce # NoNonce =>
                                 line[u].given.nonce # challenge.nonce
    BY DEF IInv, TaskInv, Unclaimed
  <2> QED BY <1>1, <1>2, <2>1, <2>2, SendPreserves DEF TypeOK
<1> QED BY <1>3, <1>4

LEMMA RetryPreserves ==
  ASSUME IInv, NEW t \in Tasks, Retry(t)
  PROVE  IInv'
<1>1. /\ TypeOK /\ TaskInv(t) /\ UNCHANGED probing /\ UNCHANGED device
      /\ line[t].at = "answer" /\ line[t].kind = "challenged"
      /\ fresh' = [fresh EXCEPT ![t] = TRUE] /\ Send(t, line[t].given, 0)
      /\ attempt[t] < MaxAuthAttempts /\ Retries(t)
  BY DEF IInv, Retry, Answered, MayRetry
<1>2. executed[t] = 0 /\ 0 \in 0 .. 2
  BY <1>1 DEF TaskInv, Truthful
<1>3. line[t].given \in Challenges
  BY <1>1 DEF TypeOK, Lines
<1>4. ~rightPassword /\ ~probing'[t] => attempt[t] <= 1
  BY <1>1 DEF TaskInv, SentOnce, Retries
<1>5. \A u \in Tasks \ {t} : line[t].given.nonce # NoNonce =>
                               line[u].given.nonce # line[t].given.nonce
  BY <1>1 DEF TaskInv, Unclaimed
<1>6. /\ fresh' \in [Tasks -> BOOLEAN] /\ probing' \in [Tasks -> BOOLEAN]
      /\ fresh'[t]
      /\ \A u \in Tasks \ {t} : probing'[u] = probing[u] /\ fresh'[u] = fresh[u]
  BY <1>1 DEF TypeOK
<1>7. ~fresh'[t] => attempt[t] = 0
  BY <1>6
<1> QED
  BY <1>1, <1>2, <1>3, <1>4, <1>5, <1>6, <1>7, SendPreserves

\* A request that ends takes its nonce out of sight, or leaves it in the
\* challenge, where nobody else was given it.
LEMMA EndPreserves ==
  ASSUME IInv, NEW t \in Tasks, state[t] = "waiting",
         NEW how \in Failures \cup {"ok"},
         state' = [state EXCEPT ![t] = how],
         line' = [line EXCEPT ![t] = Idle]
           \/ (how = "unreachable" /\ line[t].at = "request" /\ UNCHANGED line),
         challenge' \in {challenge, NoChallenge}
           \/ (challenge' = line[t].given /\ line' = [line EXCEPT ![t] = Idle]),
         nc' \in {nc, 0},
         UNCHANGED <<probing, attempt, fresh, header, uses>>, UNCHANGED device
  PROVE  IInv'
<1>1. TypeOK /\ TaskInv(t)
  BY DEF IInv
<1>2. UNCHANGED <<spent, rightPassword, executed>>
  BY DEF device
<1>3. /\ state'[t] = how /\ how # "new" /\ how # "waiting"
      /\ line'[t] = Idle \/ (how = "unreachable" /\ line[t].at = "request"
                               /\ line'[t] = line[t])
  BY <1>1 DEF TypeOK, Failures
<1>4. TypeOK'
  <2>1. challenge' \in Challenges
    BY <1>1, Empty DEF TypeOK, Lines
  <2>2. state' \in [Tasks -> States] /\ line' \in [Tasks -> Lines]
    BY <1>1, Empty DEF TypeOK, States
  <2> QED BY <1>1, <1>2, <2>1, <2>2 DEF TypeOK
<1>5. TaskInv(t)'
  <2>1. line'[t].given = NoChallenge /\ line'[t].at # "answer"
    BY <1>1, <1>3, Empty DEF TaskInv, InFlight
  <2>2. line'[t].at = "request" => line[t].at = "request" /\ how = "unreachable"
    BY <1>3, Empty
  <2>3. Unbegun(t)' /\ InFlight(t)'
    BY <1>3, <2>1, <2>2, Empty DEF Unbegun, InFlight
  <2>4. SentOnce(t)' /\ Truthful(t)'
    BY <1>1, <1>2, <2>1, <2>2, Empty DEF TaskInv, SentOnce, Truthful
  <2>5. Unclaimed(t)'
    BY <2>1, Empty DEF Unclaimed
  <2> QED BY <2>3, <2>4, <2>5 DEF TaskInv
<1>6. ASSUME NEW u \in Tasks \ {t} PROVE TaskInv(u)'
  <2>1. line'[u] = line[u] /\ state'[u] = state[u]
    BY <1>1 DEF TypeOK
  <2>2. TaskInv(u)
    BY DEF IInv
  <2>3. Unclaimed(u)'
    <3> DEFINE n == line[u].given.nonce
    <3>1. n # NoNonce => challenge'.nonce # n
      BY <2>2, Empty DEF TaskInv, Unclaimed
    <3>2. \A v \in Tasks : line'[v] = line[v] \/ line'[v] = Idle
      BY <1>1 DEF TypeOK
    <3>3. n # NoNonce => \A v \in Tasks \ {u} : line'[v].given.nonce # n
      BY <2>2, <3>2, Empty DEF TaskInv, Unclaimed
    <3> QED BY <2>1, <2>2, <3>1, <3>3 DEF TaskInv, Unclaimed
  <2> QED BY <1>2, <2>1, <2>2, <2>3, BystanderKept
<1> QED BY <1>4, <1>5, <1>6 DEF IInv

LEMMA EndingPreserves ==
  ASSUME IInv, NEW t \in Tasks,
         ExhaustAttempts(t) \/ Rejected(t) \/ ProbeRejected(t) \/ Finish(t)
  PROVE  IInv'
<1>1. state[t] = "waiting"
  BY DEF ExhaustAttempts, Rejected, ProbeRejected, Finish, Answered
<1>2. /\ challenge' \in {challenge, NoChallenge} \/ challenge' = line[t].given
      /\ nc' \in {nc, 0} /\ UNCHANGED probing /\ UNCHANGED device
  BY DEF ExhaustAttempts, Rejected, ProbeRejected, Finish
<1>3. PICK how \in Failures \cup {"ok"} : End(t, how)
  BY DEF ExhaustAttempts, Rejected, ProbeRejected, Finish, Ending, Result, Failures, Kinds
<1> QED BY <1>1, <1>2, <1>3, EndPreserves DEF End

LEMMA GiveUpPreserves ==
  ASSUME IInv, NEW t \in Tasks, GiveUp(t)
  PROVE  IInv'
<1>1. UNCHANGED device /\ "unreachable" \in Failures \cup {"ok"}
  BY DEF GiveUp, Failures
<1> QED BY <1>1, EndPreserves DEF GiveUp, TimesOut

\* An answer with a nonce that nobody holds, if it brings one.
LEMMA AnswerPreserves ==
  ASSUME IInv, NEW t \in Tasks, line[t].at = "request",
         NEW kind \in Kinds, NEW given \in Challenges, Answer(t, kind, given),
         given # NoChallenge => kind = "challenged",
         given.stale => rightPassword,
         given.nonce # NoNonce => /\ given.nonce \in Nonces \ Held
                                  /\ uses'[given.nonce] = 0,
         uses' \in [Nonces -> 0 .. 2],
         \A n \in Nonces \cap Held : uses'[n] = uses[n],
         executed' \in [Tasks -> 0 .. 1],
         \A u \in Tasks \ {t} : executed'[u] = executed[u],
         IF executed'[t] = 0 THEN kind # "ok" ELSE kind \in {"ok", "garbled"},
         spent' \in SUBSET Nonces, UNCHANGED client, UNCHANGED rightPassword
  PROVE  IInv'
<1>1. TypeOK /\ TaskInv(t)
  BY DEF IInv
<1>2. UNCHANGED <<challenge, nc, probing, state, attempt, fresh, header>>
  BY DEF client
<1> DEFINE answer == [at |-> "answer", kind |-> kind, given |-> given]
<1>3. /\ line' = [line EXCEPT ![t] = IF state[t] = "waiting" THEN answer ELSE Idle]
      /\ answer \in Lines
      /\ answer.at = "answer" /\ answer.kind = kind /\ answer.given = given
  BY DEF Answer, Lines
<1> HIDE DEF answer
<1>4. line'[t] = (IF state[t] = "waiting" THEN answer ELSE Idle)
  BY <1>1, <1>3 DEF TypeOK
<1>5. TypeOK'
  <2>1. line' \in [Tasks -> Lines]
    BY <1>1, <1>3, Empty DEF TypeOK
  <2>2. executed' \in [Tasks -> 0 .. 2]
    OBVIOUS
  <2> QED BY <1>1, <1>2, <2>1, <2>2 DEF TypeOK
<1>6. \A n : n \in Held <=> \/ n = challenge.nonce
                            \/ \E v \in Tasks : n = header[v]
                            \/ \E v \in Tasks : n = line[v].given.nonce
  BY DEF Held
<1>7. TaskInv(t)'
  <2>1. state[t] # "new"
    BY <1>1 DEF TaskInv, InFlight
  <2>2. Unbegun(t)' /\ InFlight(t)'
    BY <1>2, <1>3, <1>4, <2>1, Empty DEF Unbegun, InFlight
  <2>3. SentOnce(t)' /\ Truthful(t)'
    <3>1. SentOnce(t)'
      BY <1>1, <1>2, <1>3, <1>4, Empty DEF TaskInv, SentOnce
    <3>2. executed'[t] \in 0 .. 1
      OBVIOUS
    <3> QED BY <1>3, <1>4, <3>1, <3>2, Empty DEF Truthful
  <2>4. Unclaimed(t)'
    <3>1. \A v \in Tasks \ {t} : line'[v] = line[v]
      BY <1>1, <1>3 DEF TypeOK
    <3>2. line'[t].given.nonce # NoNonce => line'[t].given = given
      BY <1>3, <1>4, Empty
    <3> QED BY <1>2, <1>6, <3>1, <3>2 DEF Unclaimed
  <2> QED BY <2>2, <2>3, <2>4 DEF TaskInv
<1>8. ASSUME NEW u \in Tasks \ {t} PROVE TaskInv(u)'
  <2>1. line'[u] = line[u]
    BY <1>1, <1>3 DEF TypeOK
  <2>2. TaskInv(u)
    BY DEF IInv
  <2>3. Unclaimed(u)'
    <3> DEFINE n == line[u].given.nonce
    <3>1. n \in Held
      BY <1>6
    <3>2. n # NoNonce => n \in Nonces /\ uses'[n] = uses[n]
      BY <1>1, <3>1 DEF TypeOK, Lines, Challenges
    <3>3. \A v \in Tasks \ {u} : line'[v] = line[v] \/ line'[v].given = given
                                   \/ line'[v].given = NoChallenge
      BY <1>1, <1>3, <1>4, Empty DEF TypeOK
    <3>4. n # NoNonce => \A v \in Tasks \ {u} : line'[v].given.nonce # n
      BY <2>2, <3>1, <3>3, Empty DEF TaskInv, Unclaimed
    <3> QED BY <1>2, <2>1, <2>2, <3>2, <3>4 DEF TaskInv, Unclaimed
  <2> QED BY <1>2, <2>1, <2>2, <2>3, BystanderKept
<1> QED BY <1>5, <1>7, <1>8 DEF IInv

LEMMA DevicePreserves ==
  ASSUME IInv, NEW t \in Tasks, Device(t)
  PROVE  IInv'
<1>1. TypeOK /\ TaskInv(t) /\ line[t].at = "request"
  BY DEF IInv, Device, CarryOut, Decline, Challenge, Refuse
<1>2. /\ executed[t] = 0
      /\ executed \in [Tasks -> 0 .. 1]
  <2>1. \A u \in Tasks : executed[u] \in 0 .. 1
    BY DEF IInv, TaskInv, Truthful, TypeOK
  <2> QED BY <1>1, <2>1 DEF TaskInv, Truthful, TypeOK
<1>3. \A n \in Nonces \cup {NoNonce} : Spend(n) => spent' \in SUBSET Nonces
  BY <1>1 DEF Spend, TypeOK
<1>4. header[t] \in Nonces \cup {NoNonce}
  BY <1>1 DEF TypeOK
<1>5. CASE CarryOut(t)
  <2>1. PICK kind \in {"ok", "garbled"} : Answer(t, kind, NoChallenge)
    BY <1>5 DEF CarryOut
  <2>2. executed' = [executed EXCEPT ![t] = 1]
    BY <1>2, <1>5 DEF CarryOut, AtMostTwo
  <2>3. /\ UNCHANGED client /\ UNCHANGED rightPassword /\ UNCHANGED uses
        /\ Spend(header[t])
    BY <1>5 DEF CarryOut
  <2>4. kind \in Kinds /\ executed'[t] = 1 /\ executed' \in [Tasks -> 0 .. 1]
    BY <1>2, <2>2 DEF Kinds
  <2>5. \A u \in Tasks \ {t} : executed'[u] = executed[u]
    BY <1>2, <2>2
  <2> QED BY <1>1, <1>3, <1>4, <2>1, <2>3, <2>4, <2>5, Empty, AnswerPreserves
          DEF TypeOK
<1>6. CASE Decline(t) \/ Refuse(t)
  <2>1. PICK kind \in {"missing", "error", "appError", "refused"} :
               Answer(t, kind, NoChallenge)
    BY <1>6 DEF Decline, Refuse
  <2>2. /\ UNCHANGED client /\ UNCHANGED <<rightPassword, uses, executed>>
        /\ Spend(header[t])
    BY <1>6 DEF Decline, Refuse
  <2>3. kind \in Kinds /\ kind # "ok"
    BY DEF Kinds
  <2> QED BY <1>1, <1>2, <1>3, <1>4, <2>1, <2>2, <2>3, Empty, AnswerPreserves
          DEF TypeOK
<1>7. CASE Challenge(t)
  <2>1. PICK stale \in BOOLEAN :
               /\ stale => rightPassword
               /\ Answer(t, "challenged", [nonce |-> NewNonce, stale |-> stale])
    BY <1>7 DEF Challenge
  <2> DEFINE given == [nonce |-> NewNonce, stale |-> stale]
  <2>2. NewNonce \in Nonces \ Held
    BY <1>1, NewNonceIsNew
  <2>3. /\ given \in Challenges /\ given.nonce = NewNonce /\ given.stale = stale
        /\ "challenged" \in Kinds
    BY <2>2 DEF Challenges, Kinds
  <2>4. /\ uses' = [uses EXCEPT ![NewNonce] = 0]
        /\ UNCHANGED client /\ UNCHANGED <<rightPassword, executed>>
        /\ spent' = (spent \cup {header[t]}) \ {NewNonce, NoNonce}
    BY <1>7 DEF Challenge
  <2>5. spent' \in SUBSET Nonces
    BY <1>1, <1>4, <2>4 DEF TypeOK
  <2>6. /\ uses' \in [Nonces -> 0 .. 2] /\ uses'[NewNonce] = 0
        /\ \A n \in Nonces \cap Held : uses'[n] = uses[n]
    BY <1>1, <2>2, <2>4 DEF TypeOK
  <2>7. Answer(t, "challenged", given)
    BY <2>1
  <2> HIDE DEF given
  <2> QED BY <1>1, <1>2, <2>1, <2>2, <2>3, <2>4, <2>5, <2>6, <2>7, AnswerPreserves
<1> QED BY <1>5, <1>6, <1>7 DEF Device

LEMMA NextPreserves == IInv /\ [Next]_vars => IInv'
<1> SUFFICES ASSUME IInv, [Next]_vars PROVE IInv'
  OBVIOUS
<1>1. CASE Next
  <2>1. PICK t \in Tasks : Client(t) \/ Device(t)
    BY <1>1 DEF Next
  <2> QED BY <2>1, BeginPreserves, RetryPreserves, EndingPreserves,
             GiveUpPreserves, DevicePreserves DEF Client
<1>2. CASE UNCHANGED vars
  BY <1>2 DEF vars, IInv, TypeOK, TaskInv, Unbegun, InFlight, SentOnce,
              Unclaimed, Truthful
<1> QED BY <1>1, <1>2

LEMMA Invariance == Spec => []IInv
<1> QED BY InitEstablishes, NextPreserves, PTL DEF Spec

------------------------------------------------------------------------------
(* The theorems.                                                           *)

\* Every variable keeps its type, whichever tasks share the challenge and
\* whatever the device answers: in particular there is always a new nonce, and
\* no task sends more than MAX_AUTH_ATTEMPTS requests.
THEOREM TypeCorrect == Spec => []TypeOK
<1>1. IInv => TypeOK
  BY DEF IInv
<1> QED BY <1>1, Invariance, PTL

\* request (client.py) sends a wrong password once, however often the device says
\* 401 and whatever other tasks do to the challenge meanwhile.
THEOREM WrongPasswordIsSentOnce == Spec => []WrongPasswordSentOnce
<1>1. IInv => WrongPasswordSentOnce
  BY DEF IInv, TaskInv, SentOnce, WrongPasswordSentOnce
<1> QED BY <1>1, Invariance, PTL

\* A step of a request that sends a header builds it from a nonce that no header
\* was built from, among any number of tasks that share one DigestAuth.
THEOREM HeadersUseNewNonces == Spec => RequestsUseNewNonces
<1> DEFINE New == \A t \in Tasks : \A n \in Nonces :
             ~probing'[t] /\ header'[t] = n /\ header[t] # n => uses[n] = 0
<1>1. IInv /\ [Next]_vars => [New]_vars
  <2> SUFFICES ASSUME IInv, Next, NEW t \in Tasks, NEW n \in Nonces,
                      ~probing'[t], header'[t] = n, header[t] # n
               PROVE  uses[n] = 0
    BY DEF New
  <2>1. TypeOK /\ \A u \in Tasks : TaskInv(u)
    BY DEF IInv
  <2>2. PICK u \in Tasks : Client(u) \/ Device(u)
    BY DEF Next
  <2>3. PICK current \in {NoChallenge, challenge, line[u].given},
             count \in {0, nc} :
          /\ Send(u, current, count)
          /\ \/ Begin(u) /\ current = NoChallenge
             \/ BeginProbe(u)
             \/ Retry(u) /\ current = line[u].given
    BY <2>2 DEF Client, Device, Begin, BeginProbe, StartChallenge, Retry,
         ExhaustAttempts, Rejected, ProbeRejected, Finish, GiveUp, End,
         CarryOut, Decline, Challenge, Refuse, client
  <2>4. current.nonce # NoNonce /\ u = t /\ current.nonce = n
    BY <2>1, <2>3 DEF Send, TypeOK
  <2>5. ~BeginProbe(u)
    BY <2>1, <2>4 DEF BeginProbe, TypeOK
  <2> QED BY <2>1, <2>3, <2>4, <2>5, Empty DEF TaskInv, Unclaimed
<1>2. Spec => [][New]_vars
  BY <1>1, Invariance, PTL DEF Spec
<1> QED BY <1>2 DEF RequestsUseNewNonces, New

------------------------------------------------------------------------------
(* The promise of RemoteCall.                                              *)

Checked == Tasks \ Unchecked
told    == [t \in Checked |-> Outcome(t)]
done    == [t \in Checked |-> executed[t]]

LEMMA PromiseInit == Init => Remote!Init
BY DEF Init, Remote!Init, Outcome

\* A step of one task changes what that task is told, and no other.
Told(how) ==
  CASE how = "new"     -> "none"
    [] how = "waiting" -> "running"
    [] how = "ok"      -> "ok"
    [] OTHER           -> "failed"

LEMMA TaskMoves ==
  ASSUME TypeOK, NEW t \in Tasks, NEW how,
         state' = [state EXCEPT ![t] = how]
  PROVE  told' = IF t \in Checked THEN [told EXCEPT ![t] = Told(how)] ELSE told
<1>1. \A u \in Tasks : state'[u] = IF u = t THEN how ELSE state[u]
  BY DEF TypeOK
<1>2. Outcome(t)' = Told(how)
  BY <1>1 DEF Outcome, Told
<1>3. \A u \in Checked : u # t => Outcome(u)' = Outcome(u)
  BY <1>1 DEF Outcome, Checked
<1> QED BY <1>2, <1>3 DEF told

\* The step that each step of a task is to a caller who is promised RemoteCall.
LEMMA CallStep ==
  ASSUME IInv, NEW t \in Tasks, state[t] = "new", UNCHANGED executed,
         state' = [state EXCEPT ![t] = "waiting"]
  PROVE  Remote!Next \/ UNCHANGED Remote!vars
<1>1. done' = done
  BY DEF done
<1>2. told' = IF t \in Checked THEN [told EXCEPT ![t] = "running"] ELSE told
  BY TaskMoves DEF IInv, Told
<1>3. t \in Checked => told[t] = "none"
  BY DEF told, Outcome
<1>4. CASE t \in Checked
  <2>1. Remote!Call(t)
    BY <1>1, <1>2, <1>3, <1>4 DEF Remote!Call, told, done, Checked
  <2> QED BY <1>4, <2>1 DEF Remote!Next, Checked
<1>5. CASE t \notin Checked
  BY <1>1, <1>2, <1>5 DEF Remote!vars, told, done, Checked
<1> QED BY <1>4, <1>5

LEMMA EndStep ==
  ASSUME IInv, NEW t \in Tasks, state[t] = "waiting", UNCHANGED executed,
         NEW how \in Failures \cup {"ok"},
         state' = [state EXCEPT ![t] = how],
         t \in Checked /\ how = "ok" => executed[t] = 1
  PROVE  Remote!Next \/ UNCHANGED Remote!vars
<1>1. done' = done
  BY DEF done
<1>2. told' = IF t \in Checked THEN [told EXCEPT ![t] = Told(how)] ELSE told
  BY TaskMoves DEF IInv
<1>3. t \in Checked => told[t] = "running"
  BY DEF told, Outcome
<1>4. CASE t \in Checked
  <2>1. how = "ok" => Remote!Succeed(t)
    BY <1>1, <1>2, <1>3, <1>4 DEF Remote!Succeed, told, done, Checked, Told
  <2>2. how # "ok" => Remote!Fail(t)
    BY <1>1, <1>2, <1>3, <1>4
       DEF Remote!Fail, told, done, Checked, Told, Failures
  <2> QED BY <1>4, <2>1, <2>2 DEF Remote!Next, Checked
<1>5. CASE t \notin Checked
  BY <1>1, <1>2, <1>5 DEF Remote!vars, told, done, Checked
<1> QED BY <1>4, <1>5

LEMMA CarryOutStep ==
  ASSUME IInv, NEW t \in Tasks, CarryOut(t)
  PROVE  Remote!Next \/ UNCHANGED Remote!vars
<1>1. TypeOK /\ TaskInv(t) /\ line[t].at = "request" /\ UNCHANGED state
  BY DEF IInv, CarryOut, client
<1>2. executed[t] = 0 /\ state[t] \in {"waiting", "unreachable"}
  BY <1>1 DEF TaskInv, Truthful, InFlight
<1>3. executed' = [executed EXCEPT ![t] = 1]
  BY <1>2 DEF CarryOut, AtMostTwo
<1>4. told' = told
  BY <1>1 DEF told, Outcome
<1>5. done' = IF t \in Checked THEN [done EXCEPT ![t] = 1] ELSE done
  BY <1>1, <1>3 DEF done, Checked, TypeOK
<1>6. CASE t \in Checked
  <2>1. told[t] \in {"running", "failed"} /\ done[t] = 0
    BY <1>2, <1>6 DEF told, done, Outcome
  <2>2. Remote!CarryOut(t)
    BY <1>4, <1>5, <1>6, <2>1 DEF Remote!CarryOut, told, done, Checked
  <2> QED BY <1>6, <2>2 DEF Remote!Next, Checked
<1>7. CASE t \notin Checked
  BY <1>4, <1>5, <1>7 DEF Remote!vars, told, done, Checked
<1> QED BY <1>6, <1>7

LEMMA StepKeepsPromise ==
  ASSUME IInv, [Next]_vars
  PROVE  [Remote!Next]_(Remote!vars)
<1>1. ASSUME NEW t \in Tasks, Client(t) \/ Device(t)
      PROVE  Remote!Next \/ UNCHANGED Remote!vars
  <2>1. CASE Begin(t) \/ BeginProbe(t)
    BY <2>1, CallStep DEF Begin, BeginProbe, Send, device
  <2>2. CASE Retry(t)
    <3>1. state' = [state EXCEPT ![t] = "waiting"] /\ state[t] = "waiting"
      BY <2>2 DEF Retry, Answered, Send
    <3>2. state' = state /\ executed' = executed
      BY <2>2, <3>1 DEF Retry, device, IInv, TypeOK
    <3> QED BY <3>2 DEF Remote!vars, Outcome
  <2>3. CASE ExhaustAttempts(t) \/ Rejected(t) \/ ProbeRejected(t)
    <3>1. PICK how \in Failures : state' = [state EXCEPT ![t] = how]
      BY <2>3 DEF ExhaustAttempts, Rejected, ProbeRejected, End, Failures
    <3>2. state[t] = "waiting" /\ UNCHANGED executed /\ how # "ok"
      BY <2>3 DEF ExhaustAttempts, Rejected, ProbeRejected, Answered, device,
                  Failures
    <3> QED BY <3>1, <3>2, EndStep
  <2>4. CASE Finish(t)
    <3>1. PICK kind \in Kinds \ {"challenged", "refused"} :
                 Answered(t, kind) /\ End(t, Ending(t, kind))
      BY <2>4 DEF Finish
    <3>2. UNCHANGED executed
      BY <2>4 DEF Finish, device
    <3>3. Ending(t, kind) \in Failures \cup {"ok"}
      BY <3>1 DEF Ending, Result, Kinds, Failures
    <3>4. t \in Checked /\ Ending(t, kind) = "ok" => kind = "ok"
      BY <3>1, IsapiClientAssumption DEF Checked, Ending, Result, Kinds
    <3>5. kind = "ok" => executed[t] = 1
      <4>1. TaskInv(t) /\ executed[t] \in 0 .. 2
        BY DEF IInv, TypeOK
      <4> QED BY <3>1, <4>1 DEF TaskInv, Truthful, Answered
    <3> QED BY <3>1, <3>2, <3>3, <3>4, <3>5, EndStep DEF End, Answered
  <2>5. CASE GiveUp(t)
    <3>1. /\ "unreachable" \in Failures \cup {"ok"} /\ UNCHANGED executed
          /\ state[t] = "waiting" /\ state' = [state EXCEPT ![t] = "unreachable"]
      BY <2>5 DEF GiveUp, TimesOut, device, Failures
    <3> QED BY <3>1, EndStep
  <2>6. CASE CarryOut(t)
    BY <2>6, CarryOutStep
  <2>7. CASE Decline(t) \/ Challenge(t) \/ Refuse(t)
    <3>1. UNCHANGED <<state, executed>>
      BY <2>7 DEF Decline, Challenge, Refuse, client
    <3> QED BY <3>1 DEF Remote!vars, Outcome
  <2> QED BY <1>1, <2>1, <2>2, <2>3, <2>4, <2>5, <2>6, <2>7 DEF Client, Device
<1>2. CASE UNCHANGED vars
  BY <1>2 DEF vars, Remote!vars, Outcome
<1> QED BY <1>1, <1>2 DEF Next

\* IsapiClient.request, over a network that loses requests and answers, with a
\* device that challenges as it likes: a command is carried out at most once, and
\* success is told only of one that was carried out.
THEOREM ImplementsRemoteCall == Spec => KeepsPromise
BY PromiseInit, StepKeepsPromise, Invariance, PTL
   DEF Spec, KeepsPromise, Remote!Spec
==============================================================================
