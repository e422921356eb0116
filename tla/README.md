# A formal model of the Hikvision intercom integration

The repository is a Home Assistant integration for a Hikvision door station: it
polls the station's `callStatus`, turns what it sees into doorbell events, sends
the station commands (open the door, switch a relay, answer, hang up), and holds
the beginnings of a push channel (the station posts its events to a webhook).
Config flows store the logins of stations, and a probe at set-up decides which
entities a station gets.
The code under `src/custom_components/hikvision_intercom/` and the tool
`src/tools/capture_httphost.py` are what this directory models. Paths below are
relative to `src/`; `CC` stands for `custom_components/hikvision_intercom`.

`PROJECT.json` is the machine-readable index: components, runs, which definition
translates which lines, what could go wrong where, and what is proved.

## 1. Inventory

| component | code | state it keeps | operations |
|---|---|---|---|
| Failure backoff | `CC/backoff.py` | a failure count | record a failure or a success; the interval that count calls for |
| Coordinator | `CC/coordinator.py` | call state, push mode and its age, ring stopwatch, last verdict, poll interval, availability | a read succeeds, fails, or raises something else; a push event arrives; a command |
| Doorbell entity | `CC/event.py` | none: it fires what the coordinator tells it | `ring`, `answered`, `missed` |
| Entry life cycle | `CC/__init__.py` | the entry, the client and coordinator made for it | set up, retry, ask for the password, reload, unload |
| Config flow and options | `CC/config_flow.py` | the entries; per flow, the data being validated | user step, reauth, options |
| ISAPI client | `CC/isapi/client.py` | one session, one `DigestAuth` | `request`, its retries; `_probe_alert_stream` |
| Capability probe | `CC/isapi/client.py` | the `Capabilities` found so far | ten requests, one after the other |
| Digest authentication | `CC/isapi/digest.py` | challenge, nonce count | set, reset, build a header |
| Lock | `CC/lock.py` | the shown state, sleeping relock tasks | unlock, open, lock, relock |
| Switches | `CC/switch.py` | the assumed state | on, off |
| Webhook | `CC/isapi/webhook.py` | the device's one `httpHosts` slot | configure, clear, parse an event |
| Capture tool | `tools/capture_httphost.py` | the same slot, `original`, `configured` | read, write, wait, undo |
| Parsers | `CC/isapi/models.py`, `CC/isapi/webhook.py` | none | pure functions of an answer or of a pushed event |
| Buttons | `CC/button.py` | none | answer, reject, hang up, reboot: a command and a refresh |
| Binary sensors, camera | `CC/binary_sensor.py`, `CC/camera.py` | none | read the coordinator's data, or make one request |
| Door station (external) | `docs/protocol.md` | call cycle, slot, relays | rings, is picked up, gives up, ends |
| Home Assistant (external) | how the code uses it | refresh timer, one refresh at a time | schedule, first refresh, reload |

How they interact.  Everything runs in one event loop: a handler is atomic from
one `await` to the next, and anything may happen at an `await`.  The coordinator
awaits the client, the client awaits the device; meanwhile push callbacks,
commands, reloads and other requests run.  All requests of an entry share one
`DigestAuth`.  The coordinator calls the listeners of the doorbell entity
synchronously.  Several parties write the one `httpHosts` slot of the device
with no lock between them.

What is hard here: a read samples the device at one moment and is processed at
another; push and poll report the same ring; retries of a request whose first
attempt may have been carried out; shared authentication state replaced during an
`await`; outages during a ring; the timer being set again by a push; calls cut
short from a button; sleeping relock tasks that outlive the call they belong to;
a read-then-write of a slot others write; undoing what may or may not have been
done; flows that overlap, and entries that change while they are validated or set
up; a probe of which some requests fail; answers whose shape depends on how many
elements they have.

What makes each component correct:

* backoff and coordinator: the interval fits mode and failure count, a demoted
  push channel is flagged, the stopwatch runs exactly during a ring;
* doorbell: each ring is announced at most once, in time, in order, then judged
  once, in time and with the right outcome, before the next one;
* update loop: it converges on the device's state, reports a dead device and
  recovers from an outage;
* client: a command is carried out at most once, success means it was, a request
  ends, a wrong password is not sent again and again, a nonce is used once;
* lock and switches: what is shown is temporary (lock) or agrees with the device
  (switch) whenever it can be known;
* slot: nobody's entry is overwritten that could have been seen, and what was
  configured is undone;
* config flow and life cycle: a device has one entry, what is stored was accepted
  by a device as a whole, a set-up ends in a loaded entry or asks the user;
* probe and parsers: the entities agree with what the device said, whichever
  requests failed; an event is read for what it says; `configure_host` knows its
  own entry again.

## 2. Modules

| module | models | rests on |
|---|---|---|
| `Backoff` | the three methods of `FailureBackoff` as functions of the count | |
| `Coordinator` | every handler of `HikvisionIntercomCoordinator`, one action each, in any order | `Backoff` |
| `Availability` | the coordinator with a history of its reads, by which its availability is judged | `Coordinator` |
| `DoorStation` | the call cycle of the device and its timers (external) | |
| `Intercom` | coordinator, device, network, Home Assistant's scheduler, entry set-up and reload, composed | `Coordinator`, `DoorStation` by `INSTANCE` |
| `Doorbell` | abstract: what a listener to the doorbell entity is promised | refined by `Intercom` |
| `IsapiClient` | `request`, `_decode`, `_probe_alert_stream` and `DigestAuth`, run by several tasks | |
| `RemoteCall` | abstract: what `request` promises of a command | refined by `IsapiClient`, used by `DoorControl` |
| `DoorControl` | lock and switches, overlapping service calls | `RemoteCall` by `INSTANCE` |
| `HostSlot` | `configure_host`, `clear_host`, the capture tool, other writers | what `RemoteCall` says of a failed request |
| `Setup` | the config flows, the entries they store, set-up, retry, reload, reauth, restart | |
| `Answers` | the parsers of `models.py` and `webhook.py`, as operators on the element tree of an answer; the state of an event, once flattened | |
| `PushEvents` | `xml_to_dict` in full, `_flatten` and so `parse_push_event`: recursive, and only run by TLC | `Answers` |
| `Probe` | `get_device_info`, `probe_capabilities`, the entities made of them, later documents | `Answers` (`MCProbe` also `PushEvents`) |
| `*Proofs` | theorems about `Coordinator`, `DoorControl`, `Setup`, `HostSlot`, `IsapiClient`, `Intercom`, `Probe` | TLAPS |
| `IntercomTimingProofs` | theorems about the time `Intercom` takes | `IntercomProofs` |
| `MC*` | the same modules, extended for TLC | |

### State and actions against the code

**Coordinator.**  Each variable is one attribute; its comment names it.  A
`time.monotonic()` stamp is kept as its age, cut off just past the only value it
is compared with.  `ReadSucceeds` is `_async_update_data` with everything it
calls (watchdog, demotion, ring, verdict) from the answer on; `ReadFails` is
`_handle_read_failure`; `ReadUnparsable` an exception that none of its handlers
catch; `PushEvent` is `async_handle_push_event`.  `interval()` raises
`OverflowError` once `2**excess` fits no float; the two `...Overflowing`
actions are the handlers that it interrupts.  `available`, `ring_channel` and
`last_event` are left out: no entity reads them.  `Availability` adds no step, only
history: how many reads failed since the last
read that succeeded (`failed`), and what was last heard (`news`).  The
counter of the code (`failures`) is another thing, which pushes and bad answers pass by.

**Intercom.**  A read is three steps: `StartRefresh` (the timer, a request for a
refresh, or the first refresh), `DeviceAnswers` (the device samples its state),
`FinishRead` (the coordinator processes it), or `FailRead`.  `timer` is
`DataUpdateCoordinator`'s: set again after each refresh and each push, not set
before anybody listens; a refresh that falls due during another waits for it.
`stage` is how far `async_setup_entry` is, so that a ring detected by the first
refresh finds no listener.  `Setup` builds a new coordinator, on a retry
(`ConfigEntryNotReady`) or a reload (an options change).  `Crash` and `Recover`
are the device's HTTP server.  `rung`, `verdicts`, `seenRing` and `watch` are
history: which ring each event was about, and whether it was pressed while a
healthy coordinator was watching.  `CallSignal` and `Reboot` are the buttons: what
a press may do to the device.  A signal's effect is unverified (`README.md:54-56`),
so a press may also do nothing but ask for a refresh, which `StartRefresh` allows
at any time.  `cutShort[k]` remembers that ring `k`'s call was ended so, and in
which state.  As shipped nothing calls
`async_handle_push_event`; `PushWired` says whether something does.

**IsapiClient.**  A task runs from one `await` to the next: one action sends the
first attempt, one processes an answer and sends the next.  Leaving aiohttp's
response context is taken not to suspend.  `line[t]` is what is between a task
and the device; a request whose caller gave up may still arrive.  The variable
`probing[t]` tells a probe from a request, `Unchecked` names the tasks whose
answer is raw bytes or JSON, in which `_decode` looks for no `ResponseStatus`, and
`Raw` those of them whose answer is not even parsed.
Nonces are recycled: a new one is the least that nobody holds.

**DoorControl.**  `Command` runs up to the await in `async_execute`; `Pulsed`,
`Switched` and `CommandFails` are what follows it.  `relockIn[t]` is the
`relock` task call `t` left behind.  One switch stands for the relays and for
the permanent unlock: the handler is the same.

**HostSlot.**  A task is one configuration, named by the address it writes.  Its
awaited request is carried out by the device at one step (`CarryOut`), and
answered at a later one (`Succeed`), fails (`Fail`), or is cancelled by Ctrl-C
(`Interrupt`, the capture tool only).  What failed without having been carried
out may be carried out later (`CarryOutLate`).  A failed GET reads as a free
slot, as in the code.  A DELETE that fails ends a capture with a warning, unless it
was carried out and only its answer does not parse: `ParseError` passes the
handler (`AfterFailure`).  An address is taken to be short enough for
`build_host_config`.

**Setup.**  Each `await` of a flow or of a set-up is a step.  `flow[f]` is the
login a user flow has sent to be validated; `Validated` is everything from the
answer on (`async_set_unique_id`, `_abort_if_unique_id_configured`, which may
update an entry, or `async_create_entry`).  `stored[e]` is the entry, `phase[e]`
how far `async_setup_entry` is: `info`, `probe`, `refresh` for its three awaits,
then `loaded`, or `retry` (`ConfigEntryNotReady`), `rejected`
(`ConfigEntryAuthFailed`) or `broken` (any other exception); the last two are not
retried.  `using[e]` is the login the set-up read from the entry when it began.
`reauth[e]` and `sent[e]` are the entry's reauth flow and the data it validates,
merged before the `await` and written after it.  `reload[e]` is a reload Home
Assistant has scheduled, which waits for a set-up under way.  `Outcomes` says what
a request may come to: any may be `unavailable`; one that reaches a device is
accepted, rejected or, if `Garbled`, answered by something that does not parse;
`Moody` lets a device reject a right password, as this firmware does
(`coordinator.py:153`).  Devices change address (`Readdress`) and password
(`SetPassword`); `Restart` keeps the entries and nothing else.

**Probe.**  `Ask` is one request, in the code's order, with the answer it comes
to: an `IsapiError`, an empty body, one that does not parse, or a document.
`Escapes` says which exception leaves the set-up, `Learn` what the parsers make of
the answer; after the last request `Locks`, `Relays`, `AlwaysOpen` and `Cameras`
are the entities that the platforms create.  `Hear` and `ReadSlot` give
`webhook.py` a pushed event and the answer to a GET of the slot.  `caps[x]` is what
the answer of endpoint `x` was read as.  A document is a tree of tag, attributes,
text and children.  `PushEvents` turns it into Python's dicts and lists as
`_node_to_value` does; `Answers` needs no such conversion, and reads off the tree
what `data.get` returns of it: nothing, a text, a dict or a list (`Field`,
`Places`).  That the two agree is a property of the run (`ReadsWhatIsThere`).  Texts
are atoms; the constants `Numeral`, `Split` and `Lowercase` tabulate what `int()`, a
split at commas and `lower()` make of them, and `TooLong` has the paths of more than
128 characters, which `build_host_config` refuses.  `ReadEvent` stands for `parse_push_event`; the run gives it
`ParsePushEvent`.  The other properties are stated on the trees themselves, not on
what the parsers make of them.

## 3. Runs

Each run is a `.cfg` on an `MC*` module.  Deadlock is checked except in
`Requests`, `HostSlot` and `Probe`: their tasks make one call each, or ask each
endpoint once, and then stop.

| run | shows | bounds |
|---|---|---|
| `Coordinator` | the interval fits mode and failure count; a demotion is flagged; the stopwatch runs exactly during a ring (until a push takes over); the entities are available exactly while the last thing heard was an answer or a push, or a failure that is within the tolerance, counted from the last read that succeeded | two tolerated failures as in the code; three more reach the cap, a fourth the overflow of the doubling |
| `IntercomPolling` | as shipped: at most one event per ring; announced in time; judged in time, before the next ring; an unanswered ring is missed; a ring pressed once the entry is loaded is not judged unannounced; the `Doorbell` specification is implemented | two rings, any number of outages, garbled answers, call signals and reboots |
| `IntercomLive` | with push, outages and a reload: the state converges, a dead device is reported and stays reported, an outage is recovered from | one ring, one event under way at once, one reload |
| `Requests` | two tasks, request or probe: `RemoteCall` is implemented, requests end, a wrong password goes out once, an answered challenge was new | two tasks, one of them with an unchecked, raw answer, four attempts as in the code |
| `DoorControl` | the lock is never stuck open and relocks; the switch agrees with the device | three calls of any kind, two ticks of sleep |
| `HostSlot` | an unforced configuration overwrites nothing it could have seen; a capture undoes what it was told it did | two installers, one of them forced, one capture, one NVR that writes at any time |
| `Setup` | one entry per device; only logins just accepted are stored; an entry whose login is right gets loaded or has its user asked | two devices, addresses, passwords, entries and user flows, one change, garbled answers |
| `Probe` | entities agree with the documents whichever requests failed; events and slots are read for what they say; what a parser finds in an element is what `xml_to_dict` makes of it | the answers of `tests/fixtures`, up to two that differ, or later documents |
| `SlowReads` (violation) | reads as slow as the client's timeout allows turn a missed ring into an answered one | as `IntercomPolling`, one ring, no garbled answers, `ReadTime` 4 |
| `MotionHidesRing` (violation) | an event that is not about the bell ends the polling, and a ring answered before the next health check is never announced; without push (`PushWired = FALSE`) the property holds | as `PushDuplicatesRing`, `PushTimeout` beyond the ring |
| `PushDuplicatesRing` (violation) | push and poll announce one ring twice | as `SlowReads` with `ReadTime` 1 and `PushWired` |
| `RejectionAsksPassword` (violation) | one rejection of a right password at set-up opens a reauth flow | one device, one entry, one flow, `Moody` |

**Time in `IntercomPolling`.**  A tick is half a second.  Poll interval (2 ticks),
read time (1 tick) and the margin between the device's ring timeout and the
threshold (4 ticks) are to scale, since the verdict depends on them.  The long
durations only keep their order: health check (5) < ring (6) < cap of the backoff
(7) stand for 30 < 31.2 < 60 seconds.  `MinOnCall` (5) exceeds the latency of a
poll (poll interval and two reads, 4), as the shortest measured `onCall`, 7
seconds, exceeds it in reality.  Two rings are enough for a property that relates
a ring and the one before it.  One tolerated failure (the code: two) and two
doublings keep all three regimes of the backoff: absorbed, stretched, capped.
`IntercomLive` uses the smallest constants at which pushes, the silent-push
watchdog, tolerated and reported failures, the overflow of the interval and a
reload still happen: what it checks does not depend on how long a ring lasts.

**What a timely event may assume.**  `AnnouncedInTime`, `JudgedInTime` and
`UnansweredIsMissed` speak of rings pressed while a loaded coordinator was reading
a device that answered, not recovering from failures and with the ring before
already seen, and that stayed so (`watch[k] = "well"`).  `OneEventPerRing`,
`JudgedBeforeNext` and `KeepsPromise` assume none of that.

**What the bounds of `Setup` and `Probe` leave in.**  Two of everything is what
a race needs: two flows for one device, a flow and a reauth for one entry, a
device taking the other's address.  The run starts with every device at some
address and passwords that differ; other beginnings differ in names, or come about
by the one change (an address, a password, an option, a reload or a restart).
Every parser's special case is an odd document of `MCProbe` (a single element, a
repeated one, a missing one, a leaf with attributes, a range that is not numeric,
a `ResponseStatus` in its place).  Two odd answers suffice for what relates two
requests: only the lock does, by the flag of one and the commands of another.

**Fairness.**  `Intercom`: the event loop and its timers run (`Tick`, a refresh
that is due starts, an answer is processed, platforms are set up, Home Assistant
retries a failed set-up), a read that was sent is answered or times out (the
session's timeout), and a ring nobody picks up ends.  Nothing is assumed of
crashes, recoveries, presses, pick-ups, pushes or their loss; a call may last for
ever.  `IsapiClient`: an answer that is in is processed, a wait without one times
out.  The device need not answer.  `DoorControl`: time goes on and a finished
sleep resumes its task.  `Setup`: Home Assistant starts and retries set-ups and
does the reloads it scheduled; a request ends (weak fairness of the outcomes
`rejected` and `unavailable`, of which one is always possible); and a device that
is asked again and again with the right password answers at last (strong fairness
of `ok` for the first request and the refresh).  Nothing is assumed of users.

**Mutants.**  Each property of each passing run is violated by a plausible bug
kept beside the definition it would sit in (`Rescales_NotOnRecovery`,
`Verdict_OffByOne`, ...).  `PROJECT.json` lists which one breaks which.

## 4. Proofs

Each theorem holds for all constants that satisfy the named assumptions.

`CoordinatorProofs` proves each property of the run `Coordinator`: `TypeCorrect`,
`IntervalIsRight`, `DemotionAlwaysFlagged`, `RingClockIsRight`,
`AvailabilityIsRight`.  For the first four the invariant is the conjunction of the four state
properties, because the interval's range needs `IntervalMatchesMode` (and that
needs the types) in the step that overflows: when the doubling cannot be computed
the old interval is kept, and that is the right one only because the largest
doubling that can be computed already exceeds the cap.  Hence the assumptions
`base * 2^MaxExponent >= MaxInterval`, true of 1 and 30 seconds, a cap of 60 and
an exponent of 1023.  `DoublingAssumption` (`2^k >= 2`) states a fact of
arithmetic no installed prover knows; TLC evaluates it.

`AvailabilityIsRight` is about `HistorySpec`, which implements `Spec`
(`HistoryOnlyWatches`), so that the invariant above may be used.
`AvailabilityMatchesReads` compares the entities with the history, of which the code
knows nothing; it is inductive only together with `CounterIsRight`: the counter of the
code, cut off just past the tolerance, is the number of reads that failed since the
last that succeeded.  That rests on every success resetting the counter, in either
mode, on a failure counting whether or not the interval then overflows, and on nothing
else touching it.

`DoorControlProofs` proves, for any set of service calls and any delay, the three
safety properties of the run `DoorControl`.  `NeverStuckUnlocked` is inductive
with the types.  `SwitchAgrees` is not: the invariant adds that, while the switch
is undisturbed, at most one switch command can still have an effect and its caller
still waits (`OnePending`), that this one, once carried out, was the last to be
(`LastCommandHolds`), and that the device does not act before it is asked.

`SetupProofs` proves, for any devices, addresses, flows and entries, the safety
properties of the run `Setup`: `TypeCorrect`, `OneEntryEach`,
`OnlyAcceptedIsStored`.  A reauth flow writes into the entry it was opened for
without looking whether it is there, so neither the types nor one entry per device
are inductive alone; the invariant adds `Grounded`: whatever is under way for an
entry, the entry is stored.  `OneEntryPerDevice` holds because looking an entry up
and making one are one step, with no await between them.

`HostSlotProofs` proves, for any number of captures, installers and outsiders, the
three properties of the run `HostSlot`: `TypeCorrect`, `CaptureCleansUp`,
`OverwritesNothingSeen`.  The invariant adds that a task's PUT is carried out at
most once, whether in time or late (`OnePut`), that a capture that was told of its
PUT has its own entry to delete or will warn (`UndoesItsOwn`), and that while what
an installer read is still the truth, the slot it writes is free or its own
(`WritesWhatItSaw`).  A step changes one task, and for the others only what they
may believe of the slot (`BystanderKept`).

`IsapiClientProofs` proves, for any number of tasks that share one `DigestAuth`,
the three safety properties of the run `Requests`, `TypeCorrect`,
`WrongPasswordIsSentOnce`, `HeadersUseNewNonces`, and the refinement
`ImplementsRemoteCall`.  None is inductive alone.  The invariant adds, for each
task: an answer is on the line only of a task that waits for it (`InFlight`); a
challenge says `stale` only to one that knows the password, and a task that has not
been challenged has sent one request (`SentOnce`); the nonce of a challenge under
way is in nobody's header and in no other's challenge (`Unclaimed`); what is
answered with success was carried out, once (`Truthful`).  Nonces are recycled, so
that a challenge can be new is a fact to prove: a task holds at most two nonces and
the shared challenge one, and there are more than that (`NewNonceIsNew`, by
counting).

`IntercomProofs` begins with `ImplementsCoordinator`: among device, network and
Home Assistant the coordinator takes only steps of `Coordinator`, with push and
without.  So the invariants of `CoordinatorProofs` hold of it there; the module is
instantiated, not repeated (its history, which these invariants do not mention, stands
still), and `CoordinatorConstants` of `Intercom` restates the
assumptions that this needs.  With those the types of the whole follow
(`TypeCorrect`): the timer is set to an interval whose range is known.

`VerdictsAreOfRings` holds with push and without: what was judged `answered` or
`missed` is a ring that was pressed, and was announced if the press was watched.
Pushes are lost, delayed and overtaken, so the argument looks at everything that
speaks of a ring: whatever is on its way, was sampled or was noticed is of a ring
that was pressed (`NewsInv`); and a watched ring that is heard, or has been judged,
was announced (`HeardInv`).

The rest of it is about the integration as it is shipped, `~PushWired`: with push,
`PushDuplicatesRing` refutes it.  The steps of `Intercom` are sorted into six kinds
by what they do to the doorbell (`Rests`, `Samples`, `Hears`, `Judges`, `Restarts`,
`Presses`; lemma `BellKinds`), and the invariants below are proved over the kinds.
`SeenInv`: whatever was announced or judged had been noticed.  `SampleInv`: the
sample under way is not older than the last ring noticed, and one that shows no ring
says truly that the ring before it is over.  `WatchInv`: a watched ring is announced
when noticed, and judged as soon as it is not heard any more.  They hold through
outages, garbled answers, retried set-ups and reloads.  Until the entry is reloaded (`NotReloaded`), moreover, one
that hears no ring has noticed none that goes on, and the next sample of a ring is of
a later one (`OverInv`), and every ring announced is judged or heard (`OnceInv`).
From these follow `RingsOnce`, `JudgesBeforeNext` and `ImplementsDoorbell`, for any
number of rings.  After a reload they are false: section 5 has the
counterexample (`coordinator.py:171`).

`IntercomTimingProofs` proves the timed properties, for any constants with

* `Latency < MinOnCall`: a conversation outlasts a poll interval and two reads (7
  seconds measured against 2), or its end would be sampled before its beginning was
  processed;
* for the verdict also `Threshold + Latency <= RingTimeout`: with the poll interval
  of 1 second and the threshold 2 seconds below the timeout (`const.py:55`), reads of
  at most half a second.  `SlowReads` shows what happens otherwise.

Its invariants are about a ring that was pressed in good health and stayed so
(`Well`).  `WellInv`: if the coordinator's state is not the device's, the device's
is no older than `Slack`, the time since the last sample was taken, at the earliest:
the length of a read and the time since it finished, or a read, an interval and the
age of the read under way.  `Slack` grows with each tick, and never beyond
`Latency`, because the timer never exceeds the poll interval while no failure is
being recovered from (`TimerInv`, `HealthyInterval`); and a sample that is not true
any more is older than the change (`SampleAge`).  So what differs for
longer than `Latency` has been processed, which gives `AnnouncesInTime`,
`NeverMissesARing` (the property that `MotionHidesRing` refutes with push) and
`JudgesInTime`.  `ClockInv` compares the two stopwatches: while a ring that runs out
goes on, the coordinator's is at most `Latency` behind the device's, so when the
device gives up it has passed the threshold (`UnansweredAreMissed`).

`ProbeProofs` proves, for any documents the device may answer, whatever the texts in
them mean, and for any number of failures, five properties of the run `Probe`:
`TypeCorrect`, `CameraIsRight`, `PhantomsNever`, `DoorsAreLocked`,
`HostsAreRecognised`.  Only the types are inductive: an entity is a function of what
was read, and the other properties speak of what was answered.  The invariant (`IInv`) ties the two:
what each answer was read as is exactly what its parser makes of it, the default if
there was none (`CapsAreRead`), and what was last made of the slot is
`describe_existing_host` of its document (`SlotIsRead`).  Over it stand lemmas about
the parsers, which say when an element names a range, a command, a flag or a text
(`FieldSaid`, `DoorsAreNamed`, `CommandsNamed`, ...).  Two theorems are about
operators alone.  `OwnHostIsKnown`: the entry `configure_host` writes is read back
with its address, port and path, unless it counts as blank or the path is too long.  `EventsAreRead`: given
what `_flatten` found in a pushed event, a call state is read only if something says
so, and if all that is said is one state, that one is read.  Assumed are
`NumeralAssumption` (`int()` yields integers), `ProbeAssumption`, and
`DocumentsInOrder`: the children of an element stand in some order, so that among
the channels that qualify for the camera there is a first.

Each of these invariants was checked by TLC before it was proved, on the constants of
`Requests`, `IntercomPolling` and `Probe`, those that allow it also with a reload,
`NewsInv` and `HeardInv` also with push (two rings without a reload, one with).

Only model-checked: of `Probe`, `PushIsTruthful` and `ReadsWhatIsThere`.  They are
about trees of any depth, which `NodeToValue` and `Flatten` descend by recursion, and
no installed prover does induction over those; what `parse_push_event` does after
flattening is `EventsAreRead`.  Liveness is out of the prover's reach:
`RelocksItself`, `RequestsEnd`, `LoadedOrAsked` and the three properties of
`IntercomLive`.

## 5. Disagreements

Four are runs (above) and quoted under `findings`.  Others met while modelling,
each visible in the model at the place given.  Several properties leave the case in
question out, on purpose, as is said here: they state what holds nevertheless.

* `CC/coordinator.py:128`: an answer that raises something other than `IsapiError`
  (it does not parse, or has the wrong shape) makes the entities unavailable at once;
  `CC/const.py:22` has "Consecutive failed reads absorbed before entities go
  unavailable".  When the next read then fails within the tolerance, they are
  available again, with the old data (`ReadUnparsable`; `AvailabilityMatchesReads`
  states both).
* `CC/__init__.py:59`: a ring under way during the first refresh is judged without
  having been announced, since the platforms listen later; `README.md:171` promises
  `ring` (`stage`; `VerdictsHaveRings` leaves it out).
* `CC/backoff.py:56`, `CC/coordinator.py:281`: after a very long outage (some
  seventeen hours) `2**excess` fits no float, and the first push switches to push
  mode and is lost (`PushEventOverflowing`).
* `CC/coordinator.py:289`: a ring whose end a push reports is never judged;
  `README.md:171` promises `answered` or `missed` (`PushEvent` leaves `sinceRing`;
  `JudgedBeforeNext` is checked without push).
* `CC/coordinator.py:194`: a ring rejected with the button, or ended by a reboot,
  is shorter than the timeout and so `answered`; `README.md:171-178` speaks of
  somebody answering (`CallSignal`; `UnansweredIsMissed` admits it).
* `CC/coordinator.py:289`: each push sets the refresh timer again, so pushes that
  keep coming put off the read the watchdog runs in (`Reschedule`; `StateConverges`
  assumes that they cease).
* `CC/coordinator.py:171`: when the first refresh of a reload fails within the
  tolerance, the made-up idle state is kept, and a ring under way that was already
  announced is announced again (`Setup`, `ReadFails`).
* `CC/const.py:27`: the backoff cap (60 s) is longer than a ring (31.2 s);
  `docs/protocol.md:168` sees no risk of missing one (`Watching` leaves these out).
* `CC/isapi/client.py:386`: the probe of the alert stream does not reset the
  challenge, and builds its first header from the nonce of the last request;
  `docs/protocol.md:39` says "Never reuse the `nonce`", `client.py:126` that "the
  challenge is never reused across requests" (`BeginProbe`; `RequestsUseNewNonces`
  is about requests).
* `CC/isapi/client.py:195` against `CC/isapi/digest.py:64`: four stale challenges
  in a row end in `AuthError` (`ExhaustAttempts`).
* `CC/isapi/client.py:187` against `docs/protocol.md:70`: a raw or JSON answer is
  not searched for an application error (`Unchecked`); in the probe a raw
  `ResponseStatus` makes `httpHosts` count as supported (`Learn`).
* `CC/isapi/client.py:311`: a request of the probe that fails once hides what it
  asks about until the next reload.  `:318`: the parsers are called outside
  `probe`, so that an answer that does not parse passes every handler and ends the
  set-up for good, where an unreachable device would be retried (`Escapes`,
  `AfterProbe`).  The same is true of `get_device_info` (`AfterInfo`).
* `CC/isapi/models.py:57`: an element that has both attributes and text keeps its
  text under `#text` only; the parsers that expect a text do not find it there
  (`WithAttributes` in `PushEvents`, `Field` in `Answers`).  `:208`: door capabilities without attributes are taken for
  door 1 (`DoorNumbers`).
* `CC/isapi/webhook.py:68`: a list element without children in the slot raises
  `AttributeError` in `configure_host` (`DescribeExistingHost`).
* `CC/isapi/webhook.py:143` against `:134`: `json.loads` of bytes that are not
  UTF-8 raises `UnicodeDecodeError` past "Never raises"; not in the model, whose
  payloads are parsed already.
* `CC/lock.py:73` against `:16`: the relock task of an earlier pulse cuts short the
  display of a later one (`Relock`).
* `CC/isapi/webhook.py:95`, `:104` against `docs/protocol.md:151` ("must warn rather
  than silently overwrite"): an entry whose GET failed, or that was written between
  GET and PUT, is overwritten (`ReadSlot`, `CarryOut`; `OverwritesOnlyUnseen` leaves
  out these two).
* `CC/isapi/webhook.py:48`, `:52`: address and path are put into the XML without
  escaping; the model's texts are atoms (`BuildHostConfig`).
* `CC/isapi/webhook.py:188`: if another part of an event has a key that the call state
  is looked for under, the first one counts (`PushIsTruthful` is about events in which
  only one state is told).
* `tools/capture_httphost.py:189` against `:6` ("RESTORES the device configuration
  at the end"): the entry of another owner that was saved is not written back but
  deleted with the capture's own (`Captures` in `HostSlot`).  `:191`: a DELETE whose
  answer does not parse ends the tool with neither the warning nor the rest of the
  clean-up (`AfterFailure`).  `:149` against `:181` ("Always restore"): a PUT that was
  carried out but reported failed is not undone and not warned of (`Configured`;
  `ConfiguredIsUndone` is about a PUT that was reported done).
* `CC/switch.py:50`, `:53`: the state shown is that of the command which completed
  last, not of the one carried out last, and is not set by a command whose answer was
  lost (`disturbed` in `DoorControl`; `SwitchAgrees` leaves both out).
* `CC/config_flow.py:109-119`: reauth stores what it merged before the `await`, and
  so loses an address another flow stored meanwhile; it does not compare the unique
  id either, and adopts whatever device now answers at the address
  (`ReauthValidated`; `StoresAccepted` asks for the device in the user step only).
* `CC/__init__.py:63`: the listener that reloads an entry is registered last; a
  login changed during a set-up that succeeds is not taken up (`UpdateEntry`).
* `CC/config_flow.py:154`: the option `poll_interval` is read by nothing but the
  form that offers it (`ChangeOptions` only reloads).

## 6. Plan

Done: the core (coordinator, doorbell, update loop), the client, the entities that
command the device, the slot, the life of an entry, probe and parsers; the proofs
of section 4, which state every safety property of the passing runs but the two of
`Probe` that need induction over trees.

What could follow: the three violations `MotionHidesRing`, `PushDuplicatesRing` and
`SlowReads` turned into theorems about a repaired coordinator, once the code has one
(an event that carries the device's ring number, or a debounce between push and
poll); and a model of the binary sensors, should they come to keep state.

## 7. Not modelled

Binary sensors (functions of the coordinator's data), snapshots (one request of
the client) and the URL of the stream, setting two-way audio (called by nothing),
the command line of the client, the capture tool's own HTTP server and poller (they
change nothing), hashing and header parsing of the digest (text;
`tests/test_digest.py` covers it), sessions, URLs and bodies, the removal of an
entry by the user, an unload that fails.
