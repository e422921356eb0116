------------------------------- MODULE Probe -------------------------------
(***************************************************************************)
(* What async_setup_entry learns of a device, and the entities that come   *)
(* of it: get_device_info and the requests of probe_capabilities, one      *)
(* after the other, each answered by some document or failing; then the    *)
(* documents that reach isapi/webhook.py, pushed events and the slot.      *)
(*                                                                         *)
(* Failures are told apart only by whether probe() absorbs them: the texts *)
(* of notes are left out.  How requests fail is in IsapiClient, what the   *)
(* outcome does to the entry in Setup.                                     *)
(***************************************************************************)
EXTENDS Answers

CONSTANTS
  Ordinary,      \* Ordinary[x]: the answer of the known device
  Odd,           \* Odd[x]: other answers there may be
  Bodies,        \* payloads pushed to the webhook
  ReadEvent(_),  \* parse_push_event
  Slots,         \* documents the httpHosts slot may hold
  MaxOdd         \* bound: odd answers and later documents

\* In the order in which they are asked.
Endpoints == <<"deviceInfo", "callStatus", "intercom", "door", "io", "streams",
               "audio", "httpHosts", "operationTime", "alertStream">>
Asked == {Endpoints[i] : i \in DOMAIN Endpoints}

\* An answer of a request: it raises an IsapiError, it has no body, a body that
\* does not parse, or a document.
Failed  == [kind |-> "failed"]
Empty   == [kind |-> "empty"]
Garbled == [kind |-> "garbled"]
Answered(document) == [kind |-> "document", document |-> document]

AnswersOf(x) == {Ordinary[x]} \cup Odd[x]

ASSUME ProbeAssumption == MaxOdd \in Nat
\* The children of an element stand in some order.
InOrder(document) == DOMAIN document.children \subseteq Nat
ASSUME DocumentsInOrder ==
  \A answer \in AnswersOf("streams") :
    answer.kind = "document" => InOrder(answer.document)

VARIABLES
  step,      \* the endpoint asked next
  answers,   \* answers[x]: what endpoint x answered, once asked
  caps,      \* caps[x]: what the answer of x was read as; Capabilities at the end
  raised,    \* what escapes from the set-up, or "none"
  latest,    \* the last document of webhook.py, and what was made of it
  odd        \* odd documents so far

vars == <<step, answers, caps, raised, latest, odd>>

\* The defaults, of an endpoint without an answer.
NoCaps ==
  [deviceInfo |-> Text(NoText), callStatus |-> FALSE, intercom |-> {},
   door |-> [doors |-> {}, commands |-> {}], io |-> 0, streams |-> <<>>,
   audio |-> NoAudio, httpHosts |-> FALSE, operationTime |-> <<>>,
   alertStream |-> FALSE]

NoDocument == [about |-> "nothing"]

Init ==
  /\ step    = 1
  /\ answers = <<>>
  /\ caps    = NoCaps
  /\ raised  = "none"
  /\ latest  = NoDocument
  /\ odd     = 0

------------------------------------------------------------------------------
(* The probe.                                                              *)

\* The exception the answer of x ends the set-up with.  probe() absorbs those
\* of the requests, and so the ParseError of a callStatus; the parsers of the
\* other answers are called outside of it.  httpHosts and alertStream are not
\* parsed at all.
Escapes_Unabsorbed(x, answer) ==
  IF answer = Failed THEN "IsapiError" ELSE "none"
Escapes(x, answer) ==
  CASE x = "deviceInfo" ->
         IF answer = Failed THEN "IsapiError"
         ELSE IF answer \in {Empty, Garbled} THEN "ParseError"
         ELSE IF UniqueId(answer.document) = Raises THEN "ParseError" ELSE "none"
    [] x = "callStatus" ->
         IF /\ answer.kind = "document"
            /\ ParseCallStatus(answer.document) = Raises
           THEN "AttributeError" ELSE "none"
    [] x \in {"httpHosts", "alertStream"} -> "none"
    [] OTHER -> IF answer = Garbled THEN "ParseError" ELSE "none"

\* What the document of x is read as.
Parse(x, document) ==
  CASE x = "deviceInfo" -> UniqueId(document)
    [] x = "intercom"   -> Flag(document, "isSupportRemoteOpenDoor")
    [] x = "door"       -> ParseDoorCapabilities(document)
    [] x = "io"         -> OutputPorts(document)
    [] x = "streams"    -> ParseStreamChannels(document)
    [] x = "audio"      -> ParseTwoWayAudio(document)
    [] x = "operationTime" -> OperationTime(document)
    [] x = "alertStream"   -> TRUE

\* An empty body counts as no answer, but for callStatus, which is then idle,
\* and for httpHosts, of which any body will do.
Learn(x, answer) ==
  CASE x = "callStatus" -> answer.kind \in {"document", "empty"}
    [] x = "httpHosts"  -> answer # Failed
    [] OTHER -> IF answer.kind = "document" THEN Parse(x, answer.document)
                                            ELSE NoCaps[x]

Ask(x, answer) ==
  /\ step <= Len(Endpoints) /\ x = Endpoints[step]
  /\ raised = "none"
  /\ odd' = IF answer = Ordinary[x] THEN odd ELSE odd + 1
  /\ odd' <= MaxOdd
  /\ step' = step + 1
  /\ answers' = [y \in DOMAIN answers \cup {x} |-> IF y = x THEN answer ELSE answers[y]]
  /\ raised' = Escapes(x, answer)
  /\ caps' = IF raised' = "none" THEN [caps EXCEPT ![x] = Learn(x, answer)] ELSE caps
  /\ UNCHANGED latest

------------------------------------------------------------------------------
(* The entities, and the push channel, made of it.                         *)

Probed == step > Len(Endpoints) /\ raised = "none"

\* supports_remote_open_door: the flag, where there is one.
RemoteOpen_FlagOnly(flag, commands) == flag = {TRUE}
RemoteOpen(flag, commands) == flag = {TRUE} \/ (flag = {} /\ commands # {})

Locks  == IF RemoteOpen(caps.intercom, caps.door.commands) THEN caps.door.doors ELSE {}
Relays == caps.io
AlwaysOpen == "alwaysOpen" \in caps.door.commands

MainStream == 101
Cameras(streams) ==
  IF DOMAIN streams = {} THEN {}
  ELSE {IF \E i \in DOMAIN streams : streams[i] = MainStream
          THEN MainStream ELSE streams[Min(DOMAIN streams)]}

------------------------------------------------------------------------------
(* Later documents.                                                        *)

Receive(what, document, result) ==
  /\ Probed /\ odd < MaxOdd /\ odd' = odd + 1
  /\ latest' = [about |-> what, document |-> document, result |-> result]
  /\ UNCHANGED <<step, answers, caps, raised>>

Hear(body)     == Receive("event", body, ReadEvent(body))
ReadSlot(slot) == Receive("slot", slot, DescribeExistingHost(slot))

Next ==
  \/ \E x \in Asked : \E answer \in AnswersOf(x) : Ask(x, answer)
  \/ \E body \in Bodies : Hear(body)
  \/ \E slot \in Slots : ReadSlot(slot)

Spec == Init /\ [][Next]_vars

------------------------------------------------------------------------------
(* Reference definitions, on the documents themselves.                     *)

Document(x) == answers[x].document
HasDocument(x, tag) ==
  answers[x].kind = "document" /\ Document(x).tag = tag

\* The only child with that tag is child i.
Only(node, tag, i) ==
  \A j \in DOMAIN node.children : node.children[j].tag = tag <=> j = i
SaysOf(node, tag, text) ==
  \E i \in DOMAIN node.children :
    Only(node, tag, i) /\ IsPlain(node.children[i]) /\ node.children[i].text = text
SaysNothingOf(node, tag) == \A i \in DOMAIN node.children : node.children[i].tag # tag

\* The element under that tag, if there is just one with children or attributes.
PartsOf(node, tag) ==
  {node.children[i] :
     i \in {j \in DOMAIN node.children : Only(node, tag, j) /\ ~IsPlain(node.children[j])}}

\* An attribute that is a number; 1 where it is left out.
States(element, key, n) ==
  IF key \in DOMAIN element.attrs
    THEN element.attrs[key] \in DOMAIN Numeral /\ Numeral[element.attrs[key]] = n
    ELSE n = 1

\* The numbers an attribute may state.
Numbers == {1} \cup {Numeral[text] : text \in DOMAIN Numeral}

\* The list of streams has an enabled channel of that number.
IsEnabled(channel, n) ==
  /\ channel.tag = "StreamingChannel" /\ SaysOf(channel, "enabled", "true")
  /\ \E id \in DOMAIN Numeral : Numeral[id] = n /\ SaysOf(channel, "id", id)
Enables(n) ==
  /\ HasDocument("streams", "StreamingChannelList")
  /\ \E i \in DOMAIN Document("streams").children :
       IsEnabled(Document("streams").children[i], n)

\* The door capabilities name the doors lo .. hi.
NamesDoors(lo, hi) ==
  /\ HasDocument("door", "RemoteControlDoor")
  /\ \E doorNo \in PartsOf(Document("door"), "doorNo") :
       States(doorNo, "@min", lo) /\ States(doorNo, "@max", hi)

\* The door capabilities name the command.
NamesCommand(command) ==
  /\ HasDocument("door", "RemoteControlDoor")
  /\ \E cmd \in PartsOf(Document("door"), "cmd") :
       "@opt" \in DOMAIN cmd.attrs /\ command \in Split(cmd.attrs["@opt"])
NamesSomeCommand ==
  /\ HasDocument("door", "RemoteControlDoor")
  /\ \E cmd \in PartsOf(Document("door"), "cmd") :
       "@opt" \in DOMAIN cmd.attrs /\ Split(cmd.attrs["@opt"]) # {}

\* The intercom capabilities say whether the door can be opened from afar.
Affirms == /\ HasDocument("intercom", "VideoIntercomCap")
           /\ SaysOf(Document("intercom"), "isSupportRemoteOpenDoor", "true")
Denies ==
  /\ HasDocument("intercom", "VideoIntercomCap")
  /\ \E i \in DOMAIN Document("intercom").children :
       LET flag == Document("intercom").children[i]
       IN  /\ Only(Document("intercom"), "isSupportRemoteOpenDoor", i)
           /\ IsPlain(flag) /\ flag.text # "true"

\* Where the hosts of a slot are, and what one says.
HostsIn(root) ==
  {i \in DOMAIN root.children : /\ root.tag = "HttpHostNotificationList"
                                /\ root.children[i].tag = "HttpHostNotification"}
SaysBlank(node, tag, text) ==
  SaysNothingOf(node, tag) \/ SaysOf(node, tag, NoText) \/ SaysOf(node, tag, text)
Tells(node, tag, value) ==
  /\ SaysNothingOf(node, tag) => value = Text(NoText)
  /\ \A i \in DOMAIN node.children :
       Only(node, tag, i) /\ IsPlain(node.children[i]) => value = Text(node.children[i].text)

------------------------------------------------------------------------------
(* Properties.                                                             *)

\* The types of the variables.  An IsapiError escapes from get_device_info only:
\* whatever request of the probe fails, the set-up goes on.
TypeOK ==
  /\ step \in 1 .. Len(Endpoints) + 1
  /\ DOMAIN answers = {Endpoints[i] : i \in 1 .. step - 1}
  /\ \A x \in DOMAIN answers : answers[x] \in AnswersOf(x)
  /\ DOMAIN caps = Asked
  /\ caps.intercom \subseteq BOOLEAN
  /\ caps.door.doors \subseteq Int
  /\ caps.io \in Int
  /\ \A i \in DOMAIN caps.streams : caps.streams[i] \in Int
  /\ caps.audio \in [supported : BOOLEAN, channel : Int, enabled : BOOLEAN]
  /\ caps.operationTime \in {<<>>} \cup (Int \X Int \X Int)
  /\ \A x \in {"callStatus", "httpHosts", "alertStream"} : caps[x] \in BOOLEAN
  /\ raised \in {"none", "ParseError", "AttributeError"}
                  \cup (IF step = 2 THEN {"IsapiError"} ELSE {})
  /\ latest.about \in {"nothing", "event", "slot"}
  /\ odd \in 0 .. MaxOdd

\* The camera shows an enabled channel, the main one if that is enabled, and is
\* there if and only if some channel is enabled, be it the only one of its list.
CameraShowsEnabled ==
  Probed =>
    LET Ids == {n \in Numbers : Enables(n)}
    IN  /\ Cameras(caps.streams) \subseteq Ids
        /\ (Cameras(caps.streams) = {}) <=> (Ids = {})
        /\ MainStream \in Ids => Cameras(caps.streams) = {MainStream}

\* "What avoids a phantom switch" (TestIoCapabilities): no relay the device does
\* not count, no lock of a door it does not name, save door 1 of a device that names
\* none, and no switch for a command it does not name.
NoPhantoms ==
  Probed =>
    /\ Relays > 0 => /\ HasDocument("io", "IOCap")
                     /\ \E count \in DOMAIN Numeral :
                          /\ Numeral[count] = Relays
                          /\ SaysOf(Document("io"), "IOOutputPortNums", count)
    /\ \A door \in Locks :
         \/ \E lo, hi \in Numbers : NamesDoors(lo, hi) /\ door \in lo .. hi
         \/ door = 1 /\ ~(\E lo, hi \in Numbers : NamesDoors(lo, hi))
    /\ AlwaysOpen => NamesCommand("alwaysOpen")

\* The doors that the device names have their locks, if it takes commands for them or
\* says that it opens them from afar, whatever becomes of the other requests;
\* and none has one if the device says that it does not open them.
DoorsHaveLocks ==
  Probed =>
    /\ Denies => Locks = {}
    /\ Affirms \/ (NamesSomeCommand /\ ~Denies) =>
         \A lo, hi \in Numbers : NamesDoors(lo, hi) => Locks = lo .. hi

\* configure_host takes the entry of anybody for just that, and only a slot without
\* address or port for free.  Only a list without any element makes it raise.
HostIsRecognised ==
  latest.about = "slot" =>
    LET root  == latest.document
        hosts == HostsIn(root)
        first == root.children[Min(hosts)]
    IN  IF latest.result = Raises
          THEN root.tag = "HttpHostNotificationList" /\ ~HasChildren(root)
        ELSE IF \/ hosts = {}
                \/ SaysBlank(first, "ipAddress", "0.0.0.0") \/ SaysBlank(first, "portNo", "0")
          THEN latest.result = Free
        ELSE /\ latest.result.kind = "taken"
             /\ Tells(first, "ipAddress", latest.result.host[1])
             /\ Tells(first, "portNo", latest.result.host[2])
             /\ Tells(first, "url", latest.result.host[3])
=============================================================================
