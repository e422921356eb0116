------------------------------ MODULE MCProbe ------------------------------
(* Probe with the documents of tests/fixtures, reduced to the elements that  *)
(* are read, and odd ones: a refused or empty answer, nonsense, an error in  *)
(* HTTP 200, and the shapes the parsers take care of.                        *)
EXTENDS Probe, PushEvents

MCNumeral == ("0" :> 0) @@ ("1" :> 1) @@ ("2" :> 2) @@ ("3" :> 3)
               @@ ("101" :> 101) @@ ("102" :> 102)
MCLowercase == ("Doorbell" :> "doorbell") @@ ("RING" :> "ring")
                 @@ ("CallStatus" :> "callstatus") @@ ("VMD" :> "vmd") @@ ("onCall" :> "oncall")
MCSplit(text) == CASE text = "open,alwaysOpen,resume" -> {"open", "alwaysOpen", "resume"}
                   [] text = "open" -> {"open"}
                   [] OTHER -> {}

Status == Element("ResponseStatus", "", <<Leaf("statusString", "Invalid Content")>>)
Attr(key, value) == key :> value

Device(serial) ==
  Element("DeviceInfo", "", <<Leaf("model", "DS"), Leaf("serialNumber", serial),
                              Leaf("macAddress", "mac")>>)
Intercom(flag) ==
  Element("VideoIntercomCap", "", <<Leaf("isSupportRemoteOpenDoor", flag)>>)
Door(lo, hi, opt) ==
  Element("RemoteControlDoor", "", <<
    WithAttrs(Leaf("doorNo", ""), Attr("@min", lo) @@ Attr("@max", hi)),
    WithAttrs(Leaf("cmd", ""), Attr("@opt", opt))>>)
Io(count) == Element("IOCap", "", <<Leaf("IOInputPortNums", "1"),
                                    Leaf("IOOutputPortNums", count)>>)
Stream(id, enabled) ==
  Element("StreamingChannel", "", <<Leaf("id", id), Leaf("enabled", enabled),
    Element("Video", "", <<Leaf("enabled", "true")>>)>>)
Streams(channels) == Element("StreamingChannelList", "", channels)
Audio(channels) == Element("TwoWayAudioChannelList", "", channels)
AudioChannel(id, enabled) ==
  WithAttrs(Element("TwoWayAudioChannel", "", <<Leaf("id", id), Leaf("enabled", enabled)>>),
            Version)
CallStatus(status) == Dict(<<Item("CallStatus", status)>>)
State(text) == Dict(<<Item("status", Text(text))>>)
Times(ring) == Element("OperationTime", "", <<Leaf("maxRingTime", ring)>>)

OrdinaryDocument ==
  [deviceInfo |-> Device("serial"), callStatus |-> CallStatus(State("idle")),
   intercom |-> Intercom("true"), door |-> Door("1", "1", "open,alwaysOpen,resume"),
   io |-> Io("1"), streams |-> Streams(<<Stream("101", "true"), Stream("102", "true")>>),
   audio |-> Audio(<<AudioChannel("1", "false")>>), httpHosts |-> Status,
   operationTime |-> Times("3"), alertStream |-> Status]
MCOrdinary == [x \in DOMAIN OrdinaryDocument |->
                 IF x = "alertStream" THEN Failed ELSE Answered(OrdinaryDocument[x])]

OddDocuments ==
  [deviceInfo |-> {Device(""), Leaf("DeviceInfo", ""), Status},
   callStatus |-> {CallStatus(State("talking")), CallStatus(Text("")), List(<<>>), Dict(<<>>)},
   intercom   |-> {Intercom("false"), Leaf("VideoIntercomCap", ""), Status,
                   Element("VideoIntercomCap", "", <<Leaf("isSupportDeviceId", "true")>>)},
   door       |-> {Door("1", "3", "open"), Door("1", "x", ""), Status,
                   Leaf("RemoteControlDoor", ""),
                   Element("RemoteControlDoor", "", <<Leaf("doorNo", "2")>>),
                   Element("RemoteControlDoor", "", <<WithAttrs(Leaf("cmd", ""), Attr("@opt", "open"))>>)},
   io         |-> {Io("0"), Io("3"), Io("many"), Leaf("IOCap", ""), Status},
   streams    |-> {Streams(channels) : channels \in
                     {<<>>, <<Stream("101", "true")>>, <<Stream("101", "false")>>,
                      <<Stream("102", "true")>>,
                      <<Stream("101", "false"), Stream("102", "true")>>,
                      <<Stream("102", "true"), Stream("101", "true")>>}} \cup {Status},
   audio      |-> {Audio(<<>>), Audio(<<AudioChannel("2", "true"), AudioChannel("1", "true")>>),
                   Audio(<<Leaf("TwoWayAudioChannel", "1")>>), Status},
   httpHosts  |-> {},
   operationTime |-> {Times("soon"), Status},
   alertStream   |-> {Status}]
MCOdd == [x \in DOMAIN OddDocuments |->
            {Answered(d) : d \in OddDocuments[x]} \cup {Failed} \cup
            (IF x = "alertStream" THEN {} ELSE {Empty, Garbled})]

\* A leaf, alone or under a dict, a list or both; and two of them side by side.
LeafItems == {Item(key, value) : key \in {"status", "eventState", "eventType", "channel"},
                value \in {Text("ring"), Text("onCall"), Text("VMD"), Text("Doorbell"), Text("RING"), Other}}
Nested(item) == {item, Item("a", Dict(<<item>>)), Item("b", List(<<Dict(<<item>>), Other>>)),
                 Item("c", Dict(<<Item("d", Dict(<<item>>))>>))}
MCBodies ==
  {Dict(<<item>>) : item \in UNION {Nested(leaf) : leaf \in LeafItems}}
    \cup {Dict(<<first, second>>) : first \in UNION {Nested(leaf) : leaf \in {Item("status", Text("onCall")),
              Item("eventType", Text("Doorbell")), Item("status", Other)}}, second \in LeafItems}
    \cup {List(<<>>), XmlToDict(Element("Event", "", <<Leaf("status", "ring")>>)),
          XmlToDict(Leaf("status", "ring"))}

Hosts == {<<"10.0.0.5", "8123", "/api">>, <<"10.0.0.5", "8123", "">>, <<"10.0.0.6", "80", "/nvr">>,
          <<"0.0.0.0", "0", "">>, <<"10.0.0.5", "0", "">>, <<"", "80", "/api">>,
          <<"10.0.0.5", "8123", "/long">>}
MCTooLong == {"/long"}
Written == {BuildHostConfig(host) : host \in Hosts} \ {Raises}
MCSlots ==
  Written
    \cup {Element("HttpHostNotificationList", "", one.children \o two.children) :
            one, two \in Written}
    \cup {Status, Leaf("HttpHostNotificationList", ""),
          Element("HttpHostNotificationList", "", <<Leaf("HttpHostNotification", "")>>)}

------------------------------------------------------------------------------
(* Properties that need the recursive definitions of PushEvents.             *)

\* An event carries a call state only if its payload names it somewhere, and does
\* carry it if the payload names it, and nothing else, wherever it keeps a state:
\* at any depth, under any of the keys, beside anything.
PushIsTruthful ==
  latest.about = "event" =>
    LET states == Told(latest.document, StatusKeys)
        types  == {Lower(v) : v \in Told(latest.document, TypeKeys)}
    IN  /\ latest.result # "none" =>
             \/ Text(latest.result) \in states
             \/ latest.result = "ring" /\ types \cap {"doorbell", "ring"} # {}
        /\ \A state \in CallStates :
             states = {Text(state)} => latest.result = state

\* What the parsers read off an element is what data.get returns of the dict that
\* xml_to_dict makes of it: the same text, a dict with the same attributes, a
\* list of as many.
Agree(node, tag) ==
  LET seen  == Field(node, tag, Other)
      value == Get(NodeToValue(node).items, tag, Other)
  IN  IF seen.kind # "nested" THEN value = seen
      ELSE IF \E i \in Places(node, tag) : Places(node, tag) = {i}
        THEN LET element == Head(SetToSeq(DictAt(node, tag)))
             IN  /\ IsDict(value)
                 /\ \A key \in DOMAIN element.attrs :
                      Get(value.items, key, Other) = Text(element.attrs[key])
                 /\ \A i \in DOMAIN element.children :
                      Has(value.items, element.children[i].tag)
      ELSE /\ IsList(value) /\ Len(value.items) = Cardinality(Places(node, tag))
           /\ \A i \in DOMAIN value.items :
                IsText(value.items[i]) <=>
                  IsPlain(SelectSeq(node.children, LAMBDA child : child.tag = tag)[i])

\* For every element of every document that was read.
ReadsWhatIsThere ==
  \A x \in DOMAIN answers \ {"callStatus"} :
    answers[x].kind = "document" =>
      LET root == Document(x)
      IN  \A node \in {root} \cup ToSet(root.children) :
            HasChildren(node) =>
              \A tag \in {child.tag : child \in ToSet(node.children)} \cup {"none"} :
                Agree(node, tag)
=============================================================================
