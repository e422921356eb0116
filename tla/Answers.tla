------------------------------ MODULE Answers ------------------------------
(***************************************************************************)
(* What the integration reads out of the documents of the device: the pure *)
(* parsers of isapi/models.py and isapi/webhook.py, as operators.          *)
(*                                                                         *)
(* An XML element is [tag, attrs, text, children]: tags are local names,   *)
(* texts are stripped, attrs is a function from keys to texts, children a  *)
(* sequence.  xml_to_dict turns the tree into dicts and lists before it is *)
(* read; here data.get(key) is read off the tree itself (Field, Places).   *)
(* PushEvents has the conversion, and MCProbe compares the two.            *)
(***************************************************************************)
EXTENDS Integers, SequencesExt

CONSTANTS
  Numeral,     \* Numeral[text], of the texts that int() accepts
  Lowercase,   \* Lowercase[text], of the texts that lower() changes
  TooLong,     \* paths of more than HTTP_HOST_URL_MAX_LEN characters
  Split(_)     \* the parts of a comma-separated text that are not empty

ASSUME NumeralAssumption == \A text \in DOMAIN Numeral : Numeral[text] \in Int

\* Python values: a text, a dict, a list, or something else (a number, a
\* boolean, null); a dict keeps the order of its keys.
NoText      == ""
Text(s)     == [kind |-> "text", text |-> s]
Dict(items) == [kind |-> "dict", items |-> items]
List(items) == [kind |-> "list", items |-> items]
Other       == [kind |-> "other"]

IsText(v) == v.kind = "text"
IsDict(v) == v.kind = "dict"
IsList(v) == v.kind = "list"

Item(key, value) == [key |-> key, value |-> value]
Has(items, key)  == \E i \in DOMAIN items : items[i].key = key
\* items.get(key, default): of several items, the first.
Get(items, key, default) ==
  LET i == SelectInSeq(items, LAMBDA item : item.key = key)
  IN  IF i = 0 THEN default ELSE items[i].value

IsNumber(v) == IsText(v) /\ v.text \in DOMAIN Numeral
NumberOr(v, default) == IF IsNumber(v) THEN Numeral[v.text] ELSE default

------------------------------------------------------------------------------
(* XML.                                                                    *)

Element(tag, text, children) ==
  [tag |-> tag, attrs |-> [key \in {} |-> NoText], text |-> text, children |-> children]
Leaf(tag, text) == Element(tag, text, <<>>)
WithAttrs(element, attrs) == [element EXCEPT !.attrs = attrs]

HasChildren(node) == DOMAIN node.children # {}
\* What becomes a text; anything else becomes a dict.
IsPlain(node) == ~HasChildren(node) /\ DOMAIN node.attrs = {}

\* Where the children with that tag are.
Places(node, tag) == {i \in DOMAIN node.children : node.children[i].tag = tag}

\* data.get(tag, default) of the dict the node becomes: the text of a plain
\* element, a dict for another, a list for several.
Field(node, tag, default) ==
  LET places == Places(node, tag)
      only   == node.children[CHOOSE i \in places : TRUE]
  IN  IF places = {} THEN default
      ELSE IF (\E i \in places : places = {i}) /\ IsPlain(only) THEN Text(only.text)
      ELSE [kind |-> "nested", elements |-> [i \in places |-> node.children[i]]]

\* The element under the tag, if there is one and it becomes a dict.
DictAt(node, tag) ==
  LET places == Places(node, tag)
  IN  {node.children[i] : i \in {j \in places : places = {j} /\ ~IsPlain(node.children[j])}}

\* xml_to_dict(raw).get(key, {}): a document of another kind, an error for one,
\* reads as one without fields.  So does an element that became a text, where the
\* code does not ask for that (IsTextOf).  Attributes of the root are dropped.
Section(root, key) == IF root.tag = key THEN root ELSE Leaf(key, NoText)
IsTextOf(root, key) == root.tag = key /\ ~HasChildren(root)

\* The channels of a list: one alone comes as a dict, which is wrapped.
Channels_Unwrapped(node, tag) ==
  IF \E i \in Places(node, tag) : Places(node, tag) = {i} THEN {} ELSE Places(node, tag)
Channels(node, tag) == Places(node, tag)

------------------------------------------------------------------------------
(* models.py.                                                              *)

Raises == [kind |-> "raises"]

\* DeviceInfo.from_xml and unique_id: the serial number, or else the MAC.
UniqueId(root) ==
  LET data   == Section(root, "DeviceInfo")
      serial == Field(data, "serialNumber", Text(NoText))
  IN  IF Places(data, "model") = {} THEN Raises
      ELSE IF serial = Text(NoText) THEN Field(data, "macAddress", Text(NoText)) ELSE serial

CallStates == {"idle", "ring", "onCall"}

\* JSON.  AttributeError where a dict is missing; an unknown state is idle.
ParseCallStatus(payload) ==
  LET status == Get(payload.items, "CallStatus", Dict(<<>>))
      state  == Get(status.items, "status", Other)
  IN  IF ~IsDict(payload) \/ ~IsDict(status) THEN Raises
      ELSE IF IsText(state) /\ state.text \in CallStates THEN state
      ELSE Text("idle")

OperationTime(root) ==
  LET Num(key) == NumberOr(Field(Section(root, "OperationTime"), key, Text("0")), 0)
  IN  <<Num("maxRingTime"), Num("talkTime"), Num("messageTime")>>

\* int(door_no.get(key, 1)), or nothing for a ValueError.
Limit(element, key) ==
  IF key \notin DOMAIN element.attrs THEN {1}
  ELSE {Numeral[text] : text \in {element.attrs[key]} \cap DOMAIN Numeral}

\* range(lo, hi + 1), or door 1.
DoorsBetween(los, his) ==
  IF los = {} \/ his = {} THEN {1}
  ELSE (CHOOSE lo \in los : TRUE) .. (CHOOSE hi \in his : TRUE)

DoorNumbers(data) ==
  IF Places(data, "doorNo") = {} THEN {1}
  ELSE UNION {DoorsBetween(Limit(doorNo, "@min"), Limit(doorNo, "@max")) :
              doorNo \in DictAt(data, "doorNo")}

DoorCommands(data) ==
  UNION {Split(cmd.attrs["@opt"]) :
         cmd \in {e \in DictAt(data, "cmd") : "@opt" \in DOMAIN e.attrs}}

ParseDoorCapabilities(root) ==
  LET data == Section(root, "RemoteControlDoor")
  IN  IF IsTextOf(root, "RemoteControlDoor") THEN [doors |-> {}, commands |-> {}]
      ELSE [doors |-> DoorNumbers(data), commands |-> DoorCommands(data)]

OutputPorts_Two(root) ==
  NumberOr(Field(Section(root, "IOCap"), "IOOutputPortNums", Text("2")), 2)
OutputPorts(root) ==
  NumberOr(Field(Section(root, "IOCap"), "IOOutputPortNums", Other), 0)

\* The ids of the enabled channels, each at the place of its channel.
ParseStreamChannels(root) ==
  LET data  == Section(root, "StreamingChannelList")
      Id(i) == Field(data.children[i], "id", Other)
      Enabled(i) == Field(data.children[i], "enabled", Other) = Text("true")
  IN  [i \in {j \in Channels(data, "StreamingChannel") : Enabled(j) /\ IsNumber(Id(j))}
         |-> Numeral[Id(i).text]]

NoAudio == [supported |-> FALSE, channel |-> 1, enabled |-> FALSE]

ParseTwoWayAudio(root) ==
  LET data     == Section(root, "TwoWayAudioChannelList")
      channels == Channels(data, "TwoWayAudioChannel")
      first    == data.children[Min(channels)]
  IN  IF channels = {} THEN NoAudio
      ELSE IF IsPlain(first) THEN NoAudio
      ELSE [supported |-> TRUE,
            channel   |-> NumberOr(Field(first, "id", Other), 1),
            enabled   |-> Field(first, "enabled", Other) = Text("true")]

\* The flag key of VideoIntercomCap as parse_intercom_capabilities reads it, or
\* nothing.
Flag(root, key) ==
  LET flag == Field(Section(root, "VideoIntercomCap"), key, Other)
  IN  IF IsText(flag) THEN {flag.text = "true"} ELSE {}

------------------------------------------------------------------------------
(* webhook.py: the call state an event tells of.                           *)

\* str(v).lower(): of what is no text, never one of _EVENT_TO_STATUS.
Lower(v) ==
  IF ~IsText(v) THEN "other"
  ELSE IF v.text \in DOMAIN Lowercase THEN Lowercase[v.text]
  ELSE v.text

\* _EVENT_TO_STATUS.
RingEvents == {"doorbell", "ring"}

StatusKeys == <<"status", "callStatus", "CallStatus", "eventState">>
TypeKeys   == <<"eventType", "EventType", "eventDescription">>

\* What _flatten found is a call state under the first key that has one, or else
\* says that it is about the bell.
StatusOf(flat) ==
  LET IsState(key) == LET v == Get(flat, key, Other)
                      IN  IsText(v) /\ v.text \in CallStates
      byKey  == SelectInSeq(StatusKeys, IsState)
      byType == SelectInSeq(TypeKeys, LAMBDA key : Has(flat, key))
  IN  IF byKey # 0 THEN Get(flat, StatusKeys[byKey], Other).text
      ELSE IF byType # 0 /\ Lower(Get(flat, TypeKeys[byType], Other)) \in RingEvents
        THEN "ring"
      ELSE "none"

------------------------------------------------------------------------------
(* webhook.py: the httpHosts slot.                                         *)

Version == [key \in {"@version"} |-> "2.0"]

\* A host is <<ip, port, path>>; ValueError if the path is too long.  The texts
\* go into the document as they are: this is what it is read as if they hold no
\* markup.
BuildHostConfig(host) ==
  IF host[3] \in TooLong THEN Raises
  ELSE Element("HttpHostNotificationList", NoText, <<
    WithAttrs(Element("HttpHostNotification", NoText, <<
      Leaf("id", "1"), Leaf("url", host[3]), Leaf("protocolType", "HTTP"),
      Leaf("ipAddress", host[1]), Leaf("portNo", host[2])>>), Version)>>)

\* The host in the slot, if any; AttributeError if the list became a text.
Free         == [kind |-> "free"]
TakenBy(host) == [kind |-> "taken", host |-> host]
IsBlank_IpOnly(ip, port) == ip \in {Text(NoText), Text("0.0.0.0")}
IsBlank(ip, port) ==
  ip \in {Text(NoText), Text("0.0.0.0")} \/ port \in {Text(NoText), Text("0")}

DescribeExistingHost(root) ==
  LET data   == Section(root, "HttpHostNotificationList")
      places == Places(data, "HttpHostNotification")
      entry  == data.children[Min(places)]
      Of(tag) == Field(entry, tag, Text(NoText))
  IN  IF IsTextOf(root, "HttpHostNotificationList") THEN Raises
      ELSE IF places = {} THEN Free
      ELSE IF IsPlain(entry) \/ IsBlank(Of("ipAddress"), Of("portNo")) THEN Free
      ELSE TakenBy(<<Of("ipAddress"), Of("portNo"), Of("url")>>)
=============================================================================
