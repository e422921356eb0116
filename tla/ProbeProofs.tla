---------------------------- MODULE ProbeProofs ----------------------------
(***************************************************************************)
(* Theorems about Probe, for any documents and any texts: its types, and   *)
(* that camera, locks, relays, switches and the slot are what the          *)
(* documents of the device say.                                            *)
(***************************************************************************)
EXTENDS Probe, WellFoundedInduction, TLAPS

------------------------------------------------------------------------------
(* Lemmas about the operators.                                             *)

\* No endpoint is asked twice.
LEMMA EndpointsDiffer ==
  /\ Len(Endpoints) = 10 /\ DOMAIN Endpoints = 1 .. 10
  /\ \A i, j \in 1 .. 10 : Endpoints[i] = Endpoints[j] => i = j
<1>1. Len(Endpoints) = 10 /\ DOMAIN Endpoints = 1 .. 10
  BY DEF Endpoints
<1>2. ASSUME NEW i \in 1 .. 10, NEW j \in 1 .. 10, Endpoints[i] = Endpoints[j]
      PROVE  i = j
  BY <1>2 DEF Endpoints
<1> QED BY <1>1, <1>2

LEMMA AskedAre ==
  Asked = {"deviceInfo", "callStatus", "intercom", "door", "io", "streams",
           "audio", "httpHosts", "operationTime", "alertStream"}
  BY EndpointsDiffer DEF Asked, Endpoints

\* Places in a document have a first one.
LEMMA MinIsLeast ==
  ASSUME NEW S \in SUBSET Nat, S # {}
  PROVE  Min(S) \in S /\ \A j \in S : Min(S) <= j
<1>1. PICK n \in S : \A m \in S : ~ (<<m, n>> \in OpToRel(<, Nat))
  BY NatLessThanWellFounded, WFMin, Zenon
<1>2. \A m \in S : ~ (m < n)
  BY <1>1, Zenon DEF OpToRel
<1>3. \A m \in S : n <= m
  BY <1>2
<1> QED BY <1>3 DEF Min

\* Whatever a text is, int() or its default give a number.
LEMMA NumberOrIsInt ==
  ASSUME NEW v, NEW default \in Int
  PROVE  NumberOr(v, default) \in Int
  BY NumeralAssumption DEF NumberOr, IsNumber

LEMMA DoorsAreInts ==
  ASSUME NEW document
  PROVE  ParseDoorCapabilities(document).doors \subseteq Int
<1>1. ASSUME NEW element, NEW key PROVE Limit(element, key) \subseteq Int
  BY NumeralAssumption DEF Limit
<1>2. ASSUME NEW los, NEW his, los \subseteq Int, his \subseteq Int
      PROVE  DoorsBetween(los, his) \subseteq Int
  BY <1>2 DEF DoorsBetween
<1>3. ASSUME NEW data PROVE DoorNumbers(data) \subseteq Int
  <2>1. ASSUME NEW doorNo
        PROVE  DoorsBetween(Limit(doorNo, "@min"), Limit(doorNo, "@max")) \subseteq Int
    BY <1>1, <1>2
  <2> QED BY <2>1 DEF DoorNumbers
<1> QED BY <1>3 DEF ParseDoorCapabilities

LEMMA StreamsAreInts ==
  ASSUME NEW document, NEW i \in DOMAIN ParseStreamChannels(document)
  PROVE  ParseStreamChannels(document)[i] \in Int
  BY NumeralAssumption DEF ParseStreamChannels, IsNumber

LEMMA AudioIsTyped ==
  ASSUME NEW document
  PROVE  ParseTwoWayAudio(document) \in [supported : BOOLEAN, channel : Int, enabled : BOOLEAN]
  BY NumberOrIsInt DEF ParseTwoWayAudio, NoAudio

LEMMA TimesAreInts ==
  ASSUME NEW document
  PROVE  OperationTime(document) \in Int \X Int \X Int
  BY NumberOrIsInt DEF OperationTime

LEMMA OutputsAreInts ==
  ASSUME NEW document
  PROVE  OutputPorts(document) \in Int
  BY NumberOrIsInt DEF OutputPorts

LEMMA FlagIsBoolean ==
  ASSUME NEW document, NEW key
  PROVE  Flag(document, key) \subseteq BOOLEAN
  BY DEF Flag

------------------------------------------------------------------------------
(* Types.                                                                  *)

\* What is read of an answer has the type of its part of caps.
LEMMA LearnedTypes ==
  ASSUME NEW answer
  PROVE  /\ Learn("intercom", answer) \subseteq BOOLEAN
         /\ Learn("door", answer).doors \subseteq Int
         /\ Learn("io", answer) \in Int
         /\ \A i \in DOMAIN Learn("streams", answer) : Learn("streams", answer)[i] \in Int
         /\ Learn("audio", answer) \in [supported : BOOLEAN, channel : Int, enabled : BOOLEAN]
         /\ Learn("operationTime", answer) \in {<<>>} \cup (Int \X Int \X Int)
         /\ \A x \in {"callStatus", "httpHosts", "alertStream"} : Learn(x, answer) \in BOOLEAN
<1>1. Learn("intercom", answer) \subseteq BOOLEAN
  BY FlagIsBoolean DEF Learn, Parse, NoCaps
<1>2. Learn("door", answer).doors \subseteq Int
  BY DoorsAreInts DEF Learn, Parse, NoCaps
<1>3. Learn("io", answer) \in Int
  BY OutputsAreInts DEF Learn, Parse, NoCaps
<1>4. \A i \in DOMAIN Learn("streams", answer) : Learn("streams", answer)[i] \in Int
  <2>1. CASE answer.kind = "document"
    BY <2>1, StreamsAreInts DEF Learn, Parse
  <2>2. CASE answer.kind # "document"
    BY <2>2 DEF Learn, NoCaps
  <2> QED BY <2>1, <2>2
<1>5. Learn("audio", answer) \in [supported : BOOLEAN, channel : Int, enabled : BOOLEAN]
  BY AudioIsTyped DEF Learn, Parse, NoCaps, NoAudio
<1>6. Learn("operationTime", answer) \in {<<>>} \cup (Int \X Int \X Int)
  BY TimesAreInts DEF Learn, Parse, NoCaps
<1>7. \A x \in {"callStatus", "httpHosts", "alertStream"} : Learn(x, answer) \in BOOLEAN
  <2>1. Learn("callStatus", answer) \in BOOLEAN
    <3>1. Learn("callStatus", answer) = (answer.kind \in {"document", "empty"})
      BY Zenon DEF Learn
    <3>2. (answer.kind \in {"document", "empty"}) \in BOOLEAN
      OBVIOUS
    <3> QED BY <3>1, <3>2, Zenon
  <2>2. Learn("httpHosts", answer) \in BOOLEAN
    BY Zenon DEF Learn
  <2>3. Learn("alertStream", answer) \in BOOLEAN
    BY Zenon DEF Learn, Parse, NoCaps
  <2> QED BY <2>1, <2>2, <2>3, Zenon
<1> QED BY <1>1, <1>2, <1>3, <1>4, <1>5, <1>6, <1>7

\* The endpoint asked at a step has not been asked before.
LEMMA AskedIsNew ==
  ASSUME TypeOK, NEW x, NEW answer, Ask(x, answer)
  PROVE  /\ step \in 1 .. 10 /\ x \in Asked /\ x \notin DOMAIN answers
         /\ DOMAIN answers' = DOMAIN answers \cup {x}
         /\ DOMAIN answers' = {Endpoints[i] : i \in 1 .. step' - 1}
         /\ answers'[x] = answer
         /\ \A y \in DOMAIN answers : answers'[y] = answers[y]
<1>1. step \in 1 .. 10 /\ step' = step + 1 /\ x = Endpoints[step]
  BY EndpointsDiffer DEF TypeOK, Ask
<1>2. x \in Asked /\ x \notin DOMAIN answers
  <2>1. DOMAIN answers = {Endpoints[i] : i \in 1 .. step - 1}
    BY DEF TypeOK
  <2>2. \A i \in 1 .. step - 1 : i \in 1 .. 10 /\ i # step
    BY <1>1
  <2>3. \A i \in 1 .. step - 1 : Endpoints[i] # Endpoints[step]
    BY <1>1, <2>2, EndpointsDiffer
  <2>4. x \in Asked
    BY <1>1, EndpointsDiffer DEF Asked
  <2> QED BY <1>1, <2>1, <2>3, <2>4
<1>3. answers' = [y \in DOMAIN answers \cup {x} |-> IF y = x THEN answer ELSE answers[y]]
  BY DEF Ask
<1>4. DOMAIN answers' = DOMAIN answers \cup {x}
  BY <1>3
<1>5. answers'[x] = answer /\ \A y \in DOMAIN answers : answers'[y] = answers[y]
  BY <1>2, <1>3
<1>6. 1 .. step' - 1 = (1 .. step - 1) \cup {step}
  BY <1>1
<1>7. DOMAIN answers' = {Endpoints[i] : i \in 1 .. step' - 1}
  BY <1>1, <1>4, <1>6 DEF TypeOK
<1> QED BY <1>1, <1>2, <1>4, <1>5, <1>7

LEMMA TypeInit == Init => TypeOK
<1> SUFFICES ASSUME Init PROVE TypeOK
  OBVIOUS
<1>1. step \in 1 .. Len(Endpoints) + 1 /\ odd \in 0 .. MaxOdd
  BY EndpointsDiffer, ProbeAssumption DEF Init
<1>2. DOMAIN answers = {Endpoints[i] : i \in 1 .. step - 1}
  BY DEF Init
<1>3. \A x \in DOMAIN answers : answers[x] \in AnswersOf(x)
  BY DEF Init
<1>4. DOMAIN caps = Asked
  BY AskedAre DEF Init, NoCaps
<1>5. /\ caps.intercom = {} /\ caps.door.doors = {} /\ caps.io = 0
      /\ caps.streams = <<>> /\ caps.audio = NoAudio /\ caps.operationTime = <<>>
      /\ caps.callStatus = FALSE /\ caps.httpHosts = FALSE /\ caps.alertStream = FALSE
  BY DEF Init, NoCaps
<1>7. caps.audio \in [supported : BOOLEAN, channel : Int, enabled : BOOLEAN]
  BY <1>5 DEF NoAudio
<1>8. \A x \in {"callStatus", "httpHosts", "alertStream"} : caps[x] \in BOOLEAN
  BY <1>5, Zenon
<1>6. raised = "none" /\ latest.about = "nothing"
  BY DEF Init, NoDocument
<1> QED BY <1>1, <1>2, <1>3, <1>4, <1>5, <1>6, <1>7, <1>8 DEF TypeOK

LEMMA TypeAsk ==
  ASSUME TypeOK, NEW x \in Asked, NEW answer \in AnswersOf(x), Ask(x, answer)
  PROVE  TypeOK'
<1>0. /\ step \in 1 .. 10 /\ x = Endpoints[step] /\ step' = step + 1
      /\ DOMAIN answers' = DOMAIN answers \cup {x}
      /\ DOMAIN answers' = {Endpoints[i] : i \in 1 .. step' - 1}
      /\ answers'[x] = answer
      /\ \A y \in DOMAIN answers : answers'[y] = answers[y]
  <2>1. x = Endpoints[step] /\ step' = step + 1
    BY DEF Ask
  <2> QED BY <2>1, AskedIsNew
<1>1. step' \in 1 .. Len(Endpoints) + 1 /\ step' = step + 1
  BY <1>0, EndpointsDiffer
<1>2. /\ DOMAIN answers' = {Endpoints[i] : i \in 1 .. step' - 1}
      /\ \A y \in DOMAIN answers' : answers'[y] \in AnswersOf(y)
  BY <1>0 DEF TypeOK
<1>3. odd' \in 0 .. MaxOdd
  BY ProbeAssumption DEF Ask, TypeOK
<1>4. raised' \in {"none", "ParseError", "AttributeError"}
                    \cup (IF step' = 2 THEN {"IsapiError"} ELSE {})
  <2>1. CASE x = "deviceInfo"
    <3>1. Endpoints[1] = "deviceInfo"
      BY DEF Endpoints
    <3>2. Endpoints[step] = Endpoints[1] /\ 1 \in 1 .. 10
      BY <1>0, <2>1, <3>1
    <3>3. step = 1
      BY <1>0, <3>2, EndpointsDiffer
    <3> QED BY <1>1, <2>1, <3>3 DEF Ask, Escapes
  <2>2. CASE x # "deviceInfo"
    BY <2>2 DEF Ask, Escapes
  <2> QED BY <2>1, <2>2
<1>5. CASE caps' = caps
  BY <1>1, <1>2, <1>3, <1>4, <1>5 DEF TypeOK, Ask
<1>6. CASE caps' = [caps EXCEPT ![x] = Learn(x, answer)]
  <2>1. DOMAIN caps' = Asked /\ caps'[x] = Learn(x, answer)
        /\ \A y \in Asked \ {x} : caps'[y] = caps[y]
    BY <1>6 DEF TypeOK
  <2>2. caps'.intercom \subseteq BOOLEAN
    BY <2>1, AskedAre, LearnedTypes DEF TypeOK
  <2>3. caps'.door.doors \subseteq Int
    BY <2>1, AskedAre, LearnedTypes DEF TypeOK
  <2>4. caps'.io \in Int
    BY <2>1, AskedAre, LearnedTypes DEF TypeOK
  <2>5. \A i \in DOMAIN caps'.streams : caps'.streams[i] \in Int
    BY <2>1, AskedAre, LearnedTypes DEF TypeOK
  <2>6. caps'.audio \in [supported : BOOLEAN, channel : Int, enabled : BOOLEAN]
    BY <2>1, AskedAre, LearnedTypes DEF TypeOK
  <2>7. caps'.operationTime \in {<<>>} \cup (Int \X Int \X Int)
    BY <2>1, AskedAre, LearnedTypes DEF TypeOK
  <2>8. \A y \in {"callStatus", "httpHosts", "alertStream"} : caps'[y] \in BOOLEAN
    BY <2>1, AskedAre, LearnedTypes DEF TypeOK
  <2> QED BY <1>1, <1>2, <1>3, <1>4, <2>1, <2>2, <2>3, <2>4, <2>5, <2>6, <2>7, <2>8
          DEF TypeOK, Ask
<1> QED BY <1>5, <1>6 DEF Ask

LEMMA TypeReceive ==
  ASSUME TypeOK, NEW what \in {"event", "slot"}, NEW document, NEW result,
         Receive(what, document, result)
  PROVE  TypeOK'
<1>1. UNCHANGED <<step, answers, caps, raised>>
  BY DEF Receive
<1>2. latest'.about = what
  BY DEF Receive
<1>3. odd' \in 0 .. MaxOdd
  BY ProbeAssumption DEF TypeOK, Receive
<1> QED BY <1>1, <1>2, <1>3 DEF TypeOK

\* Every step asks an endpoint, or is about a later document.
LEMMA TypeStep == TypeOK /\ [Next]_vars => TypeOK'
<1> SUFFICES ASSUME TypeOK, [Next]_vars PROVE TypeOK'
  OBVIOUS
<1>1. CASE \E x \in Asked : \E answer \in AnswersOf(x) : Ask(x, answer)
  BY <1>1, TypeAsk
<1>2. CASE \E body \in Bodies : Hear(body)
  BY <1>2, TypeReceive DEF Hear
<1>3. CASE \E slot \in Slots : ReadSlot(slot)
  BY <1>3, TypeReceive DEF ReadSlot
<1>4. CASE UNCHANGED vars
  BY <1>4 DEF TypeOK, vars
<1> QED BY <1>1, <1>2, <1>3, <1>4 DEF Next

\* Whatever the documents are and whichever requests fail, what is found has its
\* type, and of the requests only the first ends the set-up when it fails.
THEOREM TypeCorrect == Spec => []TypeOK
  BY TypeInit, TypeStep, PTL DEF Spec

------------------------------------------------------------------------------
(* What is known.                                                          *)

\* While nothing was raised, every part of caps is what the answer of its endpoint
\* is read as, or the default of one that has not answered yet.
CapsAreRead ==
  raised = "none" =>
    \A x \in Asked :
      caps[x] = IF x \in DOMAIN answers THEN Learn(x, answers[x]) ELSE NoCaps[x]

\* What was made of the last slot.
SlotIsRead ==
  latest.about = "slot" =>
    latest.document \in Slots /\ latest.result = DescribeExistingHost(latest.document)

IInv == TypeOK /\ CapsAreRead /\ SlotIsRead

LEMMA InvInit == Init => IInv
<1> SUFFICES ASSUME Init PROVE IInv
  OBVIOUS
<1>1. CapsAreRead
  BY DEF Init, CapsAreRead
<1>2. SlotIsRead
  BY DEF Init, SlotIsRead, NoDocument
<1> QED BY <1>1, <1>2, TypeInit DEF IInv

\* A request is read once, and tells of nothing but its own part.
LEMMA CapsAsk ==
  ASSUME TypeOK, CapsAreRead, NEW x \in Asked, NEW answer \in AnswersOf(x), Ask(x, answer)
  PROVE  CapsAreRead'
<1> SUFFICES ASSUME raised' = "none", NEW y \in Asked
             PROVE  caps'[y] = IF y \in DOMAIN answers' THEN Learn(y, answers'[y])
                                                        ELSE NoCaps[y]
  BY DEF CapsAreRead
<1>1. /\ caps' = [caps EXCEPT ![x] = Learn(x, answer)]
      /\ caps[y] = IF y \in DOMAIN answers THEN Learn(y, answers[y]) ELSE NoCaps[y]
  BY DEF Ask, CapsAreRead
<1>2. /\ DOMAIN answers' = DOMAIN answers \cup {x} /\ answers'[x] = answer
      /\ \A z \in DOMAIN answers : answers'[z] = answers[z]
      /\ x \notin DOMAIN answers
  BY AskedIsNew
<1>3. CASE y = x
  BY <1>1, <1>2, <1>3 DEF TypeOK
<1>4. CASE y # x
  BY <1>1, <1>2, <1>4 DEF TypeOK
<1> QED BY <1>3, <1>4

LEMMA InvStep == IInv /\ [Next]_vars => IInv'
<1> SUFFICES ASSUME IInv, [Next]_vars PROVE IInv'
  OBVIOUS
<1>1. TypeOK'
  BY TypeStep DEF IInv
<1>2. CASE \E x \in Asked : \E answer \in AnswersOf(x) : Ask(x, answer)
  <2>1. PICK x \in Asked : \E answer \in AnswersOf(x) : Ask(x, answer)
    BY <1>2
  <2>2. PICK answer \in AnswersOf(x) : Ask(x, answer)
    BY <2>1
  <2>3. CapsAreRead'
    BY <2>2, CapsAsk DEF IInv
  <2>4. SlotIsRead'
    BY <2>2 DEF IInv, SlotIsRead, Ask
  <2> QED BY <1>1, <2>3, <2>4 DEF IInv
<1>3. CASE \E body \in Bodies : Hear(body)
  BY <1>1, <1>3 DEF IInv, CapsAreRead, SlotIsRead, Hear, Receive
<1>4. CASE \E slot \in Slots : ReadSlot(slot)
  BY <1>1, <1>4 DEF IInv, CapsAreRead, SlotIsRead, ReadSlot, Receive
<1>5. CASE UNCHANGED vars
  BY <1>1, <1>5 DEF IInv, CapsAreRead, SlotIsRead, vars
<1> QED BY <1>2, <1>3, <1>4, <1>5 DEF Next

LEMMA InvHolds == Spec => []IInv
  BY InvInit, InvStep, PTL DEF Spec

\* When all have been asked, caps is what all the answers are read as.
LEMMA WhenProbed ==
  ASSUME IInv, Probed, NEW x \in Asked
  PROVE  /\ caps[x] = Learn(x, answers[x])
         /\ answers[x] \in AnswersOf(x)
<1>1. step = 11
  <2>1. step \in 1 .. Len(Endpoints) + 1
    BY DEF IInv, TypeOK
  <2>2. step > Len(Endpoints)
    BY DEF Probed
  <2> QED BY <2>1, <2>2, EndpointsDiffer
<1>2. x \in DOMAIN answers
  BY <1>1, EndpointsDiffer DEF IInv, TypeOK, Asked
<1> QED BY <1>2 DEF IInv, TypeOK, CapsAreRead, Probed

------------------------------------------------------------------------------
(* Fields of an element, as the element says them.                         *)

LEMMA OnlyIsPlace ==
  ASSUME NEW node, NEW tag, NEW i \in DOMAIN node.children
  PROVE  Only(node, tag, i) <=> Places(node, tag) = {i}
<1>1. \A j : j \in Places(node, tag)
                <=> j \in DOMAIN node.children /\ node.children[j].tag = tag
  BY DEF Places
<1>2. Only(node, tag, i)
        <=> \A j \in DOMAIN node.children : j \in Places(node, tag) <=> j = i
  BY <1>1, Zenon DEF Only
<1>3. Places(node, tag) = {i}
        <=> \A j \in DOMAIN node.children : j \in Places(node, tag) <=> j = i
  BY <1>1
<1> QED BY <1>2, <1>3

\* A text is found where just one plain element says it.
LEMMA FieldSaid ==
  ASSUME NEW node, NEW tag, NEW default, NEW i \in DOMAIN node.children,
         Only(node, tag, i), IsPlain(node.children[i])
  PROVE  Field(node, tag, default) = Text(node.children[i].text)
<1>1. Places(node, tag) = {i}
  BY OnlyIsPlace
<1>2. (CHOOSE j \in Places(node, tag) : TRUE) = i
  BY <1>1
<1> QED BY <1>1, <1>2 DEF Field

LEMMA FieldUnsaid ==
  ASSUME NEW node, NEW tag, NEW default
  PROVE  SaysNothingOf(node, tag) <=> Places(node, tag) = {}
  BY DEF SaysNothingOf, Places

\* And what is found is said: a text by a plain element, the default by none.
LEMMA FieldFound ==
  ASSUME NEW node, NEW tag, NEW default
  PROVE  \/ SaysNothingOf(node, tag) /\ Field(node, tag, default) = default
         \/ \E i \in DOMAIN node.children :
              /\ Only(node, tag, i) /\ IsPlain(node.children[i])
              /\ Field(node, tag, default) = Text(node.children[i].text)
         \/ /\ Field(node, tag, default).kind = "nested"
            /\ ~SaysNothingOf(node, tag)
            /\ \A i \in DOMAIN node.children :
                 ~(Only(node, tag, i) /\ IsPlain(node.children[i]))
<1>1. CASE Places(node, tag) = {}
  BY <1>1, FieldUnsaid DEF Field
<1>2. CASE \E i \in Places(node, tag) : Places(node, tag) = {i} /\ IsPlain(node.children[i])
  <2>1. PICK i \in Places(node, tag) : Places(node, tag) = {i} /\ IsPlain(node.children[i])
    BY <1>2
  <2>2. i \in DOMAIN node.children /\ Only(node, tag, i)
    BY <2>1, OnlyIsPlace DEF Places
  <2> QED BY <2>1, <2>2, FieldSaid
<1>3. CASE /\ Places(node, tag) # {}
           /\ ~(\E i \in Places(node, tag) :
                  Places(node, tag) = {i} /\ IsPlain(node.children[i]))
  <2>1. ~(/\ \E i \in Places(node, tag) : Places(node, tag) = {i}
          /\ IsPlain(node.children[CHOOSE i \in Places(node, tag) : TRUE]))
    BY <1>3
  <2>2. Field(node, tag, default).kind = "nested"
    BY <1>3, <2>1 DEF Field
  <2>3. \A i \in DOMAIN node.children :
          ~(Only(node, tag, i) /\ IsPlain(node.children[i]))
    BY <1>3, OnlyIsPlace
  <2> QED BY <1>3, <2>2, <2>3, FieldUnsaid
<1> QED BY <1>1, <1>2, <1>3

LEMMA FieldIsText ==
  ASSUME NEW node, NEW tag, NEW default, NEW text, default # Text(text)
  PROVE  Field(node, tag, default) = Text(text) <=> SaysOf(node, tag, text)
<1>1. ASSUME SaysOf(node, tag, text)
      PROVE  Field(node, tag, default) = Text(text)
  BY <1>1, FieldSaid DEF SaysOf
<1>2. ASSUME Field(node, tag, default) = Text(text)
      PROVE  SaysOf(node, tag, text)
  BY <1>2, FieldFound DEF SaysOf, Text
<1> QED BY <1>1, <1>2

\* A number is found where just one plain element says one.
LEMMA FieldIsNumber ==
  ASSUME NEW node, NEW tag, NEW n
  PROVE  /\ IsNumber(Field(node, tag, Other))
         /\ Numeral[Field(node, tag, Other).text] = n
         <=> \E id \in DOMAIN Numeral : Numeral[id] = n /\ SaysOf(node, tag, id)
<1>1. ASSUME NEW id \in DOMAIN Numeral, Numeral[id] = n, SaysOf(node, tag, id)
      PROVE  /\ IsNumber(Field(node, tag, Other))
             /\ Numeral[Field(node, tag, Other).text] = n
  <2>1. Field(node, tag, Other) = Text(id)
    BY <1>1, FieldIsText DEF Other, Text
  <2> QED BY <1>1, <2>1 DEF IsNumber, IsText, Text
<1>2. ASSUME IsNumber(Field(node, tag, Other)),
             Numeral[Field(node, tag, Other).text] = n
      PROVE  \E id \in DOMAIN Numeral : Numeral[id] = n /\ SaysOf(node, tag, id)
  <2>1. PICK i \in DOMAIN node.children :
          /\ Only(node, tag, i) /\ IsPlain(node.children[i])
          /\ Field(node, tag, Other) = Text(node.children[i].text)
    BY <1>2, FieldFound DEF IsNumber, IsText, Other
  <2> QED BY <1>2, <2>1 DEF SaysOf, IsNumber, Text
<1> QED BY <1>1, <1>2

------------------------------------------------------------------------------
(* The camera.                                                             *)

\* A channel is in the list that is read if and only if the document enables it.
LEMMA ChannelsRead ==
  ASSUME IInv, Probed
  PROVE  /\ DOMAIN caps.streams \subseteq Nat
         /\ \A i \in DOMAIN caps.streams :
              caps.streams[i] \in Numbers /\ Enables(caps.streams[i])
         /\ \A n \in Numbers : Enables(n) =>
              \E i \in DOMAIN caps.streams : caps.streams[i] = n
<1> DEFINE d == Document("streams")
           listed == HasDocument("streams", "StreamingChannelList")
<1>1. /\ caps.streams = Learn("streams", answers["streams"])
      /\ answers["streams"] \in AnswersOf("streams")
  BY WhenProbed, AskedAre
<1>2. CASE answers["streams"].kind # "document"
  <2>1. caps.streams = <<>>
    BY <1>1, <1>2 DEF Learn, NoCaps
  <2> QED BY <1>2, <2>1 DEF Enables, HasDocument
<1>3. CASE answers["streams"].kind = "document"
  <2>1. caps.streams = ParseStreamChannels(d)
    BY <1>1, <1>3, Zenon DEF Learn, Parse, Document
  <2>2. CASE d.tag # "StreamingChannelList"
    <3>1. Places(Leaf("StreamingChannelList", NoText), "StreamingChannel") = {}
      BY DEF Places, Leaf, Element
    <3>2. DOMAIN caps.streams = {}
      BY <2>1, <2>2, <3>1 DEF ParseStreamChannels, Section, Channels
    <3> QED BY <2>2, <3>2 DEF Enables, HasDocument
  <2>3. CASE d.tag = "StreamingChannelList"
    <3> DEFINE Id(i) == Field(d.children[i], "id", Other)
    <3>1. /\ DOMAIN caps.streams =
               {j \in Places(d, "StreamingChannel") :
                  /\ Field(d.children[j], "enabled", Other) = Text("true")
                  /\ IsNumber(Id(j))}
          /\ \A i \in DOMAIN caps.streams : caps.streams[i] = Numeral[Id(i).text]
      BY <2>1, <2>3 DEF ParseStreamChannels, Section, Channels
    <3>2. ASSUME NEW i \in DOMAIN d.children, NEW n
          PROVE  IsEnabled(d.children[i], n) <=>
                   i \in DOMAIN caps.streams /\ caps.streams[i] = n
      <4>1. Field(d.children[i], "enabled", Other) = Text("true")
              <=> SaysOf(d.children[i], "enabled", "true")
        BY FieldIsText DEF Other, Text
      <4>2. /\ IsNumber(Id(i)) /\ Numeral[Id(i).text] = n
            <=> \E id \in DOMAIN Numeral :
                  Numeral[id] = n /\ SaysOf(d.children[i], "id", id)
        BY FieldIsNumber
      <4>3. i \in Places(d, "StreamingChannel") <=> d.children[i].tag = "StreamingChannel"
        BY DEF Places
      <4> HIDE DEF d, Id
      <4> QED BY <3>1, <4>1, <4>2, <4>3 DEF IsEnabled
    <3>3. \A i \in DOMAIN caps.streams : i \in DOMAIN d.children
      BY <3>1 DEF Places
    <3>4. DOMAIN d.children \subseteq Nat
      BY <1>1, <1>3, DocumentsInOrder DEF InOrder, Document
    <3>5. \A i \in DOMAIN caps.streams : caps.streams[i] \in Numbers
      BY <3>1 DEF Numbers, IsNumber
    <3>6. listed
      BY <1>3, <2>3 DEF HasDocument
    <3>7. \A n : Enables(n) <=> \E i \in DOMAIN d.children : IsEnabled(d.children[i], n)
      BY <3>6 DEF Enables
    <3> HIDE DEF d
    <3> QED BY <3>2, <3>3, <3>4, <3>5, <3>7
  <2> QED BY <2>2, <2>3
<1> QED BY <1>2, <1>3

\* Whatever list of streams a device sends, or none, and whichever requests fail:
\* the camera shows an enabled channel, the main one if it can, and is there only
\* then.
THEOREM CameraIsRight == Spec => []CameraShowsEnabled
<1>1. IInv => CameraShowsEnabled
  <2> SUFFICES ASSUME IInv, Probed
               PROVE  /\ Cameras(caps.streams) \subseteq {n \in Numbers : Enables(n)}
                      /\ (Cameras(caps.streams) = {}) <=> ({n \in Numbers : Enables(n)} = {})
                      /\ MainStream \in {n \in Numbers : Enables(n)}
                           => Cameras(caps.streams) = {MainStream}
    BY DEF CameraShowsEnabled
  <2>1. CASE DOMAIN caps.streams = {}
    BY <2>1, ChannelsRead DEF Cameras
  <2>2. CASE DOMAIN caps.streams # {}
    <3>1. Min(DOMAIN caps.streams) \in DOMAIN caps.streams
      BY <2>2, ChannelsRead, MinIsLeast
    <3>2. CASE \E i \in DOMAIN caps.streams : caps.streams[i] = MainStream
      BY <2>2, <3>2, ChannelsRead DEF Cameras
    <3>3. CASE ~(\E i \in DOMAIN caps.streams : caps.streams[i] = MainStream)
      BY <2>2, <3>1, <3>3, ChannelsRead DEF Cameras
    <3> QED BY <3>2, <3>3
  <2> QED BY <2>1, <2>2
<1> QED BY <1>1, InvHolds, PTL

------------------------------------------------------------------------------
(* Doors, commands, relays and the flag.                                   *)

\* An error, or any other document, has no fields.
LEMMA NoFields ==
  ASSUME NEW root, NEW key, root.tag # key, NEW tag
  PROVE  Places(Section(root, key), tag) = {}
  BY DEF Section, Places, Leaf, Element

LEMMA PartsAreDicts ==
  ASSUME NEW node, NEW tag
  PROVE  DictAt(node, tag) = PartsOf(node, tag)
<1>1. ASSUME NEW j
      PROVE  j \in Places(node, tag) /\ Places(node, tag) = {j} /\ ~IsPlain(node.children[j])
               <=> j \in DOMAIN node.children /\ Only(node, tag, j) /\ ~IsPlain(node.children[j])
  BY OnlyIsPlace DEF Places
<1> QED BY <1>1 DEF DictAt, PartsOf

LEMMA OnePart ==
  ASSUME NEW node, NEW tag, NEW e \in PartsOf(node, tag)
  PROVE  /\ PartsOf(node, tag) = {e} /\ Places(node, tag) # {} /\ HasChildren(node)
<1>1. PICK i \in DOMAIN node.children : Only(node, tag, i) /\ e = node.children[i]
  BY DEF PartsOf
<1>2. \A j \in DOMAIN node.children : Only(node, tag, j) => j = i
  BY <1>1 DEF Only
<1>3. PartsOf(node, tag) = {e}
  BY <1>1, <1>2 DEF PartsOf
<1> QED BY <1>1, <1>3, OnlyIsPlace DEF HasChildren

LEMMA LimitIsStated ==
  ASSUME NEW element, NEW key
  PROVE  /\ \A n : n \in Limit(element, key) <=> States(element, key, n)
         /\ \A m, n \in Limit(element, key) : m = n
         /\ Limit(element, key) \subseteq Numbers
  BY DEF Limit, States, Numbers

LEMMA BetweenLimits ==
  ASSUME NEW lo, NEW hi
  PROVE  DoorsBetween({lo}, {hi}) = lo .. hi
<1>1. (CHOOSE l \in {lo} : TRUE) = lo /\ (CHOOSE h \in {hi} : TRUE) = hi
  OBVIOUS
<1> QED BY <1>1, Zenon DEF DoorsBetween

\* The answer about doors, as it is read.
LEMMA DoorRead ==
  ASSUME IInv, Probed
  PROVE  caps.door = IF answers["door"].kind = "document"
                       THEN ParseDoorCapabilities(Document("door")) ELSE NoCaps.door
<1>1. caps.door = Learn("door", answers["door"])
  BY WhenProbed, AskedAre
<1> QED BY <1>1, Zenon DEF Learn, Parse, Document

LEMMA DoorsNamed ==
  ASSUME IInv, Probed, NEW lo, NEW hi, NamesDoors(lo, hi)
  PROVE  caps.door.doors = lo .. hi
<1> DEFINE d == Document("door")
<1>1. PICK e \in PartsOf(d, "doorNo") : States(e, "@min", lo) /\ States(e, "@max", hi)
  BY DEF NamesDoors
<1>2. /\ answers["door"].kind = "document" /\ d.tag = "RemoteControlDoor"
  BY DEF NamesDoors, HasDocument
<1>3. PartsOf(d, "doorNo") = {e} /\ Places(d, "doorNo") # {} /\ HasChildren(d)
  BY <1>1, OnePart
<1>4. Limit(e, "@min") = {lo} /\ Limit(e, "@max") = {hi}
  BY <1>1, LimitIsStated
<1>5. DoorNumbers(d) = DoorsBetween({lo}, {hi})
  BY <1>3, <1>4, PartsAreDicts DEF DoorNumbers
<1>6. ParseDoorCapabilities(d).doors = DoorNumbers(d)
  BY <1>2, <1>3 DEF ParseDoorCapabilities, IsTextOf, Section
<1> QED BY <1>2, <1>5, <1>6, DoorRead, BetweenLimits

LEMMA DoorsAreNamed ==
  ASSUME IInv, Probed, NEW door \in caps.door.doors
  PROVE  \/ \E lo, hi \in Numbers : NamesDoors(lo, hi) /\ door \in lo .. hi
         \/ door = 1 /\ ~(\E lo, hi \in Numbers : NamesDoors(lo, hi))
<1> DEFINE d == Document("door")
<1> SUFFICES ASSUME ~(\E lo, hi \in Numbers : NamesDoors(lo, hi) /\ door \in lo .. hi)
             PROVE  door = 1
  BY DoorsNamed
<1>1. answers["door"].kind = "document" /\ door \in DoorNumbers(Section(d, "RemoteControlDoor"))
  BY DoorRead DEF ParseDoorCapabilities, NoCaps
<1>2. CASE d.tag # "RemoteControlDoor"
  BY <1>1, <1>2, NoFields DEF DoorNumbers
<1>3. CASE d.tag = "RemoteControlDoor"
  <2>1. HasDocument("door", "RemoteControlDoor") /\ Section(d, "RemoteControlDoor") = d
    BY <1>1, <1>3 DEF HasDocument, Section
  <2>2. CASE Places(d, "doorNo") = {}
    BY <1>1, <2>1, <2>2 DEF DoorNumbers
  <2>3. CASE Places(d, "doorNo") # {}
    <3>1. PICK e \in PartsOf(d, "doorNo") :
            door \in DoorsBetween(Limit(e, "@min"), Limit(e, "@max"))
      BY <1>1, <2>1, <2>3, PartsAreDicts DEF DoorNumbers
    <3>2. CASE Limit(e, "@min") = {} \/ Limit(e, "@max") = {}
      BY <3>1, <3>2 DEF DoorsBetween
    <3>3. CASE Limit(e, "@min") # {} /\ Limit(e, "@max") # {}
      <4>1. PICK lo \in Numbers : lo \in Limit(e, "@min")
        BY <3>3, LimitIsStated
      <4>2. PICK hi \in Numbers : hi \in Limit(e, "@max")
        BY <3>3, LimitIsStated
      <4>3. Limit(e, "@min") = {lo} /\ Limit(e, "@max") = {hi}
        BY <4>1, <4>2, LimitIsStated
      <4>4. door \in lo .. hi
        BY <3>1, <4>3, BetweenLimits
      <4>5. NamesDoors(lo, hi)
        BY <2>1, <3>1, <4>1, <4>2, LimitIsStated DEF NamesDoors
      <4> QED BY <4>4, <4>5
    <3> QED BY <3>2, <3>3
  <2> QED BY <2>2, <2>3
<1> QED BY <1>2, <1>3

LEMMA CommandsNamed ==
  ASSUME IInv, Probed
  PROVE  /\ \A command : command \in caps.door.commands <=> NamesCommand(command)
         /\ caps.door.commands # {} <=> NamesSomeCommand
<1> DEFINE d == Document("door")
<1>1. CASE answers["door"].kind # "document"
  BY <1>1, DoorRead DEF NamesCommand, NamesSomeCommand, HasDocument, NoCaps
<1>2. CASE answers["door"].kind = "document" /\ d.tag # "RemoteControlDoor"
  <2>1. DictAt(Section(d, "RemoteControlDoor"), "cmd") = {}
    BY <1>2, NoFields DEF DictAt
  <2>2. caps.door.commands = {}
    BY <1>2, <2>1, DoorRead DEF ParseDoorCapabilities, DoorCommands
  <2> QED BY <1>2, <2>2 DEF NamesCommand, NamesSomeCommand, HasDocument
<1>3. CASE answers["door"].kind = "document" /\ d.tag = "RemoteControlDoor"
  <2>1. HasDocument("door", "RemoteControlDoor")
    BY <1>3 DEF HasDocument
  <2>2. CASE ~HasChildren(d)
    <3>1. PartsOf(d, "cmd") = {}
      BY <2>2 DEF PartsOf, HasChildren
    <3>2. caps.door.commands = {}
      BY <1>3, <2>2, DoorRead DEF ParseDoorCapabilities, IsTextOf
    <3> QED BY <3>1, <3>2 DEF NamesCommand, NamesSomeCommand
  <2>3. CASE HasChildren(d)
    <3>1. caps.door.commands = DoorCommands(d)
      BY <1>3, <2>3, DoorRead DEF ParseDoorCapabilities, IsTextOf, Section
    <3>2. \A command : command \in DoorCommands(d) <=>
            \E cmd \in PartsOf(d, "cmd") :
              "@opt" \in DOMAIN cmd.attrs /\ command \in Split(cmd.attrs["@opt"])
      BY PartsAreDicts DEF DoorCommands
    <3>3. DoorCommands(d) # {} <=>
            \E cmd \in PartsOf(d, "cmd") :
              "@opt" \in DOMAIN cmd.attrs /\ Split(cmd.attrs["@opt"]) # {}
      BY <3>2
    <3> QED BY <2>1, <3>1, <3>2, <3>3 DEF NamesCommand, NamesSomeCommand
  <2> QED BY <2>2, <2>3
<1> QED BY <1>1, <1>2, <1>3

LEMMA RelaysCounted ==
  ASSUME IInv, Probed, Relays > 0
  PROVE  /\ HasDocument("io", "IOCap")
         /\ \E count \in DOMAIN Numeral :
              /\ Numeral[count] = Relays
              /\ SaysOf(Document("io"), "IOOutputPortNums", count)
<1> DEFINE d == Document("io")
           field == Field(Section(d, "IOCap"), "IOOutputPortNums", Other)
<1>1. caps.io = Learn("io", answers["io"])
  BY WhenProbed, AskedAre
<1>2. answers["io"].kind = "document"
  BY <1>1 DEF Relays, Learn, NoCaps
<1>3. caps.io = OutputPorts(d)
  BY <1>1, <1>2, Zenon DEF Learn, Parse, Document
<1>4. IsNumber(field) /\ Numeral[field.text] = Relays
  BY <1>3 DEF OutputPorts, NumberOr, Relays
<1>5. d.tag = "IOCap"
  <2>1. ASSUME d.tag # "IOCap" PROVE field = Other
    BY <2>1, NoFields DEF Field
  <2> QED BY <1>4, <2>1 DEF IsNumber, IsText, Other
<1>6. Section(d, "IOCap") = d
  BY <1>5 DEF Section
<1> QED BY <1>2, <1>4, <1>5, <1>6, FieldIsNumber DEF HasDocument

LEMMA FlagRead ==
  ASSUME IInv, Probed
  PROVE  /\ caps.intercom = {TRUE} <=> Affirms
         /\ caps.intercom = {FALSE} <=> Denies
         /\ caps.intercom \in {{}, {TRUE}, {FALSE}}
<1> DEFINE d == Document("intercom")
           key == "isSupportRemoteOpenDoor"
           flag == Field(Section(d, "VideoIntercomCap"), key, Other)
<1>1. caps.intercom = Learn("intercom", answers["intercom"])
  BY WhenProbed, AskedAre
<1>2. CASE answers["intercom"].kind # "document"
  BY <1>1, <1>2 DEF Learn, NoCaps, Affirms, Denies, HasDocument
<1>3. CASE answers["intercom"].kind = "document"
  <2>1. caps.intercom = Flag(d, key)
    BY <1>1, <1>3, Zenon DEF Learn, Parse, Document
  <2>2. CASE d.tag # "VideoIntercomCap"
    <3>1. flag = Other
      BY <2>2, NoFields DEF Field
    <3>2. caps.intercom = {}
      BY <2>1, <3>1 DEF Flag, IsText, Other
    <3>3. ~Affirms /\ ~Denies
      BY <2>2 DEF Affirms, Denies, HasDocument
    <3> QED BY <3>2, <3>3
  <2>3. CASE d.tag = "VideoIntercomCap"
    <3>1. Section(d, "VideoIntercomCap") = d /\ HasDocument("intercom", "VideoIntercomCap")
      BY <1>3, <2>3 DEF Section, HasDocument
    <3>2. caps.intercom = IF IsText(flag) THEN {flag.text = "true"} ELSE {}
      BY <2>1 DEF Flag
    <3>3. CASE \E i \in DOMAIN d.children : Only(d, key, i) /\ IsPlain(d.children[i])
      <4>1. PICK i \in DOMAIN d.children : Only(d, key, i) /\ IsPlain(d.children[i])
        BY <3>3
      <4>2. flag = Text(d.children[i].text)
        BY <3>1, <4>1, FieldSaid
      <4>3. \A j \in DOMAIN d.children : Only(d, key, j) => j = i
        BY <4>1 DEF Only
      <4>4. caps.intercom = {d.children[i].text = "true"}
        BY <3>2, <4>2 DEF IsText, Text
      <4>5. Affirms <=> d.children[i].text = "true"
        BY <3>1, <4>1, <4>3 DEF Affirms, SaysOf
      <4>6. Denies <=> d.children[i].text # "true"
        BY <3>1, <4>1, <4>3 DEF Denies
      <4> QED BY <4>4, <4>5, <4>6
    <3>4. CASE ~(\E i \in DOMAIN d.children : Only(d, key, i) /\ IsPlain(d.children[i]))
      <4>1. ~Affirms /\ ~Denies
        BY <3>4 DEF Affirms, Denies, SaysOf
      <4>2. ~IsText(flag)
        BY <3>1, <3>4, FieldFound DEF IsText, Other
      <4> QED BY <3>2, <4>1, <4>2
    <3> QED BY <3>3, <3>4
  <2> QED BY <2>2, <2>3
<1> QED BY <1>2, <1>3

\* No entity for what the device does not have.
THEOREM PhantomsNever == Spec => []NoPhantoms
<1>1. IInv => NoPhantoms
  <2> SUFFICES ASSUME IInv, Probed PROVE NoPhantoms
    BY DEF NoPhantoms
  <2>1. \A door \in Locks :
          \/ \E lo, hi \in Numbers : NamesDoors(lo, hi) /\ door \in lo .. hi
          \/ door = 1 /\ ~(\E lo, hi \in Numbers : NamesDoors(lo, hi))
    BY DoorsAreNamed DEF Locks
  <2>2. AlwaysOpen => NamesCommand("alwaysOpen")
    BY CommandsNamed DEF AlwaysOpen
  <2> QED BY <2>1, <2>2, RelaysCounted DEF NoPhantoms
<1> QED BY <1>1, InvHolds, PTL

\* A door that the device names has its lock, whichever other requests fail.
THEOREM DoorsAreLocked == Spec => []DoorsHaveLocks
<1>1. IInv => DoorsHaveLocks
  <2> SUFFICES ASSUME IInv, Probed
               PROVE  /\ Denies => Locks = {}
                      /\ Affirms \/ (NamesSomeCommand /\ ~Denies) =>
                           \A lo, hi \in Numbers : NamesDoors(lo, hi) => Locks = lo .. hi
    BY DEF DoorsHaveLocks
  <2>1. Denies => Locks = {}
    BY FlagRead DEF Locks, RemoteOpen
  <2>2. ASSUME Affirms \/ (NamesSomeCommand /\ ~Denies) PROVE Locks = caps.door.doors
    BY <2>2, FlagRead, CommandsNamed DEF Locks, RemoteOpen
  <2> QED BY <2>1, <2>2, DoorsNamed
<1> QED BY <1>1, InvHolds, PTL

------------------------------------------------------------------------------
(* The slot.                                                               *)

LEMMA BlankIsSaid ==
  ASSUME NEW node, NEW tag, NEW text
  PROVE  Field(node, tag, Text(NoText)) \in {Text(NoText), Text(text)} <=> SaysBlank(node, tag, text)
<1> DEFINE field == Field(node, tag, Text(NoText))
<1>1. CASE SaysNothingOf(node, tag)
  BY <1>1, FieldUnsaid DEF SaysBlank, Field
<1>2. CASE ~SaysNothingOf(node, tag)
  <2>1. CASE \E i \in DOMAIN node.children : Only(node, tag, i) /\ IsPlain(node.children[i])
    <3>1. PICK i \in DOMAIN node.children : Only(node, tag, i) /\ IsPlain(node.children[i])
      BY <2>1
    <3>2. field = Text(node.children[i].text)
      BY <3>1, FieldSaid
    <3>3. \A j \in DOMAIN node.children : Only(node, tag, j) => j = i
      BY <3>1 DEF Only
    <3>4. \A t : SaysOf(node, tag, t) <=> node.children[i].text = t
      BY <3>1, <3>3 DEF SaysOf
    <3>5. field \in {Text(NoText), Text(text)} <=> node.children[i].text \in {NoText, text}
      BY <3>2 DEF Text
    <3> QED BY <1>2, <3>4, <3>5 DEF SaysBlank
  <2>2. CASE ~(\E i \in DOMAIN node.children : Only(node, tag, i) /\ IsPlain(node.children[i]))
    <3>1. field.kind = "nested"
      BY <1>2, <2>2, FieldFound
    <3>2. \A t : ~SaysOf(node, tag, t)
      BY <2>2 DEF SaysOf
    <3>3. field \notin {Text(NoText), Text(text)}
      BY <3>1 DEF Text
    <3> QED BY <1>2, <3>2, <3>3 DEF SaysBlank
  <2> QED BY <2>1, <2>2
<1> QED BY <1>1, <1>2

LEMMA FieldTells ==
  ASSUME NEW node, NEW tag
  PROVE  Tells(node, tag, Field(node, tag, Text(NoText)))
  BY FieldSaid, FieldUnsaid DEF Tells, Field

\* Whatever document the slot holds, the host it names is the one that is read, and
\* it is free only if it names none.
THEOREM HostsAreRecognised == Spec => []HostIsRecognised
<1>1. IInv => HostIsRecognised
  <2> SUFFICES ASSUME IInv, latest.about = "slot" PROVE HostIsRecognised
    BY DEF HostIsRecognised
  <2> DEFINE root   == latest.document
             list   == "HttpHostNotificationList"
             hosts  == HostsIn(root)
             first  == root.children[Min(hosts)]
             Of(tag) == Field(first, tag, Text(NoText))
  <2>1. latest.result = DescribeExistingHost(root)
    BY DEF IInv, SlotIsRead
  <2>2. CASE IsTextOf(root, list)
    <3>1. latest.result = Raises
      BY <2>1, <2>2 DEF DescribeExistingHost
    <3> QED BY <2>2, <3>1 DEF HostIsRecognised, IsTextOf
  <2>3. CASE ~IsTextOf(root, list)
    <3>1. Places(Section(root, list), "HttpHostNotification") = hosts
      BY DEF Places, Section, HostsIn, Leaf, Element
    <3>2. CASE hosts = {}
      <4>1. latest.result = Free /\ Free # Raises
        BY <2>1, <2>3, <3>1, <3>2 DEF DescribeExistingHost, Free, Raises
      <4> QED BY <3>2, <4>1 DEF HostIsRecognised
    <3>3. CASE hosts # {}
      <4>1. Section(root, list) = root
        BY <3>3 DEF HostsIn, Section
      <4>2. latest.result = IF IsPlain(first) \/ IsBlank(Of("ipAddress"), Of("portNo"))
                              THEN Free ELSE TakenBy(<<Of("ipAddress"), Of("portNo"), Of("url")>>)
        BY <2>1, <2>3, <3>1, <3>3, <4>1 DEF DescribeExistingHost
      <4>3. latest.result # Raises
        <5>1. Free # Raises /\ \A host : TakenBy(host) # Raises
          BY DEF Free, TakenBy, Raises
        <5> HIDE DEF Of
        <5> QED BY <4>2, <5>1
      <4>4. IsPlain(first) => SaysNothingOf(first, "ipAddress")
        BY DEF IsPlain, HasChildren, SaysNothingOf
      <4>5. IsBlank(Of("ipAddress"), Of("portNo")) <=>
              SaysBlank(first, "ipAddress", "0.0.0.0") \/ SaysBlank(first, "portNo", "0")
        BY BlankIsSaid DEF IsBlank
      <4>6. CASE SaysBlank(first, "ipAddress", "0.0.0.0") \/ SaysBlank(first, "portNo", "0")
        <5>1. latest.result = Free
          BY <4>2, <4>5, <4>6
        <5> QED BY <4>3, <4>6, <5>1 DEF HostIsRecognised
      <4>7. CASE ~(SaysBlank(first, "ipAddress", "0.0.0.0") \/ SaysBlank(first, "portNo", "0"))
        <5>1. ~IsPlain(first)
          BY <4>4, <4>7 DEF SaysBlank
        <5>2. latest.result = TakenBy(<<Of("ipAddress"), Of("portNo"), Of("url")>>)
          BY <4>2, <4>5, <4>7, <5>1
        <5>3. /\ Tells(first, "ipAddress", Of("ipAddress"))
              /\ Tells(first, "portNo", Of("portNo")) /\ Tells(first, "url", Of("url"))
          BY FieldTells
        <5>4. /\ latest.result.kind = "taken"
              /\ latest.result.host = <<Of("ipAddress"), Of("portNo"), Of("url")>>
          BY <5>2 DEF TakenBy
        <5> HIDE DEF Of
        <5>5. /\ latest.result.host[1] = Of("ipAddress") /\ latest.result.host[2] = Of("portNo")
              /\ latest.result.host[3] = Of("url")
          BY <5>4
        <5> QED BY <3>3, <4>3, <4>7, <5>3, <5>4, <5>5 DEF HostIsRecognised
      <4> QED BY <4>6, <4>7
    <3> QED BY <3>2, <3>3
  <2> QED BY <2>2, <2>3
<1> QED BY <1>1, InvHolds, PTL

\* configure_host knows its own entry again: what it wrote is read back as the same
\* address, port and path, unless it counts as blank or was too long to be written.
THEOREM OwnHostIsKnown ==
  ASSUME NEW ip, NEW port, NEW path, ip \notin {NoText, "0.0.0.0"}, port \notin {NoText, "0"},
         path \notin TooLong
  PROVE  DescribeExistingHost(BuildHostConfig(<<ip, port, path>>))
           = TakenBy(<<Text(ip), Text(port), Text(path)>>)
<1> DEFINE fields == <<Leaf("id", "1"), Leaf("url", path), Leaf("protocolType", "HTTP"),
                       Leaf("ipAddress", ip), Leaf("portNo", port)>>
           entry == WithAttrs(Element("HttpHostNotification", NoText, fields), Version)
           root  == Element("HttpHostNotificationList", NoText, <<entry>>)
<1>1. BuildHostConfig(<<ip, port, path>>) = root
  BY DEF BuildHostConfig
<1>2. \A tag, text : /\ Leaf(tag, text).tag = tag /\ Leaf(tag, text).text = text
                     /\ DOMAIN Leaf(tag, text).children = {}
                     /\ DOMAIN Leaf(tag, text).attrs = {}
  BY DEF Leaf, Element
<1>3. \A tag, text : IsPlain(Leaf(tag, text))
  BY <1>2 DEF IsPlain, HasChildren
<1>4. /\ DOMAIN fields = 1 .. 5
      /\ fields[1] = Leaf("id", "1") /\ fields[2] = Leaf("url", path)
      /\ fields[3] = Leaf("protocolType", "HTTP")
      /\ fields[4] = Leaf("ipAddress", ip) /\ fields[5] = Leaf("portNo", port)
  OBVIOUS
<1> HIDE DEF fields
<1>5. /\ entry.tag = "HttpHostNotification" /\ entry.children = fields
      /\ DOMAIN entry.attrs = {"@version"}
  BY DEF Element, WithAttrs, Version
<1> HIDE DEF entry
<1>6. /\ root.tag = "HttpHostNotificationList" /\ DOMAIN root.children = {1}
      /\ root.children[1] = entry
  BY DEF Element
<1> HIDE DEF root
<1>7. /\ entry.children[1].tag = "id" /\ entry.children[2].tag = "url"
      /\ entry.children[3].tag = "protocolType" /\ entry.children[4].tag = "ipAddress"
      /\ entry.children[5].tag = "portNo"
  BY <1>2, <1>4, <1>5
<1>8. \A j \in 1 .. 5 : j = 1 \/ j = 2 \/ j = 3 \/ j = 4 \/ j = 5
  OBVIOUS
<1>9. Only(entry, "url", 2)
  BY <1>4, <1>5, <1>7, <1>8 DEF Only
<1>10. Only(entry, "ipAddress", 4)
  BY <1>4, <1>5, <1>7, <1>8 DEF Only
<1>11. Only(entry, "portNo", 5)
  BY <1>4, <1>5, <1>7, <1>8 DEF Only
<1>12. /\ IsPlain(entry.children[2]) /\ entry.children[2].text = path
       /\ IsPlain(entry.children[4]) /\ entry.children[4].text = ip
       /\ IsPlain(entry.children[5]) /\ entry.children[5].text = port
  BY <1>2, <1>3, <1>4, <1>5
<1>13. 2 \in DOMAIN entry.children /\ 4 \in DOMAIN entry.children /\ 5 \in DOMAIN entry.children
  BY <1>4, <1>5
<1>14. Field(entry, "url", Text(NoText)) = Text(path)
  BY <1>9, <1>12, <1>13, FieldSaid
<1>15. Field(entry, "ipAddress", Text(NoText)) = Text(ip)
  BY <1>10, <1>12, <1>13, FieldSaid
<1>16. Field(entry, "portNo", Text(NoText)) = Text(port)
  BY <1>11, <1>12, <1>13, FieldSaid
<1>17. /\ Section(root, "HttpHostNotificationList") = root
       /\ ~IsTextOf(root, "HttpHostNotificationList")
       /\ Places(root, "HttpHostNotification") = {1}
       /\ ~IsPlain(entry)
  BY <1>5, <1>6 DEF Section, IsTextOf, HasChildren, Places, IsPlain
<1>18. Min({1}) = 1
  BY MinIsLeast
<1>19. ~IsBlank(Text(ip), Text(port))
  BY DEF IsBlank, Text
<1> QED BY <1>1, <1>6, <1>14, <1>15, <1>16, <1>17, <1>18, <1>19 DEF DescribeExistingHost

------------------------------------------------------------------------------
(* Pushed events, once flattened.                                          *)

LEMMA FirstIsFound ==
  ASSUME NEW n \in Nat, NEW I \in SUBSET (1 .. n), I # {}
  PROVE  Min(I) \in I /\ Min(I) # 0
<1>1. I \in SUBSET Nat /\ 0 \notin I
  OBVIOUS
<1> QED BY <1>1, MinIsLeast

\* items.get(key) is the value of an item with that key, if there is one.
LEMMA GetFinds ==
  ASSUME NEW S, NEW items \in Seq(S), NEW key, NEW default
  PROVE  /\ Has(items, key) => \E i \in DOMAIN items :
              items[i].key = key /\ Get(items, key, default) = items[i].value
         /\ ~Has(items, key) => Get(items, key, default) = default
<1> DEFINE I == {i \in 1 .. Len(items) : items[i].key = key}
           first == SelectInSeq(items, LAMBDA item : item.key = key)
<1>1. first = IF I # {} THEN Min(I) ELSE 0
  BY DEF SelectInSeq
<1>2. Get(items, key, default) = IF first = 0 THEN default ELSE items[first].value
  BY DEF Get
<1>3. Has(items, key) <=> I # {}
  BY DEF Has
<1>4. I # {} => Min(I) \in I /\ Min(I) # 0
  <2>1. Len(items) \in Nat /\ I \in SUBSET (1 .. Len(items))
    OBVIOUS
  <2> HIDE DEF I
  <2> QED BY <2>1, FirstIsFound
<1>5. \A i \in I : i \in DOMAIN items /\ items[i].key = key
  OBVIOUS
<1> HIDE DEF first, I
<1>6. CASE I # {}
  <2>1. first \in I /\ first # 0
    BY <1>1, <1>4, <1>6
  <2> QED BY <1>2, <1>3, <1>5, <1>6, <2>1
<1>7. CASE I = {}
  BY <1>1, <1>2, <1>3, <1>7
<1> QED BY <1>6, <1>7

\* What is said under some of the keys.
ToldUnder(flat, keys) ==
  {flat[i].value : i \in {j \in DOMAIN flat : flat[j].key \in ToSet(keys)}}

\* Whatever is found in an event: a call state is read only if it says so, or that
\* it is about the bell; and if all that is said of the state is one call state, that
\* one is read, whatever the key and whatever else is said.
THEOREM EventsAreRead ==
  ASSUME NEW S, NEW flat \in Seq(S)
  PROVE  /\ StatusOf(flat) # "none" =>
              \/ \E v \in ToldUnder(flat, StatusKeys) : IsText(v) /\ v.text = StatusOf(flat)
              \/ /\ StatusOf(flat) = "ring"
                 /\ \E v \in ToldUnder(flat, TypeKeys) : Lower(v) \in RingEvents
         /\ \A state \in CallStates :
              ToldUnder(flat, StatusKeys) = {Text(state)} => StatusOf(flat) = state
<1> DEFINE value(key) == Get(flat, key, Other)
           isState(key) == IsText(value(key)) /\ value(key).text \in CallStates
           K == {i \in 1 .. Len(StatusKeys) : isState(StatusKeys[i])}
           T == {i \in 1 .. Len(TypeKeys) : Has(flat, TypeKeys[i])}
           byKey  == IF K # {} THEN Min(K) ELSE 0
           byType == IF T # {} THEN Min(T) ELSE 0
<1>1. StatusOf(flat) =
        IF byKey # 0 THEN value(StatusKeys[byKey]).text
        ELSE IF byType # 0 /\ Lower(value(TypeKeys[byType])) \in RingEvents THEN "ring"
        ELSE "none"
  BY DEF StatusOf, SelectInSeq
<1>2. /\ Len(StatusKeys) \in Nat /\ DOMAIN StatusKeys = 1 .. Len(StatusKeys)
      /\ Len(TypeKeys) \in Nat /\ DOMAIN TypeKeys = 1 .. Len(TypeKeys)
  BY DEF StatusKeys, TypeKeys
<1>3. K # {} => byKey \in K /\ byKey # 0
  BY <1>2, FirstIsFound
<1>4. T # {} => byType \in T /\ byType # 0
  BY <1>2, FirstIsFound
<1>5. ASSUME NEW keys, NEW i \in DOMAIN keys, Has(flat, keys[i])
      PROVE  value(keys[i]) \in ToldUnder(flat, keys)
  <2>1. PICK j \in DOMAIN flat : flat[j].key = keys[i] /\ value(keys[i]) = flat[j].value
    BY <1>5, GetFinds
  <2>2. flat[j].key \in ToSet(keys)
    BY <2>1 DEF ToSet
  <2> HIDE DEF value
  <2> QED BY <2>1, <2>2 DEF ToldUnder
<1>6. ASSUME NEW key, ~Has(flat, key) PROVE value(key) = Other
  BY <1>6, GetFinds
<1>7. ASSUME NEW i \in K PROVE Has(flat, StatusKeys[i])
  BY <1>6, <1>7 DEF IsText, Other
<1> HIDE DEF value
<1>8. CASE K # {}
  <2>1. /\ byKey \in K /\ isState(StatusKeys[byKey]) /\ byKey \in 1 .. Len(StatusKeys)
        /\ StatusOf(flat) = value(StatusKeys[byKey]).text
    BY <1>1, <1>3, <1>8
  <2>2. value(StatusKeys[byKey]) \in ToldUnder(flat, StatusKeys)
    BY <1>2, <1>5, <1>7, <2>1
  <2> HIDE DEF K, byKey
  <2> QED BY <2>1, <2>2 DEF Text
<1>9. CASE K = {}
  <2>1. ASSUME NEW state \in CallStates, ToldUnder(flat, StatusKeys) = {Text(state)}
        PROVE  FALSE
    <3>1. PICK j \in DOMAIN flat : flat[j].key \in ToSet(StatusKeys)
      BY <2>1 DEF ToldUnder
    <3>2. PICK i \in 1 .. Len(StatusKeys) : flat[j].key = StatusKeys[i]
      BY <1>2, <3>1 DEF ToSet
    <3>3. Has(flat, StatusKeys[i])
      BY <3>2 DEF Has
    <3>4. value(StatusKeys[i]) = Text(state)
      BY <1>2, <1>5, <2>1, <3>3
    <3>5. isState(StatusKeys[i])
      BY <2>1, <3>4 DEF IsText, Text
    <3> QED BY <1>9, <3>5
  <2>2. StatusOf(flat) # "none" =>
          /\ StatusOf(flat) = "ring" /\ T # {}
          /\ Lower(value(TypeKeys[byType])) \in RingEvents
    BY <1>1, <1>9
  <2>3. T # {} => value(TypeKeys[byType]) \in ToldUnder(flat, TypeKeys)
    BY <1>2, <1>4, <1>5
  <2> QED BY <2>1, <2>2, <2>3
<1> QED BY <1>8, <1>9
=============================================================================
