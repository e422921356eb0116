----------------------------- MODULE PushEvents -----------------------------
(***************************************************************************)
(* What isapi/webhook.py makes of a pushed event: xml_to_dict in full, and *)
(* the search for keys at any depth.                                       *)
(***************************************************************************)
EXTENDS Answers

Put(items, key, value) ==
  IF Has(items, key)
    THEN [i \in DOMAIN items |->
            IF items[i].key = key THEN Item(key, value) ELSE items[i]]
    ELSE Append(items, Item(key, value))

\* Attributes join the value of their element; the text of a leaf that has
\* some moves to "#text".
WithAttributes(node, value) ==
  LET keys == SetToSeq(DOMAIN node.attrs)
  IN  IF keys = <<>> THEN value
      ELSE Dict((IF IsDict(value) THEN value.items
                 ELSE IF value.text = "" THEN <<>>
                 ELSE <<Item("#text", value)>>)
                \o [i \in DOMAIN keys |-> Item(keys[i], Text(node.attrs[keys[i]]))])

\* A repeated tag becomes a list.
AddChild_Last(items, key, value) == Put(items, key, value)
AddChild(items, key, value) ==
  LET old == Get(items, key, Other)
  IN  Put(items, key, IF ~Has(items, key) THEN value
                      ELSE IF IsList(old) THEN List(Append(old.items, value))
                      ELSE List(<<old, value>>))

RECURSIVE NodeToValue(_)
NodeToValue(node) ==
  IF ~HasChildren(node) THEN Text(node.text)
  ELSE Dict(FoldLeft(LAMBDA items, child :
                       AddChild(items, child.tag,
                                WithAttributes(child, NodeToValue(child))),
                     <<>>, node.children))

XmlToDict(root) == Dict(<<Item(root.tag, NodeToValue(root))>>)

\* _flatten: what is neither dict nor list, at any depth of dicts, in order; of
\* several with one key, Get takes the first, as setdefault does.
Flatten_TopOnly(v) ==
  SelectSeq(IF IsDict(v) THEN v.items ELSE <<>>,
            LAMBDA item : ~(IsDict(item.value) \/ IsList(item.value)))
RECURSIVE Flatten(_)
Flatten(v) ==
  CASE IsDict(v) -> FoldLeft(LAMBDA out, item :
                               out \o (IF IsDict(item.value) \/ IsList(item.value)
                                         THEN Flatten(item.value) ELSE <<item>>),
                             <<>>, v.items)
    [] IsList(v) -> FoldLeft(LAMBDA out, item : out \o Flatten(item), <<>>, v.items)
    [] OTHER     -> <<>>

\* call_status of the event, or "none".  The payload is what json.loads or
\* XmlToDict returns; a body that does not parse has none.
ParsePushEvent(payload) == StatusOf(Flatten(payload))

------------------------------------------------------------------------------
(* Reference definitions.                                                  *)

\* Every leaf of a payload, at any depth.
RECURSIVE Leaves(_)
Leaves(v) ==
  IF ~(IsDict(v) \/ IsList(v)) THEN {}
  ELSE UNION {LET below == IF IsDict(v) THEN v.items[i].value ELSE v.items[i]
              IN  IF IsDict(below) \/ IsList(below) THEN Leaves(below)
                  ELSE IF IsDict(v) THEN {v.items[i]} ELSE {}
              : i \in DOMAIN v.items}

Told(payload, keys) ==
  {leaf.value : leaf \in {l \in Leaves(payload) : l.key \in ToSet(keys)}}
=============================================================================
