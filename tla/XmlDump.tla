------------------------------- MODULE XmlDump -------------------------------
(***************************************************************************)
(* How a message is written as XML: dump_request() (request.cc),           *)
(* dump_response() (response.cc) over Value_type_to_xml                    *)
(* (value_type_xml.cc) and XmlBuilder, as the events an XML reader will    *)
(* find in the text they produce.                                          *)
(***************************************************************************)
EXTENDS XmlParser, SequencesExt

CONSTANTS Levels,         \* Levels[n]: values made of values of lower levels
          Blank,          \* texts of white space only: no event of type text
          OmitStringTag   \* Value::omit_string_tag_in_responses()

\* The values messages are made of.
Values == UNION {Levels[n] : n \in DOMAIN Levels}

TagOf == [INT |-> "i4", INT64 |-> "i8", BOOL |-> "boolean", DOUBLE |-> "double",
          STRING |-> "string", BINARY |-> "base64", TIME |-> "dateTime.iso8601"]

IsValue(v, parts) ==
    \/ v = Nil
    \/ v.type \in DOMAIN TagOf /\ v.text \in STRING /\ v = Scalar(v.type, v.text)
    \/ v = ArrayOf(v.items) /\ v.items \in Seq(parts)
    \/ /\ v = StructOf(v.fields) /\ v.fields \in [DOMAIN v.fields -> parts]
       /\ DOMAIN v.fields \subseteq STRING /\ IsFiniteSet(DOMAIN v.fields)

ASSUME ValuesAssumption ==
    /\ Len(Levels) \in Nat /\ DOMAIN Levels = 1..Len(Levels)
    /\ \A n \in DOMAIN Levels : \A v \in Levels[n] :
          IsValue(v, UNION {Levels[m] : m \in 1..(n - 1)})
    /\ Blank \subseteq STRING /\ OmitStringTag \in BOOLEAN

-----------------------------------------------------------------------------
\* Sequences one after the other: of the last k of them, and of all.
Endings(parts) ==
    LET n == Len(parts)
        last[k \in 0..n] == IF k = 0 THEN <<>> ELSE parts[n + 1 - k] \o last[k - 1]
    IN  last
Joined(parts) == Endings(parts)[Len(parts)]

\* XmlBuilder::Node: an element; one without content is written as empty.
Node(tag, content) ==
    IF content = <<>> THEN <<Empty(tag)>> ELSE <<Begin(tag)>> \o content \o <<End(tag)>>

\* XmlBuilder::add_textdata(): text, escaped.
TextData(str) == IF str = "" THEN <<>> ELSE IF str \in Blank THEN <<Space>> ELSE <<Text(str)>>

TextNode(tag, str) == Node(tag, TextData(str))

\* A Value_type_to_xml in or out of server mode: what it writes of v into <value>,
\* when xml[w] is what it writes of a part w.
Content(v, xml, server) ==
    CASE v.type = "NIL" -> Node("nil", <<>>)
      [] v.type = "ARRAY" ->
            Node("array", Node("data", Joined([i \in DOMAIN v.items |-> xml[v.items[i]]])))
      [] v.type = "STRUCT" ->
            LET names == SetToSeq(DOMAIN v.fields)
                member(n) == Node("member", TextNode("name", n) \o xml[v.fields[n]])
            IN  Node("struct", Joined([i \in DOMAIN names |-> member(names[i])]))
      [] v.type = "STRING" /\ server /\ OmitStringTag -> TextData(v.text)
      [] OTHER -> TextNode(TagOf[v.type], v.text)

\* Value::apply_visitor()
ValueXml(server) ==
    LET xml[v \in Values] == Node("value", Content(v, xml, server)) IN xml

DumpRequest(name, params) ==
    LET param(v) == Node("param", ValueXml(FALSE)[v]) IN
    Node("methodCall",
         TextNode("methodName", name)
         \o Node("params", Joined([i \in DOMAIN params |-> param(params[i])])))

DumpResponse(v) ==
    Node("methodResponse", Node("params", Node("param", ValueXml(TRUE)[v])))

FaultOf(code, str) == StructOf([faultCode   |-> Scalar("INT", code),
                                faultString |-> Scalar("STRING", str)])
DumpFault(code, str) ==
    Node("methodResponse", Node("fault", ValueXml(TRUE)[FaultOf(code, str)]))

-----------------------------------------------------------------------------
\* A message, as the parser of its kind gives it.
IsMessage(kind, m) ==
    /\ m = [name |-> m.name, params |-> m.params, fault |-> m.fault]
    /\ \/ /\ kind = "Request" /\ m.name \in STRING \ {Absent}
          /\ m.params \in Seq(Values) /\ m.fault = <<>>
       \/ /\ kind = "Response" /\ m.name = Absent
          /\ m.params \in Seq(Values) /\ Len(m.params) = 1 /\ m.fault = <<>>
       \/ /\ kind = "Response" /\ m.name = Absent
          /\ m.params = <<>> /\ m.fault \in Seq(STRING) /\ Len(m.fault) = 2
          /\ FaultOf(m.fault[1], m.fault[2]) \in Values

Dumped(kind, m) ==
    IF kind = "Request" THEN DumpRequest(m.name, m.params)
    ELSE IF m.fault = <<>> THEN DumpResponse(m.params[1])
    ELSE DumpFault(m.fault[1], m.fault[2])

\* A document with a meaning is what the library writes of it.
ASSUME WrittenAssumption ==
    \A d \in Docs : d.msg # <<>> =>
        IsMessage(d.kind, d.msg) /\ d.events = Dumped(d.kind, d.msg)

Doc(kind, events, msg) ==
    [kind |-> kind, events |-> events, msg |-> msg, rootEnd |-> Len(events)]
Written(kind, msg) == Doc(kind, Dumped(kind, msg), msg)

RequestDoc(name, params) ==
    Written("Request", [name |-> name, params |-> params, fault |-> <<>>])
ResponseDoc(v) == Written("Response", [name |-> Absent, params |-> <<v>>, fault |-> <<>>])
FaultDoc(code, str) ==
    Written("Response", [name |-> Absent, params |-> <<>>, fault |-> <<code, str>>])

\* Messages of whose texts nothing is lost: no nil, nothing blank, no member without
\* a name, and texts that convert to the types of their values.
Plain ==
    /\ \A v \in Values :
          /\ v.type # "NIL"
          /\ v.type \in DOMAIN TagOf =>
                /\ v.text \in Legal[v.type] \ Blank
                /\ v.text = "" => v.type \in {"STRING", "BINARY"}
          /\ DOMAIN v.fields \cap (Blank \cup {""}) = {}
    /\ \A d \in Docs : d.msg # <<>> => d.msg.name \notin Blank
=============================================================================
