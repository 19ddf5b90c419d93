------------------------------ MODULE XmlParser ------------------------------
(***************************************************************************)
(* How a request or a response is read from XML: Parser (parser2.cc) pulls *)
(* events from the XML reader and hands them to a stack of builders.       *)
(*                                                                         *)
(* A builder's build() may be called from inside another builder's         *)
(* visit_element(), so the C++ call stack is a stack of frames; each frame *)
(* counts the elements it believes open and leaves the loop of             *)
(* Parser::parse() when that count returns to zero, when it has its value  *)
(* or at the end of the document.  Which builder gets an end tag depends   *)
(* on those counts alone: no builder compares tags.                        *)
(*                                                                         *)
(* A document is a sequence of events of the XML reader: begin and end of  *)
(* an element (by its local name: tag_name() drops the prefix), text,      *)
(* "space" for what the builders never look at (blank text, comments,      *)
(* CDATA) and "bad" where the reader finds the XML ill-formed.             *)
(***************************************************************************)
EXTENDS Naturals, Sequences, FiniteSets

CONSTANTS Docs,          \* a set of [kind, events, msg, rootEnd] (see RoundTrip)
          Legal,         \* Legal[s]: the texts that convert to the type s
          DefaultInt,    \* Value::set_default_int() and set_default_int64():
          DefaultInt64   \* a text, or Absent

VARIABLES doc,       \* the document being parsed
          reader,    \* Parser::Impl: [pos, curr, back]
          stack,     \* builders, innermost last
          built,     \* what the root builder has collected
          outcome    \* "parsing", "ok", or the exception that ended the parse

vars == <<doc, reader, stack, built, outcome>>

Absent == "absent"

\* A Value_type: its type, its text if scalar, its elements or its members.
Datum(type, text, items, fields) ==
    [type |-> type, text |-> text, items |-> items, fields |-> fields]
Scalar(type, text) == Datum(type, text, <<>>, <<>>)
ArrayOf(items)     == Datum("ARRAY", "", items, <<>>)
StructOf(fields)   == Datum("STRUCT", "", <<>>, fields)
Nil                == Scalar("NIL", "")
EmptyString        == Scalar("STRING", "")
NoValue            == Scalar(Absent, "")      \* a null Value_type*

Begin(tag) == [ev |-> "begin", str |-> tag, empty |-> FALSE]
Empty(tag) == [ev |-> "begin", str |-> tag, empty |-> TRUE]
End(tag)   == [ev |-> "end",   str |-> tag, empty |-> FALSE]
Text(str)  == [ev |-> "text",  str |-> str, empty |-> FALSE]
Space      == [ev |-> "space", str |-> "",  empty |-> FALSE]
Bad        == [ev |-> "bad",   str |-> "",  empty |-> FALSE]
Done       == [ev |-> "done",  str |-> "",  empty |-> FALSE]

\* What the XML reader hands out: of each document a sequence of these, with the
\* end of an element it has called empty left out.
Events == [ev : {"begin", "end", "text", "space", "bad"}, str : STRING, empty : BOOLEAN]

\* How many elements are open after i events.
Nesting(d, i) ==
    Cardinality({j \in 1..i : d.events[j].ev = "begin" /\ ~d.events[j].empty})
    - Cardinality({j \in 1..i : d.events[j].ev = "end"})

\* The elements of a document nest, and all have ended when it ends, unless the
\* reader gives up on it ("bad").  Up to rootEnd the root element is open, except in
\* the prolog, where no element begins.
WellFormed(d) ==
    LET n == Len(d.events) IN
    /\ \A i \in 0..n : Nesting(d, i) >= 0
    /\ n > 0 => Nesting(d, n) = 0 \/ d.events[n].ev = "bad"
    /\ \A i \in 1..(d.rootEnd - 1) :
          Nesting(d, i) = 0 => Nesting(d, i - 1) = 0 /\ d.events[i].ev # "begin"

ASSUME DocsAssumption ==
    \A d \in Docs :
        /\ d.kind \in {"Request", "Response"}
        /\ d.events \in Seq(Events)
        /\ \A i \in DOMAIN d.events : d.events[i].empty => d.events[i].ev = "begin"
        /\ d.rootEnd \in 0..Len(d.events)
        /\ WellFormed(d)

-----------------------------------------------------------------------------
\* The transition tables of the builders' state machines: state, tag, new state.
RequestTable ==
    {<<"NONE", "methodCall", "METHOD_CALL">>, <<"METHOD_CALL", "methodName", "METHOD_NAME">>,
     <<"METHOD_NAME", "params", "PARAMS">>, <<"PARAMS", "param", "PARAM">>,
     <<"PARAM", "value", "VALUE">>, <<"VALUE", "param", "PARAM">>}
ResponseTable ==
    {<<"NONE", "methodResponse", "RESPONSE">>, <<"RESPONSE", "params", "OK_RESPONSE">>,
     <<"OK_RESPONSE", "param", "OK_PARAM">>, <<"OK_PARAM", "value", "OK_PARAM_VALUE">>,
     <<"RESPONSE", "fault", "FAULT_RESPONSE">>,
     <<"FAULT_RESPONSE", "value", "FAULT_RESPONSE_VALUE">>}
ValueTable ==
    {<<"VALUE", "string", "STRING">>, <<"VALUE", "int", "INT">>, <<"VALUE", "i4", "INT">>,
     <<"VALUE", "i8", "INT64">>, <<"VALUE", "boolean", "BOOL">>,
     <<"VALUE", "double", "DOUBLE">>, <<"VALUE", "base64", "BINARY">>,
     <<"VALUE", "dateTime.iso8601", "TIME">>, <<"VALUE", "struct", "STRUCT">>,
     <<"VALUE", "array", "ARRAY">>, <<"VALUE", "nil", "NIL">>}
StructTable ==
    {<<"NONE", "member", "MEMBER">>, <<"MEMBER", "name", "NAME_READ">>,
     <<"NAME_READ", "value", "VALUE_READ">>}
ArrayTable ==
    {<<"NONE", "data", "DATA">>, <<"DATA", "value", "VALUES">>,
     <<"VALUES", "value", "VALUES">>}

Transitions == [Request |-> RequestTable, Response |-> ResponseTable,
                Value |-> ValueTable, Struct |-> StructTable, Array |-> ArrayTable]

\* StateMachine::change(): the moves a tag allows, one at most.
Change(frame, tag) ==
    {t \in Transitions[frame.kind] : t[1] = frame.state /\ t[2] = tag}

Kinds == DOMAIN Transitions

\* A builder at the start of its build(flat): a flat one counts the element its
\* caller has just visited.
Builder(kind, flat) ==
    [kind  |-> kind,
     depth |-> IF flat THEN 1 ELSE 0,
     state |-> IF kind = "Value" THEN "VALUE" ELSE "NONE",
     exit  |-> FALSE,                                    \* want_exit_
     val   |-> CASE kind = "Struct" -> StructOf(<<>>)    \* retval
                 [] kind = "Array"  -> ArrayOf(<<>>)
                 [] OTHER           -> NoValue,
     name  |-> "",                                       \* Struct: name_
     member |-> NoValue]                                 \* Struct: value_

Init ==
    /\ doc \in Docs
    /\ reader = [pos |-> 0, curr |-> Done, back |-> FALSE]
    /\ stack = <<Builder(doc.kind, FALSE)>>
    /\ built = [name |-> Absent, params |-> <<>>, fault |-> <<>>]
    /\ outcome = "parsing"

-----------------------------------------------------------------------------
\* Parser::Impl::read(): the event pushed back, the end of an empty element, or
\* the next event of the document.
Read(r) ==
    IF r.back THEN [r EXCEPT !.back = FALSE]
    ELSE IF r.curr.empty THEN [r EXCEPT !.curr = End(r.curr.str)]
    ELSE IF r.pos = Len(doc.events) THEN [r EXCEPT !.curr = Done]
    ELSE [r EXCEPT !.pos = @ + 1, !.curr = doc.events[r.pos + 1]]

\* Parser::get_data() after the begin tag of a name: the event that follows must
\* be its text, or its end, which is thereby used up.
DataRead(r) == Read(r).curr.ev \in {"text", "end"}
DataText(r) == IF Read(r).curr.ev = "text" THEN Read(r).curr.str ELSE ""

Top == stack[Len(stack)]
Parsing == outcome = "parsing"
Replace(frame) == SubSeq(stack, 1, Len(stack) - 1) \o <<frame>>

Fail(exception) ==
    /\ outcome' = exception
    /\ UNCHANGED <<doc, reader, stack, built>>

\* The builder `frame' has moved to a state in which its tag starts a value.
Starts(frame) ==
    CASE frame.state = "STRUCT" -> "Struct"
      [] frame.state = "ARRAY"  -> "Array"
      [] frame.state \in {"VALUE", "OK_PARAM_VALUE", "FAULT_RESPONSE_VALUE",
                          "VALUE_READ", "VALUES"} -> "Value"
      [] OTHER -> Absent

\* Mutant: sub_build() without its argument.
NeverFlat(frame) == FALSE

\* Which callers of sub_build() pass flat.
IsFlat(frame) ==
    frame.state \in {"STRUCT", "ARRAY", "VALUE", "OK_PARAM_VALUE"}

IsName(frame) == frame.state \in {"METHOD_NAME", "NAME_READ"}

\* The top builder visits the begin of an element: visit_element().
VisitElement ==
    LET r == Read(reader)
        moves == Change(Top, r.curr.str)
    IN  /\ Parsing /\ ~Top.exit /\ r.curr.ev = "begin"
        /\ IF moves = {} THEN Fail("XML_RPC_violation")
           ELSE \E t \in moves :
             LET moved == [Top EXCEPT !.depth = @ + 1, !.state = t[3]] IN
             IF IsName(moved) THEN
                IF ~DataRead(r)
                THEN Fail(IF Read(r).curr.ev = "bad" THEN "Parse_error"
                          ELSE "XML_RPC_violation")
                ELSE /\ reader' = Read(r)
                     /\ stack' = Replace([moved EXCEPT !.name = DataText(r)])
                     /\ built' = IF moved.kind = "Request"
                                 THEN [built EXCEPT !.name = DataText(r)] ELSE built
                     /\ UNCHANGED <<doc, outcome>>
             ELSE /\ reader' = r
                  /\ stack' = CASE t[3] = "NIL" ->
                                      Replace([moved EXCEPT !.val = Nil, !.exit = TRUE])
                                [] Starts(moved) # Absent ->
                                      Append(Replace(moved),
                                             Builder(Starts(moved), IsFlat(moved)))
                                [] OTHER -> Replace(moved)
                  /\ UNCHANGED <<doc, built, outcome>>

-----------------------------------------------------------------------------
\* ValueBuilder::do_visit_element_end(): the value of an element without text.
Emptied(frame) ==
    IF frame.val # NoValue THEN frame.val
    ELSE CASE frame.state \in {"VALUE", "STRING"} -> EmptyString
           [] frame.state = "INT" /\ DefaultInt # Absent -> Scalar("INT", DefaultInt)
           [] frame.state = "INT64" /\ DefaultInt64 # Absent -> Scalar("INT64", DefaultInt64)
           [] frame.state = "BINARY" -> Scalar("BINARY", "")
           [] OTHER -> NoValue

\* Struct::insert(): the new value replaces one of the same name.
Inserted(frame) ==
    LET old == frame.val.fields IN
    StructOf([n \in DOMAIN old \cup {frame.name} |->
                 IF n = frame.name THEN frame.member ELSE old[n]])

\* Mutant: the builder leaves one element early.
ClosedEarly(frame) == [frame EXCEPT !.depth = @ - 1, !.exit = @ \/ frame.depth <= 2]

\* Mutant: the end of an element is counted twice.
ClosedTwice(frame) == [frame EXCEPT !.depth = @ - 2, !.exit = @ \/ frame.depth = 2]

\* visit_element_end(): one element fewer is open; at none the builder leaves.
Closed(frame) == [frame EXCEPT !.depth = @ - 1, !.exit = @ \/ frame.depth = 1]

\* An end tag that is not the top builder's: it is left to its caller.
PushBack ==
    /\ Parsing /\ ~Top.exit
    /\ Read(reader).curr.ev = "end" /\ Top.depth = 0
    /\ reader' = [Read(reader) EXCEPT !.back = TRUE]
    /\ stack' = Replace([Top EXCEPT !.exit = TRUE])
    /\ UNCHANGED <<doc, built, outcome>>

\* The top builder visits the end of an element: visit_element_end().
VisitElementEnd ==
    LET r == Read(reader)
        inMember == Top.kind = "Struct" /\ r.curr.str = "member"
    IN  /\ Parsing /\ ~Top.exit /\ r.curr.ev = "end" /\ Top.depth > 0
        /\ IF \/ Top.kind = "Value" /\ Emptied(Top) = NoValue
              \/ inMember /\ Top.state # "VALUE_READ"
           THEN Fail("XML_RPC_violation")
           ELSE /\ reader' = r
                /\ stack' = Replace(Closed(
                       CASE Top.kind = "Value" -> [Top EXCEPT !.val = Emptied(Top)]
                         [] inMember -> [Top EXCEPT !.val = Inserted(Top), !.state = "NONE"]
                         [] OTHER -> Top))
                /\ UNCHANGED <<doc, built, outcome>>

-----------------------------------------------------------------------------
\* Mutant: every text ends the value.
TypedExit(frame) == TRUE

\* Text directly inside <value> is the whole value.
TextExits(frame) == frame.state = "VALUE"

\* ValueBuilder::do_visit_text(): the text converted to the element's type.
VisitText ==
    LET r == Read(reader)
        type == IF Top.state = "VALUE" THEN "STRING" ELSE Top.state
    IN  /\ Parsing /\ ~Top.exit /\ r.curr.ev = "text" /\ Top.kind = "Value"
        /\ IF r.curr.str \notin Legal[type] THEN Fail("conversion failed")
           ELSE /\ reader' = r
                /\ stack' = Replace([Top EXCEPT !.val = Scalar(type, r.curr.str),
                                                !.exit = TextExits(Top)])
                /\ UNCHANGED <<doc, built, outcome>>

\* Not for a builder: blank text, comments, and text where the builder expects none.
Ignore ==
    LET r == Read(reader)
    IN  /\ Parsing /\ ~Top.exit
        /\ r.curr.ev = "space" \/ (r.curr.ev = "text" /\ Top.kind # "Value")
        /\ reader' = r
        /\ UNCHANGED <<doc, stack, built, outcome>>

IllFormed ==
    /\ Parsing /\ ~Top.exit /\ Read(reader).curr.ev = "bad"
    /\ Fail("Parse_error")

\* Mutant: the loop does not look at `done'.
ReadOn ==
    /\ Parsing /\ ~Top.exit /\ Read(reader).curr.ev = "done"
    /\ reader' = Read(reader)
    /\ UNCHANGED <<doc, stack, built, outcome>>

\* At the end of the document every builder leaves its loop.
EndOfDocument ==
    /\ Parsing /\ ~Top.exit /\ Read(reader).curr.ev = "done"
    /\ reader' = Read(reader)
    /\ stack' = Replace([Top EXCEPT !.exit = TRUE])
    /\ UNCHANGED <<doc, built, outcome>>

-----------------------------------------------------------------------------
\* What each builder does with the value of the sub_build() it has called.  A
\* struct and an array put the empty string for a null pointer.
OrEmpty(v) == IF v = NoValue THEN EmptyString ELSE v

ValueTakes(frame, v)  == [frame EXCEPT !.val = v, !.exit = TRUE]
StructTakes(frame, v) == [frame EXCEPT !.member = OrEmpty(v)]
ArrayTakes(frame, v)  == [frame EXCEPT !.val.items = Append(@, OrEmpty(v))]
RequestTakes(v)       == [built EXCEPT !.params = Append(@, v)]
ResponseTakes(v)      == [built EXCEPT !.params = <<v>>]

\* ResponseBuilder::parse_fault(): a struct of exactly the two members, then
\* their types.
IsFault(v) == v.type = "STRUCT" /\ DOMAIN v.fields = {"faultCode", "faultString"}
FaultTyped(v) == /\ v.fields["faultCode"].type = "INT"
                 /\ v.fields["faultString"].type = "STRING"
FaultTakes(v) == [built EXCEPT !.fault = <<v.fields["faultCode"].text,
                                           v.fields["faultString"].text>>]

\* sub_build() returns to the builder that called it.
SubBuilt ==
    LET v == Top.val
        caller == stack[Len(stack) - 1]
        inFault == caller.state = "FAULT_RESPONSE_VALUE"
    IN  /\ Parsing /\ Top.exit /\ Len(stack) > 1
        /\ IF inFault /\ ~IsFault(v) THEN Fail("XML_RPC_violation")
           ELSE IF inFault /\ ~FaultTyped(v) THEN Fail("Bad_cast")
           ELSE /\ stack' = Append(SubSeq(stack, 1, Len(stack) - 2),
                       CASE caller.kind = "Value"  -> ValueTakes(caller, v)
                         [] caller.kind = "Struct" -> StructTakes(caller, v)
                         [] caller.kind = "Array"  -> ArrayTakes(caller, v)
                         [] OTHER                  -> caller)
                /\ built' = IF inFault THEN FaultTakes(v)
                            ELSE CASE caller.kind = "Request"  -> RequestTakes(v)
                                   [] caller.kind = "Response" -> ResponseTakes(v)
                                   [] OTHER                    -> built
                /\ UNCHANGED <<doc, reader, outcome>>

\* RequestBuilder::get(), ResponseBuilder::get().
RequestComplete  == built.name # Absent
ResponseComplete == built.params # <<>> \/ built.fault # <<>>
Complete == IF Top.kind = "Request" THEN RequestComplete ELSE ResponseComplete

RootBuilt ==
    /\ Parsing /\ Top.exit /\ Len(stack) = 1
    /\ outcome' = IF Complete THEN "ok" ELSE "XML_RPC_violation"
    /\ UNCHANGED <<doc, reader, stack, built>>

Next ==
    \/ VisitElement \/ PushBack \/ VisitElementEnd \/ VisitText \/ Ignore
    \/ IllFormed \/ EndOfDocument \/ SubBuilt \/ RootBuilt

\* One thread runs the loops to their ends.
Spec == Init /\ [][Next]_vars /\ WF_vars(Next)

-----------------------------------------------------------------------------
Outcomes == {"parsing", "ok", "XML_RPC_violation", "Parse_error", "Bad_cast",
             "conversion failed"}

\* The types of the variables.
TypeOK ==
    /\ reader.pos \in 0..Len(doc.events) /\ reader.back \in BOOLEAN
    /\ Len(stack) > 0
    /\ \A i \in DOMAIN stack :
          /\ stack[i].kind \in Kinds /\ stack[i].depth \in Nat
          /\ stack[i].exit \in BOOLEAN
    /\ outcome \in Outcomes

\* The library reads back what it wrote: a document that dump_request() or
\* dump_response() made of a message (msg, else <<>>) is accepted and gives that
\* message.  (parse_request() of dump_request(), parse_response() of
\* dump_response().)
RoundTrip ==
    outcome # "parsing" /\ doc.msg # <<>> =>
        outcome = "ok" /\ built = doc.msg

\* "Added support for (non-standard) Nil datatype" (NEWS:446), which dump_request()
\* writes like any other type: a message with nil in it that is accepted at all
\* is the message that was sent.
AcceptedIsWhatWasSent ==
    outcome = "ok" /\ doc.msg # <<>> => built = doc.msg

\* Whatever the document, a request or response never takes a null pointer for
\* a value: its first copy would follow it.
NoNullTaken == \A i \in DOMAIN built.params : built.params[i] # NoValue

\* A message is accepted only when the whole document was read, up to the end
\* of its root element: no builder mistook an inner end tag for its own.
AcceptedReadToItsEnd ==
    outcome = "ok" => reader.pos >= doc.rootEnd

\* Each element's end goes to one builder: the parse comes to an end, with a
\* message or an exception, in whatever way end tags are pushed back.
ParseEnds == <>(outcome # "parsing")
=============================================================================
