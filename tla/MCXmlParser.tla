----------------------------- MODULE MCXmlParser -----------------------------
\* The parser on what the library writes, and on documents near to it.
EXTENDS XmlDump

Texts == {"", "s", "1", "d", " "}
LegalTexts == [type \in DOMAIN TagOf |->
                 CASE type = "STRING" -> Texts
                   [] type = "BINARY" -> {"", "d"}
                   [] type = "TIME"   -> {"d"}
                   [] OTHER           -> {"1"}]
BlankTexts == {" "}

Leaves == {EmptyString, Scalar("STRING", "s"), Scalar("INT", "1")}
OneOfEach == {Scalar(type, "1") : type \in {"INT", "INT64", "BOOL", "DOUBLE"}}
             \cup {Scalar("BINARY", ""), Scalar("BINARY", "d"), Scalar("TIME", "d")}

Structs(V, names) == {StructOf(f) : f \in UNION {[S -> V] : S \in SUBSET names}}
Arrays(V, n)      == {ArrayOf(s) : s \in BoundedSeq(V, n)}

Level1 == Leaves \cup Arrays(Leaves, 2) \cup Structs(Leaves, {"a", "b"})
Corner == {EmptyString, Scalar("INT", "1"), ArrayOf(<<>>), StructOf(<<>>),
           ArrayOf(<<Scalar("INT", "1")>>), StructOf("a" :> Scalar("STRING", "s"))}
Level2 == Arrays(Corner, 2) \cup Structs(Corner, {"a", "b"})
Faults == {"", "s"}
Deepest == ArrayOf(<<StructOf(<<>>), Scalar("INT64", "1")>>)

\* The values of AllDocs, by how deep they are.
LevelsOf == <<Leaves \cup OneOfEach,
              Level1 \cup {FaultOf("1", str) : str \in Faults},
              Level2 \cup {Deepest},
              {StructOf("a" :> Deepest)}>>

WrittenDocs ==
    {RequestDoc("m", params) : params \in BoundedSeq(Level1, 2) \cup BoundedSeq(Leaves, 3)}
    \cup {RequestDoc("m", <<v, Scalar("INT", "1")>>) : v \in Level2 \cup OneOfEach}
    \cup {ResponseDoc(v) : v \in Level1 \cup Level2 \cup OneOfEach}
    \cup {FaultDoc("1", str) : str \in Faults}

-----------------------------------------------------------------------------
\* Documents near to a written one, still well-formed XML unless cut short.
Samples ==
    {RequestDoc("m", <<Scalar("INT", "1"), ArrayOf(<<Scalar("STRING", "s"), EmptyString>>)>>),
     RequestDoc("m", <<StructOf(("a" :> Scalar("INT", "1")) @@ ("b" :> EmptyString))>>),
     ResponseDoc(StructOf("a" :> Deepest)),
     FaultDoc("1", "s")}

Tags == ({t[2] : t \in UNION {Transitions[k] : k \in Kinds}} \ {"nil"}) \cup {"other"}

Opens(e) == e.ev = "begin" /\ ~e.empty
EndOf(events, i) ==
    CHOOSE j \in i..Len(events) :
        /\ \A k \in i..(j - 1) :
              Len(SelectSeq(SubSeq(events, i, k), Opens)) >
              Len(SelectSeq(SubSeq(events, i, k), LAMBDA e : e.ev = "end"))
        /\ Len(SelectSeq(SubSeq(events, i, j), Opens)) =
           Len(SelectSeq(SubSeq(events, i, j), LAMBDA e : e.ev = "end"))

Renamed(s, i, tag) == [s EXCEPT ![i].str = tag, ![EndOf(s, i)].str = tag]
Unwrapped(s, i)    == RemoveAt(RemoveAt(s, EndOf(s, i)), i)
CutOut(s, i)       == SubSeq(s, 1, i - 1) \o SubSeq(s, EndOf(s, i) + 1, Len(s))
Inserted1(s, i, e) == SubSeq(s, 1, i) \o <<e>> \o SubSeq(s, i + 1, Len(s))

Near(s) ==
    LET begins == {i \in DOMAIN s : s[i].ev = "begin"}
    IN  {Renamed(s, i, tag) : i \in begins, tag \in Tags}
        \cup {Unwrapped(s, i) : i \in {j \in begins : j > 1 /\ ~s[j].empty}}
        \cup {CutOut(s, i) : i \in begins \ {1}}
        \cup {Inserted1(s, i, e) : i \in 1..(Len(s) - 1),
                 e \in {Text("s"), Text("1"), Space, Empty("value"), Empty("struct"),
                        Empty("name"), Empty("data")}}
        \cup {Append(SubSeq(s, 1, i), Bad) : i \in 0..(Len(s) - 1)}

NearDocs == UNION {{Doc(d.kind, s, <<>>) : s \in Near(d.events)} : d \in Samples}
            \cup {[d EXCEPT !.events = Append(@, Bad), !.msg = <<>>] : d \in Samples}

AllDocs == WrittenDocs \cup NearDocs

\* These are messages the theorem on RoundTrip speaks of.
ASSUME Levels = LevelsOf => Plain

-----------------------------------------------------------------------------
\* Messages with nil in them.
WithNil == Leaves \cup {Nil}
NilHolders == Arrays(WithNil, 2) \cup Structs(WithNil, {"a", "b"})
NilLevels == <<WithNil, NilHolders>>
NilDocs ==
    {RequestDoc("m", params) : params \in BoundedSeq(WithNil, 3)}
    \cup {ResponseDoc(v) : v \in NilHolders}
=============================================================================
