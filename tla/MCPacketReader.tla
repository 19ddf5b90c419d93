--------------------------- MODULE MCPacketReader ---------------------------
\* The packet reader on requests of a few bytes.
EXTENDS HttpRequests

LowerCase ==
    "Content-Length" :> "content-length" @@ "X-A" :> "x-a" @@ "Basic" :> "basic"
    @@ "100-Continue" :> "100-continue"

\* Two empty strings, as long as nothing is set.
Unset == [user |-> <<>>, password |-> <<>>]

\* A password without a user; credentials whose last group is of one, two and three
\* bytes; a password that is empty, has a colon in it, or the largest byte.
Logins ==
    {[user |-> <<>>, password |-> <<112>>],
     [user |-> <<117, 118, 119>>, password |-> <<>>],
     [user |-> <<117>>, password |-> <<112, ColonByte, 255>>],
     [user |-> <<0, 195, 188>>, password |-> <<254, 1>>]}

FirstXHeaders == XAssign(XAssign(NoXHeaders, "X-A", "1"), "x-b", "1")
LaterXHeaders == XAssign(NoXHeaders, "x-a", "2")

\* Clients with every combination of the other settings, and one with each login.
Clients ==
    [auth : {Unset}, xheaders : {NoXHeaders, FirstXHeaders},
     callXheaders : {NoXHeaders, LaterXHeaders}, keep : BOOLEAN]
    \cup
    [auth : Logins, xheaders : {FirstXHeaders}, callXheaders : {LaterXHeaders}, keep : {TRUE}]

\* Good and bad headers of others: lengths that are none, zero, large, too large
\* or no number; expectations; content types; methods; a line without a colon.
Optional(n, values) == {<<>>} \cup {<<Line(n, v)>> : v \in values}

Texts(len) ==
    {[words |-> <<method, "/">>, lines |-> rest \o length] :
        method \in {"POST", "GET"},
        rest \in Optional("Expect", {"100-Continue"})
                 \cup Optional("expect", {"100-Continue", "200-ok"})
                 \cup Optional("content-type", {"text/plain"})
                 \cup {<<[name |-> "Content-Length", value |-> "", colon |-> FALSE]>>},
        length \in {<<Line("Content-Length", Number(len))>>}}

BadLengths ==
    {[words |-> <<"POST", "/">>, lines |-> l] :
        l \in Optional("content-length", {Number(10), [text |-> "-1"]})}

Levels == {Weak, Strict}

ClientRequests ==
    {Built(lev, c, 3, len) : lev \in Levels, c \in Clients, len \in {1, 3}}

OtherRequests ==
    UNION {{Foreign(lev, t, size, len) : lev \in Levels, t \in Texts(len)} :
              size \in {2, 3}, len \in {0, 1, 3}}
    \cup {Foreign(Weak, t, size, 0) : t \in BadLengths, size \in {2, 3}}

SmallRequests == ClientRequests \cup OtherRequests
=============================================================================
