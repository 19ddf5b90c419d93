----------------------------- MODULE HttpHeader -----------------------------
(***************************************************************************)
(* Header, Request_header and Response_header (http.cc), XHeaders          *)
(* (xheaders.cc), and the packet a client builds (client_conn.cc).         *)
(*                                                                         *)
(* The text of a header is the words of its first line and the lines that  *)
(* follow, each a name and a value.  Option names and values are strings   *)
(* of which only the case is looked into (Lower); a number, and the two    *)
(* words of an Authorization, are records.  A user and a password are      *)
(* sequences of bytes, which travel in base64.                             *)
(***************************************************************************)
EXTENDS Integers, SequencesExt, Conversions

CONSTANTS
    Lower,         \* what boost::to_lower makes of a name that is not in lower case
    XNames,        \* the names that begin with "X-" or "x-"
    XmlTypes,      \* the content types that mention text/xml
    Continues,     \* the expectations that begin with 100-continue
    MaxUnsigned    \* the largest unsigned int

\* The options the library has names for, and one more it writes (http.cc:24-34, http_errors.h:32-40).
KnownNames == {"connection", "host", "user-agent", "authorization", "content-length",
             "content-type", "date", "server", "expect", "allowed"}

\* Lower case names are names in lower case that begin as they did.
ASSUME HeaderAssumption ==
    /\ \A n \in DOMAIN Lower :
          /\ Lower[n] \notin DOMAIN Lower
          /\ Lower[n] \in XNames <=> n \in XNames
    /\ KnownNames \cap (DOMAIN Lower \cup XNames) = {}
    /\ "Basic" \in DOMAIN Lower /\ Lower["Basic"] = "basic"
    /\ "text/xml" \in XmlTypes \ DOMAIN Lower
    /\ MaxUnsigned \in Nat

Weak   == "HTTP_CHECK_WEAK"
Strict == "HTTP_CHECK_STRICT"

ToLower(n) == IF n \in DOMAIN Lower THEN Lower[n] ELSE n
Number(n)  == [number |-> n]

-----------------------------------------------------------------------------
(* Options: a map from names to values. *)

One(n, v) == [m \in {n} |-> v]

\* The options of `some', and of `others' those it does not have.
Over(some, others) ==
    [n \in DOMAIN some \cup DOMAIN others |->
        IF n \in DOMAIN some THEN some[n] ELSE others[n]]

SetOption(options, n, v)        == Over(One(n, v), options)
SetOptionDefault(options, n, v) == Over(options, One(n, v))

\* Header::Header().
NoOptions == One("connection", "close")

SetContentLength(options, len) ==
    LET counted == SetOption(options, "content-length", Number(len)) IN
    IF len = 0 THEN counted ELSE SetOption(counted, "content-type", "text/xml")

SetConnKeepAlive(options, keep) ==
    SetOption(options, "connection", IF keep THEN "keep-alive" ELSE "close")

Exists(options, n)     == n \in DOMAIN options
ConnKeepAlive(options) == options["connection"] = "keep-alive"
ExpectContinue(options) == Exists(options, "expect")
ContentLength(options) == options["content-length"].number

\* Options from lines: a name in any case, and the last line of a name counts.
Assigned(lines) ==
    LET named(n) == {i \in DOMAIN lines : ToLower(lines[i].name) = n} IN
    [n \in {ToLower(lines[i].name) : i \in DOMAIN lines} |->
        lines[CHOOSE i \in named(n) : \A j \in named(n) : j <= i].value]

-----------------------------------------------------------------------------
(* X-headers *)

NoXHeaders == <<>>

\* operator[](name) = value: an Error_xheader is the user's to handle.
XAssign(xheaders, n, v) ==
    IF n \in XNames THEN SetOption(xheaders, ToLower(n), v) ELSE xheaders

\* operator=(map): those of the map's entries that are X-headers.
XHeadersOf(lines) ==
    LET all == Assigned(lines) IN [n \in DOMAIN all \cap XNames |-> all[n]]

\* Mutant: map::insert(), which keeps what is there.
InsertXHeaders(options, xheaders) == Over(options, xheaders)

\* set_xheaders(): a later one replaces an earlier one.
SetXHeaders(options, xheaders) == Over(xheaders, options)

-----------------------------------------------------------------------------
(* Authorization *)

ColonByte == 58

\* set_authinfo(): "Basic", and `user:password' in base64.
SetAuthinfo(options, user, password) ==
    SetOption(options, "authorization",
              [words |-> <<"Basic", [base64 |-> Encode(user \o <<ColonByte>> \o password)]>>])

Refused(why)  == [refused |-> why]
NoCredentials == Refused("absent")

\* What is left and right of the first colon, the password being empty without one.
Credentials(data) ==
    LET colons == {i \in DOMAIN data : data[i] = ColonByte}
        cut    == IF colons = {} THEN Len(data) + 1
                  ELSE CHOOSE i \in colons : \A j \in colons : i <= j
    IN  [user |-> SubSeq(data, 1, cut - 1), password |-> SubSeq(data, cut + 1, Len(data))]

\* get_authinfo(): Unauthorized without one, or with another scheme or number of
\* words; Malformed_base64 from the decoder.
GetAuthinfo(options) ==
    IF ~Exists(options, "authorization") THEN NoCredentials
    ELSE LET words == options["authorization"].words IN
         IF Len(words) # 2 THEN Refused("illformed")
         ELSE IF ToLower(words[1]) # "basic" THEN Refused("illformed")
         ELSE IF Decode(words[2].base64) = {} THEN Refused("notbase64")
         ELSE Credentials(CHOOSE bytes \in Decode(words[2].base64) : TRUE)

-----------------------------------------------------------------------------
(* Reading *)

\* The validators registered for the level: what they throw, or "none".
Validated(level, n, v) ==
    IF n = "content-length"
       /\ ~("number" \in DOMAIN v /\ v.number \in 0..MaxUnsigned)
    THEN "Malformed_packet"
    ELSE IF n = "expect" /\ ToLower(v) \notin Continues
    THEN "Expectation_failed"
    ELSE IF n = "content-type" /\ level = Strict /\ ToLower(v) \notin XmlTypes
    THEN "Unsupported_content_type"
    ELSE "none"

\* What a line throws: it must have a colon, too.
LineError(level, line) ==
    IF line.colon THEN Validated(level, ToLower(line.name), line.value) ELSE "Malformed_packet"

\* parse(): the lines up to the first that throws.
Parse(level, lines) ==
    LET refused == {i \in DOMAIN lines : LineError(level, lines[i]) # "none"}
        first   == CHOOSE i \in refused : \A j \in refused : i <= j
    IN  IF refused = {}
        THEN [error |-> "none", options |-> Over(Assigned(lines), NoOptions)]
        ELSE [error   |-> LineError(level, lines[first]),
              options |-> Over(Assigned(SubSeq(lines, 1, first - 1)), NoOptions)]

\* Request_header(level, text): options first, the method afterwards.
RequestHeader(level, text) ==
    LET h == Parse(level, text.lines) IN
    IF h.error # "none" THEN h
    ELSE IF text.words[1] # "POST" THEN [h EXCEPT !.error = "Method_not_allowed"]
    ELSE [h EXCEPT !.options =
             SetOptionDefault(SetOptionDefault(@, "host", ""), "user-agent", "unknown")]

\* Response_header(level, text): the code is 0 when it is no number, the phrase is
\* the first word of the one that was sent.
ResponseHeader(level, text) ==
    LET h == Parse(level, text.lines) IN
    IF h.error # "none" THEN h
    ELSE IF Len(text.words) < 2 THEN [h EXCEPT !.error = "Malformed_packet"]
    ELSE [error   |-> "none",
          options |-> SetOptionDefault(h.options, "server", "unknown"),
          code    |-> IF "number" \in DOMAIN text.words[2] THEN text.words[2].number ELSE 0]

-----------------------------------------------------------------------------
(* Writing *)

\* dump(): one line for each option.
Line(n, v) == [name |-> n, value |-> v, colon |-> TRUE]
Dump(options) ==
    FoldSet(LAMBDA n, lines : Append(lines, Line(n, options[n])), <<>>, DOMAIN options)

\* has_authinfo(): an empty user name, which is the default, is no credentials,
\* whatever the password.
HasAuthinfo(auth) == auth.user # <<>>

\* process_session(): what a call of a client puts before its request.
ClientOptions(client, len) ==
    LET named == SetOption(SetOption(NoOptions, "host", "vhost"), "user-agent", "iqxmlrpc")
        authorized == IF HasAuthinfo(client.auth)
                      THEN SetAuthinfo(named, client.auth.user, client.auth.password)
                      ELSE named
        extended == SetXHeaders(SetXHeaders(authorized, client.xheaders), client.callXheaders)
    IN  SetConnKeepAlive(SetContentLength(extended, len), client.keep)

ClientText(client, len) ==
    [words |-> <<"POST", "/RPC", "HTTP/1.0">>, lines |-> Dump(ClientOptions(client, len))]

\* Response_header(code, phrase): "date" and "server" have values of their own.
ResponseOptions ==
    SetOption(SetOption(NoOptions, "date", "now"), "server", "iqxmlrpc")

\* What an exception of reading a header is answered with (read_request() makes a
\* Bad_request of a Malformed_packet).
Codes == [Malformed_packet |-> 400, Method_not_allowed |-> 405,
          Unsupported_content_type |-> 415, Expectation_failed |-> 417]

\* Method_not_allowed has an option named "allowed:", which dump() writes with a
\* second colon, so that it is read as another name and value.
ErrorOptions(error) ==
    IF error = "Method_not_allowed"
    THEN SetOption(ResponseOptions, "allowed", ": POST") ELSE ResponseOptions

\* The error as the server sends it: no content, and the connection not kept.
ErrorText(error) ==
    [words |-> <<"HTTP/1.1", Number(Codes[error]), "phrase">>,
     lines |-> Dump(SetConnKeepAlive(SetContentLength(ErrorOptions(error), 0), FALSE))]
=============================================================================
