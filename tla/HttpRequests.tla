---------------------------- MODULE HttpRequests ----------------------------
(***************************************************************************)
(* Packet_reader on requests that have a header: those of this library's   *)
(* clients, and those of others.                                           *)
(***************************************************************************)
EXTENDS PacketReader, HttpHeader

\* The request with this text and `len' bytes of content as the reader meets it,
\* at the server's verification level; `size' stands for the length of the text,
\* and `from' has the settings of the client when it is one of this library's.
\* A header that is refused has content of some length all the same.
Read(from, level, text, size, len) ==
    LET h == RequestHeader(level, text)
        declared == h.error # "none" \/ Exists(h.options, "content-length")
    IN  [from |-> from, level |-> level, text |-> text,
         head |-> size, length |-> IF declared THEN len ELSE 0,
         good |-> h.error = "none", declared |-> declared,
         expect |-> ExpectContinue(h.options), options |-> h.options, error |-> h.error]

\* What a client of this library sends.
Built(level, client, size, len) ==
    Read({client}, level, ClientText(client, len), size, len)

\* What another client sends.
Foreign(level, text, size, len) == Read({}, level, text, size, len)

\* What a user can set: a name and a password in bytes, of which the name has no
\* colon and both are empty unless set; and X-headers, whose names XAssign has put
\* in lower case.
Settings(client) ==
    /\ client.auth \in [user : Seq(Byte \ {ColonByte}), password : Seq(Byte)]
    /\ DOMAIN client.xheaders \subseteq XNames \ DOMAIN Lower
    /\ DOMAIN client.callXheaders \subseteq XNames \ DOMAIN Lower
    /\ IsFiniteSet(DOMAIN client.xheaders) /\ IsFiniteSet(DOMAIN client.callXheaders)
    /\ client.keep \in BOOLEAN

\* Every request is what is read of its text, and those of a client of this
\* library are built from settings, with content its length has room for.
ASSUME HeadersAssumption ==
    \A r \in Requests :
        /\ r = Read(r.from, r.level, r.text, r.head, r.length)
        /\ \A client \in r.from :
              /\ Settings(client)
              /\ r.text = ClientText(client, r.length)
              /\ r.length <= MaxUnsigned

-----------------------------------------------------------------------------
\* What a client reads of the answer to each error.
Refusals == [error \in DOMAIN Codes |-> ResponseHeader(Weak, ErrorText(error))]

-----------------------------------------------------------------------------
\* The credentials a client was told to use: none without a user name.
CredentialsOf(client) == IF client.auth.user = <<>> THEN NoCredentials ELSE client.auth

\* A server of any verification level takes what a client of this library sends
\* for what the client was told: its credentials, whether to keep the connection,
\* the X-headers of the call in the place of the client's own, and no less of the
\* content (client_conn.cc:19-38, server_conn.cc:34, server.cc:151-204).  A client
\* without a user name has no credentials, even with a password (client_opts.h:36);
\* a user name ends at its first colon.
RequestUnderstood ==
    \A client \in request.from :
        /\ request.good /\ request.declared
        /\ phase = "executing" =>
              /\ GetAuthinfo(request.options) = CredentialsOf(client)
              /\ ConnKeepAlive(request.options) = client.keep
              /\ XHeadersOf(Dump(request.options))
                    = Over(client.callXheaders, client.xheaders)
              /\ ContentLength(request.options) = pos - HeaderSize(request)

\* A client takes the answer to a bad header for a complete response with the code
\* of the error, on a connection that is not kept (http_server.cc:97-103,
\* http_errors.h, client_conn.cc:41-48).
RefusalUnderstood ==
    phase = "error" /\ ~request.good =>
        LET h == Refusals[request.error] IN
        /\ h.error = "none"
        /\ h.code = Codes[request.error]
        /\ ContentLength(h.options) = 0 /\ ~ConnKeepAlive(h.options)

HeadersUnderstood == RequestUnderstood /\ RefusalUnderstood
=============================================================================
