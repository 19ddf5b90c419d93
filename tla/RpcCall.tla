------------------------------ MODULE RpcCall ------------------------------
\* The life of a remote procedure call inside the server: authentication, parsing,
\* dispatch, executor, interceptors, method, answer, and who deletes what on every
\* way out (server.cc, method.cc, executor.cc, dispatcher_manager.cc).  The reactor's
\* thread runs schedule_execute() for one request at a time; with the pool, threads
\* run any number of methods meanwhile, and the application may reconfigure the
\* server whenever the reactor's thread is not inside schedule_execute().
EXTENDS Naturals, Sequences, FiniteSets, SequencesExt

CONSTANTS
    Requests,        \* calls under way; each is used again when it is over
    Interceptors,    \* what the application may push
    Names,           \* method names, "system.listMethods" among them
    Users,           \* user names a client may give; "" may be one
    Plugins,         \* authentication plugins the application may set
    MaxDispatchers,  \* bound on the dispatchers
    None

Introspection == "system.listMethods"

\* authname() of a method for which nobody is authenticated; a user of this name is
\* nobody, too.
Nobody == ""

\* Authorization headers: none, not "Basic" and one word, no base64, or a user.
Credentials == {"absent", "illformed", "notbase64"}

\* No plugin, or which users it accepts and whether anybody else may call.
ASSUME RpcAssumption ==
    /\ Introspection \in Names
    /\ Plugins \subseteq [users : SUBSET Users, anonymous : BOOLEAN]
    /\ MaxDispatchers \in Nat \ {0}
    /\ None \notin Interceptors /\ None \notin Requests
    /\ None \notin Plugins
    /\ Users \cap Credentials = {}
    /\ "method" \notin Interceptors

\* Exceptions by the handler that catches them: http::Error_response, Fault, other
\* iqxmlrpc::Exceptions, other std::exceptions, anything else.
Exceptions == {"http", "fault", "lib", "std", "unknown"}

VARIABLES
    serial,       \* is the executor factory the serial one
    plugin,       \* auth_plugin, or None
    dispatchers,  \* the names each dispatcher knows, the default dispatcher first
    interceptors, \* the outermost interceptor, or None
    nested,       \* what each interceptor wraps
    pushed,       \* history: the interceptors in the order of push_interceptor()
    current,      \* the request in schedule_execute(), or None
    held,         \* what its scoped pointers and its variable `executor' point to
    call,         \* each request, see Calls
    twice         \* history: has anything been deleted twice

config == <<serial, plugin, dispatchers, interceptors, nested, pushed>>
vars == <<serial, plugin, dispatchers, interceptors, nested, pushed, current, held, call, twice>>

Objects == {"packet", "request", "method", "executor"}

\* An answer is a result, a fault with the code of the exception or a general one,
\* or an HTTP error.
Answers == {"result", "own", "app error", "-1", "http"}

\* Where a call is, the exception or "returned" that ended its last part, the name
\* of its user, the frames of the interceptors and of the method (innermost first),
\* the allocated objects, the answers given to the connection; and as history the
\* plugin and the credentials it met and the interceptors pushed when it was set up.
Calls == [pc       : {"idle", "arrived", "authentic", "parsed", "dispatched", "queued",
                      "running", "left", "answered", "retired", "thrown"},
          outcome  : Exceptions \cup {"none", "returned"},
          authname : Users \cup {Nobody},
          active   : Seq(Interceptors \cup {"method"}),
          live     : SUBSET Objects,
          answers  : Seq(Answers),
          met      : {<<>>} \cup ((Plugins \cup {None}) \X (Users \cup Credentials)),
          expected : Seq(Interceptors)]

Idle == [pc |-> "idle", outcome |-> "none", authname |-> Nobody, active |-> <<>>,
         live |-> {}, answers |-> <<>>, met |-> <<>>, expected |-> <<>>]

Init ==
    /\ serial \in BOOLEAN
    /\ plugin = None
    /\ dispatchers = <<{}>>
    /\ interceptors = None
    /\ nested = [i \in Interceptors |-> None]
    /\ pushed = <<>>
    /\ current = None /\ held = {}
    /\ call = [r \in Requests |-> Idle]
    /\ twice = FALSE

At(r, place) == call[r].pc = place

-----------------------------------------------------------------------------
(* The application configures the server.                                   *)

\* fs[name] = fb; registering a name again replaces its factory.
RegisterMethod(n) ==
    /\ dispatchers' = [dispatchers EXCEPT ![1] = @ \cup {n}]
    /\ UNCHANGED <<serial, plugin, interceptors, nested, pushed>>

EnableIntrospection == RegisterMethod(Introspection)

PushDispatcher(names) ==
    /\ Len(dispatchers) < MaxDispatchers
    /\ dispatchers' = Append(dispatchers, names)
    /\ UNCHANGED <<serial, plugin, interceptors, nested, pushed>>

\* Mutant: the new interceptor goes inside the others, that of a running call included.
NestInside(i) ==
    /\ interceptors' = IF interceptors = None THEN i ELSE interceptors
    /\ nested' = [j \in Interceptors |->
                     IF j # i /\ j = Last(<<i>> \o pushed) THEN i ELSE nested[j]]

\* ic->nest(interceptors.release()); interceptors.reset(ic)
Nest(i) ==
    /\ nested' = [nested EXCEPT ![i] = interceptors]
    /\ interceptors' = i

PushInterceptor(i) ==
    /\ i \notin Range(pushed)
    /\ Nest(i)
    /\ pushed' = Append(pushed, i)
    /\ UNCHANGED <<serial, plugin, dispatchers>>

SetAuthPlugin(p) ==
    /\ plugin' = p
    /\ UNCHANGED <<serial, dispatchers, interceptors, nested, pushed>>

Configure ==
    /\ current = None
    /\ \/ \E n \in Names : RegisterMethod(n)
       \/ EnableIntrospection
       \/ \E names \in SUBSET Names \ {{}} : PushDispatcher(names)
       \/ \E i \in Interceptors : PushInterceptor(i)
       \/ \E p \in Plugins : SetAuthPlugin(p)
    /\ UNCHANGED <<current, held, call, twice>>

-----------------------------------------------------------------------------
(* Server::schedule_execute()                                               *)

\* Deleting what does not exist is deleting it twice.
Delete(r, objects) ==
    twice' = (twice \/ ~objects \subseteq call[r].live)

Throws(r, e) == call' = [call EXCEPT ![r].pc = "thrown", ![r].outcome = e]

\* A complete request: the packet is handed to schedule_execute().
Arrive(r) ==
    /\ current = None
    /\ call[r].pc \in {"idle", "retired"}
    /\ current' = r /\ held' = {"packet"}
    /\ call' = [call EXCEPT ![r] = [Idle EXCEPT !.pc = "arrived", !.live = {"packet"}]]
    /\ UNCHANGED <<config, twice>>

\* Mutant: whoever gives no credentials is let in.
AdmittedOpenly(c) ==
    \/ plugin = None
    \/ c = "absent"
    \/ c \in plugin.users

\* What authenticate() lets through.
Admitted(c) ==
    \/ plugin = None
    \/ c = "absent" /\ plugin.anonymous
    \/ c \in plugin.users

\* Mutant: the name is taken before it is known whether there is one.
NameKeptBlindly(c) == IF plugin # None THEN c ELSE Nobody

NameKept(c) == IF plugin # None /\ c \in Users THEN c ELSE Nobody

\* Without a plugin the header is not even looked at.
Authenticate(r) ==
    /\ At(r, "arrived")
    /\ \E c \in Users \cup Credentials :
          IF Admitted(c)
          THEN call' = [call EXCEPT ![r].pc = "authentic", ![r].met = <<plugin, c>>,
                           ![r].authname = NameKept(c)]
          ELSE Throws(r, IF c = "notbase64" THEN "lib" ELSE "http")
    /\ UNCHANGED <<config, current, held, twice>>

\* parse_request(): a Request, or an exception of the parsers.
ParseRequest(r) ==
    /\ At(r, "authentic")
    /\ \/ /\ call' = [call EXCEPT ![r].pc = "parsed", ![r].live = @ \cup {"request"}]
          /\ held' = held \cup {"request"}
       \/ (\E e \in {"lib", "std"} : Throws(r, e)) /\ UNCHANGED held
    /\ UNCHANGED <<config, current, twice>>

\* The first dispatcher that knows the name creates the method (whatever that
\* throws); Unknown_method if there is none.  `meth' owns nothing: until it has an
\* executor nobody would delete the method.
CreateMethod(r) ==
    /\ At(r, "parsed")
    /\ \E n \in Names :
          IF \E d \in DOMAIN dispatchers : n \in dispatchers[d]
          THEN \/ call' = [call EXCEPT ![r].pc = "dispatched", ![r].live = @ \cup {"method"}]
               \/ \E e \in Exceptions : Throws(r, e)
          ELSE Throws(r, "lib")
    /\ UNCHANGED <<config, current, held, twice>>

\* Method::process_execution(): the frame that runs next.
ProcessExecution(ic) == IF ic = None THEN "method" ELSE ic

\* exec_factory->create(), set_interceptors(), execute(): at once, or in the queue
\* of the pool with the parameters copied.
Execute(r) ==
    /\ At(r, "dispatched")
    /\ call' = [call EXCEPT
          ![r].pc = IF serial THEN "running" ELSE "queued",
          ![r].live = @ \cup {"executor"},
          ![r].active = <<ProcessExecution(interceptors)>>,
          ![r].expected = Reverse(pushed)]
    /\ held' = held \cup {"executor"}
    /\ UNCHANGED <<config, current, twice>>

\* The end of the try block: the scoped pointers delete the packet and the request,
\* which a pool thread may have answered already.  What `executor' points to is not
\* deleted, and may not exist any more.
ScheduleExecuteReturns(r) ==
    /\ current = r
    /\ call[r].pc \in IF serial THEN {"retired"}
                      ELSE {"queued", "running", "left", "answered", "retired"}
    /\ current' = None /\ held' = {}
    /\ Delete(r, held \ {"executor"})
    /\ call' = [call EXCEPT ![r].live = @ \ (held \ {"executor"})]
    /\ UNCHANGED config

\* What the four catch clauses answer.
CaughtAnswer(e) ==
    CASE e = "http" -> "http"
      [] e \in {"fault", "lib"} -> "own"
      [] OTHER -> "app error"

\* Mutant: the executor is forgotten when its method has thrown.
AbandonedNoExecutor == held \ {"executor"}

\* What unwinding and the catch clauses delete: what the scoped pointers hold, and the
\* executor with its method, if the variable has been set.
Abandoned == held \cup (IF "executor" \in held THEN {"method"} ELSE {})

ScheduleExecuteCatches(r) ==
    /\ At(r, "thrown")
    /\ call' = [call EXCEPT ![r].pc = "retired",
                            ![r].answers = Append(@, CaughtAnswer(call[r].outcome)),
                            ![r].live = @ \ Abandoned, ![r].met = <<>>,
                            ![r].authname = Nobody]
    /\ Delete(r, Abandoned)
    /\ current' = None /\ held' = {}
    /\ UNCHANGED config

-----------------------------------------------------------------------------
(* The executors, the interceptors and the method.                          *)

\* A pool thread takes the executor and calls the outermost interceptor.
StartInPool(r) ==
    /\ At(r, "queued")
    /\ call' = [call EXCEPT ![r].pc = "running"]
    /\ UNCHANGED <<config, current, held, twice>>

\* An interceptor calls yield(), once, never or repeatedly.
Yield(r) ==
    /\ At(r, "running")
    /\ Head(call[r].active) # "method"
    /\ call' = [call EXCEPT
          ![r].active = <<ProcessExecution(nested[Head(@)])>> \o @]
    /\ UNCHANGED <<config, current, held, twice>>

\* The method or an interceptor returns or throws into the interceptor around it,
\* which may do with that what it likes.
ReturnToInterceptor(r) ==
    /\ At(r, "running")
    /\ Len(call[r].active) > 1
    /\ call' = [call EXCEPT ![r].active = Tail(@)]
    /\ UNCHANGED <<config, current, held, twice>>

\* The outermost of them returns or throws to the executor.
ReturnToExecutor(r) ==
    /\ At(r, "running")
    /\ Len(call[r].active) = 1
    /\ \E e \in Exceptions \cup {"returned"} :
          call' = [call EXCEPT ![r].pc = "left", ![r].active = <<>>, ![r].outcome = e,
                               ![r].met = <<>>, ![r].expected = <<>>]
    /\ UNCHANGED <<config, current, held, twice>>

\* Mutant: a Fault is caught as the std::exception that it is, too.
CatchesFaultLast(e) == IF e = "returned" THEN "result" ELSE "-1"

\* What the executor itself answers.
ExecutorAnswer(e) ==
    CASE e = "returned" -> "result"
      [] e = "fault" -> "own"
      [] OTHER -> "-1"

\* The serial one catches faults only.
Caught == IF serial THEN {"returned", "fault"} ELSE {"returned"} \cup Exceptions

\* Server::schedule_response() puts the answer into the connection.
ExecutorAnswers(r) ==
    /\ At(r, "left")
    /\ call[r].outcome \in Caught
    /\ call' = [call EXCEPT ![r].pc = "answered",
                            ![r].answers = Append(@, ExecutorAnswer(call[r].outcome))]
    /\ UNCHANGED <<config, current, held, twice>>

\* Other exceptions leave Serial_executor::execute().
SerialThrowsOn(r) ==
    /\ At(r, "left")
    /\ call[r].outcome \notin Caught
    /\ call' = [call EXCEPT ![r].pc = "thrown"]
    /\ UNCHANGED <<config, current, held, twice>>

\* At its end schedule_response() deletes the executor, and that its method.
DeleteExecutor(r) ==
    /\ At(r, "answered")
    /\ Delete(r, {"executor", "method"})
    /\ call' = [call EXCEPT ![r].pc = "retired", ![r].live = @ \ {"executor", "method"},
                            ![r].authname = Nobody]
    /\ UNCHANGED <<config, current, held>>

-----------------------------------------------------------------------------
InScheduleExecute(r) ==
    \/ Authenticate(r) \/ ParseRequest(r) \/ CreateMethod(r) \/ Execute(r)
    \/ ScheduleExecuteReturns(r) \/ ScheduleExecuteCatches(r)

InExecutor(r) ==
    \/ StartInPool(r) \/ Yield(r) \/ ReturnToInterceptor(r) \/ ReturnToExecutor(r)
    \/ ExecutorAnswers(r) \/ SerialThrowsOn(r) \/ DeleteExecutor(r)

Next ==
    \/ Configure
    \/ \E r \in Requests : Arrive(r) \/ InScheduleExecute(r) \/ InExecutor(r)

Spec == Init /\ [][Next]_vars

-----------------------------------------------------------------------------
TypeOK ==
    /\ serial \in BOOLEAN
    /\ plugin \in Plugins \cup {None}
    /\ dispatchers \in Seq(SUBSET Names)
    /\ interceptors \in Interceptors \cup {None}
    /\ nested \in [Interceptors -> Interceptors \cup {None}]
    /\ pushed \in Seq(Interceptors)
    /\ current \in Requests \cup {None}
    /\ held \subseteq Objects
    /\ call \in [Requests -> Calls]
    /\ twice \in BOOLEAN

\* Whatever throws, and wherever: nothing of a call is deleted twice, nothing is
\* used after it was deleted (the serial executor reads the parameters of the
\* request, the pool has copied them), and when the call is over nothing is left
\* (server.cc:177-244, executor.cc:25-28, 43-54, 211-230).
Over(r) == call[r].pc \in {"idle", "retired"} /\ current # r

DeletedOnce ==
    /\ ~twice
    /\ \A r \in Requests :
          /\ Over(r) => call[r].live = {}
          /\ At(r, "running") =>
                {"method", "executor"} \cup (IF serial THEN {"request"} ELSE {})
                    \subseteq call[r].live

\* A call is answered once: with a result when and only when the chain of the
\* interceptors has returned, with its own code when a Fault left it, whichever the
\* executor (server.cc:205-231, executor.cc:43-54, 211-230).  Putting an answer into
\* the connection is assumed not to throw: it would be answered again.
AnsweredOnce ==
    \A r \in Requests :
        LET a == call[r].answers
            answered == call[r].pc \in {"answered", "retired"}
        IN  /\ Len(a) = IF answered THEN 1 ELSE 0
            /\ answered => /\ a[1] = "result" <=> call[r].outcome = "returned"
                           /\ call[r].outcome = "fault" => a[1] = "own"

\* "Interceptors are stacked inside of server and are being called in order of LIFO"
\* (method.h:96): the method runs inside all the interceptors that had been pushed
\* when its call was set up, the newest outermost, and in no other, though more are
\* pushed while pool threads run (server.cc:86-90, method.cc:31-38).
InterceptorsNest ==
    \A r \in Requests :
        At(r, "running") =>
            LET frames == Reverse(call[r].active) IN
            IF Last(frames) = "method"
            THEN Front(frames) = call[r].expected
            ELSE IsPrefix(frames, call[r].expected)

\* A method or an interceptor runs only for whom the plugin that was set when the
\* request came has let in, and sees as authname() the user it has accepted, and
\* nobody's name as long as there is none (server.cc:149-175, 195-196, method.h:74).
RunsForAdmitted ==
    \A r \in Requests :
        At(r, "running") =>
            LET p == call[r].met[1]  c == call[r].met[2] IN
            /\ p # None => (c \in p.users \/ (c = "absent" /\ p.anonymous))
            /\ call[r].authname # Nobody => p # None /\ call[r].authname \in p.users
            /\ p # None /\ c \in p.users => call[r].authname = c

=============================================================================
