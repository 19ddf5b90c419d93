---------------------------- MODULE RpcCallProofs ----------------------------
(***************************************************************************)
(* A call is admitted, answered once, nested in its interceptors, and      *)
(* leaves nothing behind: for any number of calls, interceptors, plugins,  *)
(* names and dispatchers.                                                  *)
(*                                                                         *)
(* The invariant says for each place of a call which objects it has        *)
(* (HasObjects), what schedule_execute() holds of them (IsHeld), which     *)
(* answer it has (HasAnswer), who was let in (WasAdmitted) and which frames *)
(* run (HasFrames); and that the linked list of the interceptors is what   *)
(* has been pushed (Chain).  A step is one of the application or changes   *)
(* one call (OneCall).                                                     *)
(***************************************************************************)
EXTENDS RpcCall, TLAPS

\* While schedule_execute() runs, the packet and the request belong to it.
Scoped(q) == IF current = q THEN {"packet", "request"} ELSE {}

HasObjects(q) ==
    LET c == call[q] IN
    /\ c.pc = "idle" => c.live = {} /\ current # q
    /\ c.pc \in {"arrived", "authentic"} => current = q /\ c.live = {"packet"}
    /\ c.pc = "parsed" => current = q /\ c.live = {"packet", "request"}
    /\ c.pc = "dispatched" => current = q /\ c.live = {"packet", "request", "method"}
    /\ c.pc \in {"queued", "running", "left", "answered"} =>
          c.live = Scoped(q) \cup {"method", "executor"} /\ (serial => current = q)
    /\ c.pc = "retired" => c.live = Scoped(q)
    /\ c.pc = "thrown" => current = q

IsHeld(q) ==
    LET c == call[q] IN
    current = q =>
        /\ c.pc \in {"arrived", "authentic"} => held = {"packet"}
        /\ c.pc \in {"parsed", "dispatched"} => held = {"packet", "request"}
        /\ c.pc \in {"queued", "running", "left", "answered", "retired"} =>
              held = {"packet", "request", "executor"}
        /\ c.pc = "thrown" => c.live = Abandoned

HasAnswer(q) ==
    LET c == call[q] IN
    /\ c.pc \notin {"answered", "retired"} => c.answers = <<>>
    /\ c.pc \in {"answered", "retired"} =>
          /\ Len(c.answers) = 1
          /\ c.answers[1] = "result" <=> c.outcome = "returned"
          /\ c.outcome = "fault" => c.answers[1] = "own"
    /\ c.pc = "thrown" => c.outcome \in Exceptions
    /\ c.pc = "left" => c.outcome \in Exceptions \cup {"returned"}

\* What authenticate() has found of plugin p and credentials c.
LetIn(p, c, name) ==
    /\ p # None => (c \in p.users \/ (c = "absent" /\ p.anonymous))
    /\ name # Nobody => p # None /\ name \in p.users
    /\ p # None /\ c \in p.users => name = c

WasAdmitted(q) ==
    LET c == call[q] IN
    c.pc \in {"authentic", "parsed", "dispatched", "queued", "running"} =>
        LetIn(c.met[1], c.met[2], c.authname)

HasFrames(q) ==
    LET n == Len(call[q].expected)
        m == Len(call[q].active)
    IN  call[q].pc \in {"queued", "running"} =>
            /\ n <= Len(pushed)
            /\ \A j \in 1..n : call[q].expected[j] = pushed[n + 1 - j]
            /\ m \in 1..(n + 1)
            /\ \A j \in 1..m :
                  call[q].active[m + 1 - j] = IF j <= n THEN call[q].expected[j] ELSE "method"

Good(q) == HasObjects(q) /\ IsHeld(q) /\ HasAnswer(q) /\ WasAdmitted(q) /\ HasFrames(q)

Chain ==
    /\ interceptors = IF Len(pushed) = 0 THEN None ELSE pushed[Len(pushed)]
    /\ \A i \in 1..Len(pushed) : nested[pushed[i]] = IF i = 1 THEN None ELSE pushed[i - 1]

IInv ==
    /\ TypeOK
    /\ Len(dispatchers) >= 1
    /\ ~twice
    /\ Chain
    /\ \A q \in Requests : Good(q)

-----------------------------------------------------------------------------
LEMMA InitInvariant == Init => IInv
<1> SUFFICES ASSUME Init PROVE IInv
  OBVIOUS
<1>1. Idle \in Calls
  BY DEF Idle, Calls
<1>2. TypeOK
  <2>1. <<{}>> \in Seq(SUBSET Names) /\ <<>> \in Seq(Interceptors)
    OBVIOUS
  <2>2. call \in [Requests -> Calls]
    BY <1>1 DEF Init
  <2> QED
    BY <2>1, <2>2 DEF Init, TypeOK, Objects
<1>3. ASSUME NEW q \in Requests PROVE Good(q)
  <2>1. call[q] = Idle /\ current = None /\ None # q
    BY RpcAssumption DEF Init
  <2> QED
    BY <2>1 DEF Idle, Good, HasObjects, IsHeld, HasAnswer, WasAdmitted, HasFrames
<1>4. Len(dispatchers) >= 1 /\ ~twice /\ Chain
  BY DEF Init, Chain
<1> QED
  BY <1>2, <1>3, <1>4 DEF IInv

\* What the assignments of a step to one call amount to.
LEMMA Assigned ==
    ASSUME IInv, NEW r \in Requests, NEW c \in Calls,
           call' = [call EXCEPT ![r] = c]
    PROVE  /\ call'[r] = c
           /\ call' \in [Requests -> Calls]
           /\ \A q \in Requests : q # r => call'[q] = call[q]
BY DEF IInv, TypeOK

\* A step of one call leaves the others good.
LEMMA OneCall ==
    ASSUME IInv, NEW r \in Requests, UNCHANGED config,
           call' \in [Requests -> Calls],
           \A q \in Requests : q # r => call'[q] = call[q],
           \A q \in Requests : q # r => (current' = q <=> current = q),
           current' \in Requests \cup {None}, twice' = FALSE,
           held' \subseteq Objects, held' = held \/ current = r \/ current' = r,
           Good(r)'
    PROVE  IInv'
<1>1. TypeOK'
  BY DEF IInv, TypeOK, config
<1>2. ASSUME NEW q \in Requests, q # r PROVE Good(q)'
  <2>1. /\ Good(q) /\ call'[q] = call[q] /\ serial' = serial /\ pushed' = pushed
        /\ (current' = q <=> current = q)
    BY <1>2 DEF IInv, config
  <2>2. HasObjects(q)'
    BY <2>1 DEF Good, HasObjects, Scoped
  <2>3. HasAnswer(q)' /\ WasAdmitted(q)' /\ HasFrames(q)'
    BY <2>1 DEF Good, HasAnswer, WasAdmitted, HasFrames
  <2>4. IsHeld(q)'
    <3>1. ASSUME current' = q PROVE held' = held /\ current = q
      BY <1>2, <2>1, <3>1
    <3> QED
      BY <2>1, <3>1 DEF Good, IsHeld, Abandoned
  <2> QED
    BY <2>2, <2>3, <2>4 DEF Good
<1>3. Chain' /\ (Len(dispatchers) >= 1)'
  BY DEF IInv, Chain, config
<1> QED
  BY <1>1, <1>2, <1>3 DEF IInv

-----------------------------------------------------------------------------
(* The application's steps *)

LEMMA ConfigureStep == ASSUME IInv, Configure PROVE IInv'
<1>1. UNCHANGED <<current, held, call, twice>>
  BY DEF Configure
<1>2. serial' = serial
  BY DEF Configure, RegisterMethod, EnableIntrospection, PushDispatcher,
         PushInterceptor, SetAuthPlugin
<1>3. /\ dispatchers' \in Seq(SUBSET Names) /\ Len(dispatchers') >= 1
      /\ plugin' \in Plugins \cup {None}
  <2>1. ASSUME NEW n \in Names, RegisterMethod(n)
        PROVE  dispatchers' \in Seq(SUBSET Names) /\ Len(dispatchers') >= 1
    BY <2>1 DEF IInv, TypeOK, RegisterMethod
  <2>2. ASSUME NEW names \in SUBSET Names, PushDispatcher(names)
        PROVE  dispatchers' \in Seq(SUBSET Names) /\ Len(dispatchers') >= 1
    BY <2>2 DEF IInv, TypeOK, PushDispatcher
  <2>3. Introspection \in Names
    BY RpcAssumption
  <2>4. CASE \/ \E n \in Names : RegisterMethod(n)
             \/ EnableIntrospection
             \/ \E names \in SUBSET Names \ {{}} : PushDispatcher(names)
    <3>1. plugin' = plugin
      BY <2>4 DEF RegisterMethod, EnableIntrospection, PushDispatcher
    <3> QED
      BY <2>1, <2>2, <2>3, <2>4, <3>1 DEF EnableIntrospection, IInv, TypeOK
  <2>5. CASE \/ \E i \in Interceptors : PushInterceptor(i)
             \/ \E p \in Plugins : SetAuthPlugin(p)
    BY <2>5 DEF PushInterceptor, SetAuthPlugin, IInv, TypeOK
  <2> QED
    BY <2>4, <2>5 DEF Configure
<1>4. \/ UNCHANGED <<interceptors, nested, pushed>>
      \/ \E i \in Interceptors : PushInterceptor(i)
  BY DEF Configure, RegisterMethod, EnableIntrospection, PushDispatcher, SetAuthPlugin
<1>5. /\ interceptors' \in Interceptors \cup {None}
      /\ nested' \in [Interceptors -> Interceptors \cup {None}]
      /\ pushed' \in Seq(Interceptors)
      /\ Chain'
      /\ Len(pushed') >= Len(pushed)
      /\ \A j \in 1..Len(pushed) : pushed'[j] = pushed[j]
  <2>1. CASE UNCHANGED <<interceptors, nested, pushed>>
    BY <2>1 DEF IInv, TypeOK, Chain
  <2>2. ASSUME NEW i \in Interceptors, PushInterceptor(i)
        PROVE  <1>5
    <3>1. /\ pushed' = Append(pushed, i) /\ pushed \in Seq(Interceptors)
          /\ nested' = [nested EXCEPT ![i] = interceptors] /\ interceptors' = i
      BY <2>2 DEF PushInterceptor, Nest, IInv, TypeOK
    <3>2. \A j \in 1..Len(pushed) : pushed[j] # i /\ pushed[j] \in Interceptors
      BY <2>2, <3>1 DEF PushInterceptor, Range
    <3>3. /\ Len(pushed') = Len(pushed) + 1 /\ Len(pushed) \in Nat
          /\ pushed'[Len(pushed) + 1] = i
          /\ \A j \in 1..Len(pushed) : pushed'[j] = pushed[j]
      BY <3>1
    <3>4. nested \in [Interceptors -> Interceptors \cup {None}]
      BY DEF IInv, TypeOK
    <3>5. \A j \in 1..Len(pushed') :
             nested'[pushed'[j]] = IF j = 1 THEN None ELSE pushed'[j - 1]
      <4> SUFFICES ASSUME NEW j \in 1..Len(pushed')
                   PROVE  nested'[pushed'[j]] = IF j = 1 THEN None ELSE pushed'[j - 1]
        OBVIOUS
      <4>1. CASE j = Len(pushed) + 1
        BY <4>1, <3>1, <3>3, <3>4 DEF IInv, Chain
      <4>2. CASE j \in 1..Len(pushed)
        <5>1. nested'[pushed'[j]] = nested[pushed[j]]
          BY <4>2, <3>1, <3>2, <3>3, <3>4
        <5> QED
          BY <4>2, <5>1, <3>3 DEF IInv, Chain
      <4> QED
        BY <4>1, <4>2, <3>3
    <3> QED
      BY <3>1, <3>3, <3>4, <3>5 DEF Chain, IInv, TypeOK
  <2> QED
    BY <1>4, <2>1, <2>2
<1>6. ASSUME NEW q \in Requests PROVE Good(q)'
  <2>1. Good(q) /\ call[q] \in Calls
    BY DEF IInv, TypeOK
  <2>2. HasObjects(q)' /\ IsHeld(q)' /\ HasAnswer(q)' /\ WasAdmitted(q)'
    BY <1>1, <1>2, <2>1 DEF Good, HasObjects, IsHeld, Abandoned, Scoped, HasAnswer, WasAdmitted
  <2>3. HasFrames(q)'
    <3>1. Len(call[q].expected) \in Nat
      BY <2>1 DEF Calls
    <3>2. Len(pushed) \in Nat /\ Len(pushed') \in Nat
      BY <1>5 DEF IInv, TypeOK
    <3>3. SUFFICES ASSUME call[q].pc \in {"queued", "running"} PROVE HasFrames(q)'
      BY <1>1 DEF HasFrames
    <3>4. /\ Len(call[q].expected) <= Len(pushed)
          /\ \A j \in 1..Len(call[q].expected) :
                call[q].expected[j] = pushed[Len(call[q].expected) + 1 - j]
      BY <2>1, <3>3 DEF Good, HasFrames
    <3>5. \A j \in 1..Len(call[q].expected) :
             call[q].expected[j] = pushed'[Len(call[q].expected) + 1 - j]
      <4> SUFFICES ASSUME NEW j \in 1..Len(call[q].expected)
                   PROVE  call[q].expected[j] = pushed'[Len(call[q].expected) + 1 - j]
        OBVIOUS
      <4>1. Len(call[q].expected) + 1 - j \in 1..Len(pushed)
        BY <3>1, <3>2, <3>4
      <4> QED
        BY <4>1, <3>4, <1>5
    <3> QED
      BY <1>1, <1>5, <2>1, <3>1, <3>2, <3>3, <3>4, <3>5 DEF Good, HasFrames
  <2> QED
    BY <2>2, <2>3 DEF Good
<1> QED
  BY <1>1, <1>2, <1>3, <1>5, <1>6 DEF IInv, TypeOK

-----------------------------------------------------------------------------
(* schedule_execute() *)

LEMMA ArriveStep == ASSUME IInv, NEW r \in Requests, Arrive(r) PROVE IInv'
<1> DEFINE c == [Idle EXCEPT !.pc = "arrived", !.live = {"packet"}]
<1>1. c \in Calls
  <2>1. Idle \in Calls /\ {"packet"} \in SUBSET Objects
    BY DEF Idle, Calls, Objects
  <2> QED
    BY <2>1 DEF Calls
<1>2. /\ call'[r] = c /\ call' \in [Requests -> Calls]
      /\ \A q \in Requests : q # r => call'[q] = call[q]
  BY <1>1, Assigned DEF Arrive
<1>3. Good(r)'
  BY <1>2 DEF Arrive, Idle, Good, HasObjects, IsHeld, HasAnswer, WasAdmitted, HasFrames
<1>4. /\ UNCHANGED config /\ twice' = FALSE /\ current' \in Requests \cup {None}
      /\ \A q \in Requests : q # r => (current' = q <=> current = q)
      /\ held' \subseteq Objects /\ current' = r
  BY RpcAssumption DEF Arrive, IInv, TypeOK, Objects
<1> QED
  BY <1>2, <1>3, <1>4, OneCall

\* What a step inside schedule_execute() or of an executor finds.
LEMMA CallFacts ==
    ASSUME IInv, NEW r \in Requests
    PROVE  /\ call[r] \in Calls /\ Good(r) /\ twice = FALSE
           /\ current \in Requests \cup {None} /\ r # None
           /\ held \subseteq Objects
BY RpcAssumption DEF IInv, TypeOK

LEMMA ThrowsStep ==
    ASSUME IInv, NEW r \in Requests, NEW e \in Exceptions, current = r,
           call[r].pc \in {"arrived", "authentic", "parsed"},
           Throws(r, e), UNCHANGED <<config, current, held, twice>>
    PROVE  IInv'
<1> DEFINE c == [call[r] EXCEPT !.pc = "thrown", !.outcome = e]
<1>1. c \in Calls
  BY ZenonT(60), CallFacts DEF Calls
<1>2. /\ call'[r] = c /\ call' \in [Requests -> Calls]
      /\ \A q \in Requests : q # r => call'[q] = call[q]
  <2>1. call' = [call EXCEPT ![r] = c]
    BY DEF Throws, IInv, TypeOK
  <2> QED
    BY <1>1, <2>1, Assigned
<1>3. /\ call'[r].pc = "thrown" /\ call'[r].outcome = e
      /\ call'[r].answers = call[r].answers /\ call'[r].live = call[r].live
  BY <1>2, CallFacts DEF Calls
<1>4. Good(r)'
  <2>1. IsHeld(r)'
    <3>1. call[r].live = held /\ "executor" \notin held
      <4>1. HasObjects(r) /\ IsHeld(r)
        BY CallFacts DEF Good
      <4>2. CASE call[r].pc \in {"arrived", "authentic"}
        BY <4>1, <4>2 DEF HasObjects, IsHeld
      <4>3. CASE call[r].pc = "parsed"
        BY <4>1, <4>3 DEF HasObjects, IsHeld
      <4> QED
        BY <4>2, <4>3
    <3>2. call[r].live = Abandoned
      BY <3>1 DEF Abandoned
    <3>3. Abandoned' = Abandoned
      BY DEF Abandoned
    <3> QED
      BY <1>3, <3>2, <3>3 DEF IsHeld
  <2> QED
    BY <1>3, <2>1, CallFacts DEF Good, HasObjects, HasAnswer, WasAdmitted, HasFrames
<1> QED
  BY <1>2, <1>4, OneCall, CallFacts

\* The plugin and the credentials of a call, and the other fields of Calls.
Met == {<<>>} \cup ((Plugins \cup {None}) \X (Users \cup Credentials))

LEMMA CallsByMet ==
    Calls = [pc       : {"idle", "arrived", "authentic", "parsed", "dispatched", "queued",
                         "running", "left", "answered", "retired", "thrown"},
             outcome  : Exceptions \cup {"none", "returned"},
             authname : Users \cup {Nobody},
             active   : Seq(Interceptors \cup {"method"}),
             live     : SUBSET Objects,
             answers  : Seq(Answers),
             met      : Met,
             expected : Seq(Interceptors)]
BY DEF Calls, Met

LEMMA AuthenticateStep == ASSUME IInv, NEW r \in Requests, Authenticate(r) PROVE IInv'
<1>1. current = r /\ At(r, "arrived") /\ UNCHANGED <<config, current, held, twice>>
  BY CallFacts DEF Authenticate, At, Good, HasObjects
<1>2. PICK u \in Users \cup Credentials :
          IF Admitted(u)
          THEN call' = [call EXCEPT ![r].pc = "authentic", ![r].met = <<plugin, u>>,
                           ![r].authname = NameKept(u)]
          ELSE Throws(r, IF u = "notbase64" THEN "lib" ELSE "http")
  BY DEF Authenticate
<1>3. CASE Admitted(u)
  <2> DEFINE c == [call[r] EXCEPT !.pc = "authentic", !.met = <<plugin, u>>,
                                  !.authname = NameKept(u)]
  <2>1. plugin \in Plugins \cup {None}
    BY DEF IInv, TypeOK
  <2>2. NameKept(u) \in Users \cup {Nobody}
    BY DEF NameKept
  <2>3. c \in Calls
    <3>1. <<plugin, u>> \in (Plugins \cup {None}) \X (Users \cup Credentials)
      BY <2>1
    <3>2. <<plugin, u>> \in Met
      BY <3>1 DEF Met
    <3> QED
      BY <2>2, <3>2, CallFacts, CallsByMet
  <2>4. call' = [call EXCEPT ![r] = c]
    BY <1>2, <1>3 DEF IInv, TypeOK
  <2>5. /\ call'[r] = c /\ call' \in [Requests -> Calls]
        /\ \A q \in Requests : q # r => call'[q] = call[q]
    BY <2>3, <2>4, Assigned
  <2>6. LetIn(plugin, u, NameKept(u))
    <3>1. plugin # None =>
             plugin.users \subseteq Users /\ plugin.anonymous \in BOOLEAN
      BY <2>1, RpcAssumption
    <3> QED
      BY <1>3, <3>1, RpcAssumption DEF LetIn, Admitted, NameKept, Credentials
  <2>7. /\ call'[r].pc = "authentic" /\ call'[r].live = call[r].live
        /\ call'[r].answers = call[r].answers
        /\ call'[r].met[1] = plugin /\ call'[r].met[2] = u
        /\ call'[r].authname = NameKept(u)
    BY <2>5, CallFacts DEF Calls
  <2>8. Good(r)'
    <3>1. HasObjects(r)' /\ IsHeld(r)' /\ HasAnswer(r)' /\ HasFrames(r)'
      BY <2>7, <1>1, CallFacts DEF At, Good, HasObjects, IsHeld, HasAnswer, HasFrames
    <3>2. WasAdmitted(r)'
      BY <2>6, <2>7 DEF WasAdmitted, LetIn
    <3> QED
      BY <3>1, <3>2 DEF Good
  <2> QED
    BY <1>1, <2>5, <2>8, OneCall, CallFacts
<1>4. CASE ~Admitted(u)
  BY <1>1, <1>2, <1>4, ThrowsStep DEF At, Exceptions
<1> QED
  BY <1>3, <1>4

\* A step that moves a call on and gives it an object.
LEMMA MovesOn ==
    ASSUME IInv, NEW r \in Requests, NEW place, NEW object \in Objects,
           \/ /\ call[r].pc = "authentic" /\ place = "parsed" /\ object = "request"
              /\ held' = held \cup {"request"}
           \/ /\ call[r].pc = "parsed" /\ place = "dispatched" /\ object = "method"
              /\ held' = held,
           call' = [call EXCEPT ![r].pc = place, ![r].live = @ \cup {object}],
           UNCHANGED <<config, current, twice>>
    PROVE  IInv'
<1> DEFINE c == [call[r] EXCEPT !.pc = place, !.live = @ \cup {object}]
<1>1. c \in Calls
  BY ZenonT(60), CallFacts DEF Calls
<1>2. /\ call'[r] = c /\ call' \in [Requests -> Calls]
      /\ \A q \in Requests : q # r => call'[q] = call[q]
  <2>1. call' = [call EXCEPT ![r] = c]
    BY DEF IInv, TypeOK
  <2> QED
    BY <1>1, <2>1, Assigned
<1>3. /\ call'[r].pc = place /\ call'[r].live = call[r].live \cup {object}
      /\ call'[r].answers = call[r].answers /\ call'[r].met = call[r].met
      /\ call'[r].authname = call[r].authname
  BY <1>2, CallFacts DEF Calls
<1>4. /\ HasObjects(r)' /\ IsHeld(r)'
      /\ current = r /\ held' \subseteq Objects
  <2>1. HasObjects(r)'
    BY <1>3, CallFacts DEF Good, HasObjects
  <2>2. current = r
    BY CallFacts DEF Good, HasObjects
  <2>3. held' = {"packet", "request"}
    BY <2>2, CallFacts DEF Good, IsHeld
  <2>4. IsHeld(r)'
    BY <1>3, <2>3 DEF IsHeld
  <2> QED
    BY <2>1, <2>2, <2>3, <2>4 DEF Objects
<1>5. HasAnswer(r)' /\ HasFrames(r)'
  BY <1>3, CallFacts DEF Good, HasAnswer, HasFrames
<1>6. WasAdmitted(r)'
  <2>1. LetIn(call[r].met[1], call[r].met[2], call[r].authname)
    BY CallFacts DEF Good, WasAdmitted
  <2> QED
    BY <1>3, <2>1 DEF WasAdmitted, LetIn
<1> QED
  BY <1>2, <1>4, <1>5, <1>6, OneCall, CallFacts DEF Good

LEMMA ParseRequestStep == ASSUME IInv, NEW r \in Requests, ParseRequest(r) PROVE IInv'
<1>1. current = r /\ call[r].pc = "authentic" /\ UNCHANGED <<config, current, twice>>
  BY CallFacts DEF ParseRequest, At, Good, HasObjects
<1>2. \/ /\ call' = [call EXCEPT ![r].pc = "parsed", ![r].live = @ \cup {"request"}]
         /\ held' = held \cup {"request"}
      \/ \E e \in Exceptions : Throws(r, e) /\ held' = held
  BY DEF ParseRequest, Exceptions
<1> QED
  BY <1>1, <1>2, MovesOn, ThrowsStep DEF Objects

LEMMA CreateMethodStep == ASSUME IInv, NEW r \in Requests, CreateMethod(r) PROVE IInv'
<1>1. current = r /\ call[r].pc = "parsed" /\ UNCHANGED <<config, current, held, twice>>
  BY CallFacts DEF CreateMethod, At, Good, HasObjects
<1>2. \/ call' = [call EXCEPT ![r].pc = "dispatched", ![r].live = @ \cup {"method"}]
      \/ \E e \in Exceptions : Throws(r, e)
  BY DEF CreateMethod, Exceptions
<1> QED
  BY <1>1, <1>2, MovesOn, ThrowsStep DEF Objects

\* The frame that runs next when those of `active' are at work.
LEMMA ExecuteStep == ASSUME IInv, NEW r \in Requests, Execute(r) PROVE IInv'
<1> DEFINE place == IF serial THEN "running" ELSE "queued"
           frame == ProcessExecution(interceptors)
           c == [call[r] EXCEPT !.pc = place, !.live = @ \cup {"executor"},
                                !.active = <<frame>>, !.expected = Reverse(pushed)]
<1>1. current = r /\ call[r].pc = "dispatched" /\ UNCHANGED <<config, current, twice>>
  BY CallFacts DEF Execute, At, Good, HasObjects
<1>2. pushed \in Seq(Interceptors) /\ Len(pushed) \in Nat
  BY DEF IInv, TypeOK
<1>3. /\ Reverse(pushed) \in Seq(Interceptors)
      /\ Len(Reverse(pushed)) = Len(pushed)
      /\ \A j \in 1..Len(pushed) : Reverse(pushed)[j] = pushed[Len(pushed) + 1 - j]
  BY <1>2 DEF Reverse
<1>4. frame = IF Len(pushed) = 0 THEN "method" ELSE pushed[Len(pushed)]
  <2>1. Len(pushed) # 0 => pushed[Len(pushed)] \in Interceptors
    BY <1>2
  <2> QED
    BY <2>1, RpcAssumption DEF ProcessExecution, IInv, Chain
<1>5. frame \in Interceptors \cup {"method"} /\ <<frame>> \in Seq(Interceptors \cup {"method"})
  <2>1. frame \in Interceptors \cup {"method"}
    BY <1>2, <1>4
  <2> QED
    BY <2>1
<1> HIDE DEF frame
<1>6. c \in Calls
  <2>1. call[r].live \cup {"executor"} \in SUBSET Objects
    BY CallFacts, CallsByMet DEF Objects
  <2>2. place \in {"queued", "running"}
    OBVIOUS
  <2> HIDE DEF place
  <2> QED
    BY ZenonT(60), <1>3, <1>5, <2>1, <2>2, CallFacts, CallsByMet
<1>7. /\ call'[r] = c /\ call' \in [Requests -> Calls]
      /\ \A q \in Requests : q # r => call'[q] = call[q]
  <2>1. call' = [call EXCEPT ![r] = c]
    BY DEF Execute, IInv, TypeOK, frame
  <2> QED
    BY <1>6, <2>1, Assigned
<1>8. /\ call'[r].pc = place /\ call'[r].live = call[r].live \cup {"executor"}
      /\ call'[r].active = <<frame>> /\ call'[r].expected = Reverse(pushed)
      /\ call'[r].answers = call[r].answers /\ call'[r].met = call[r].met
      /\ call'[r].authname = call[r].authname
  BY <1>7, CallFacts, CallsByMet
<1>9. HasObjects(r)' /\ HasAnswer(r)'
  BY <1>1, <1>8, CallFacts DEF Good, HasObjects, HasAnswer, Scoped
<1>12. IsHeld(r)' /\ held' \subseteq Objects
  <2>1. held = {"packet", "request"} /\ held' = held \cup {"executor"}
    BY <1>1, CallFacts DEF Execute, Good, IsHeld
  <2> QED
    BY <1>1, <1>8, <2>1 DEF IsHeld, Objects
<1>10. WasAdmitted(r)'
  <2>1. LetIn(call[r].met[1], call[r].met[2], call[r].authname)
    BY <1>1, CallFacts DEF Good, WasAdmitted
  <2> QED
    BY <1>8, <2>1 DEF WasAdmitted, LetIn
<1>11. HasFrames(r)'
  <2>1. pushed' = pushed
    BY <1>1 DEF config
  <2>2. /\ Len(call'[r].active) = 1 /\ call'[r].active[1] = frame
        /\ Len(call'[r].expected) = Len(pushed)
    BY <1>3, <1>8
  <2>3. \A j \in 1..1 : call'[r].active[1 + 1 - j]
                          = IF j <= Len(pushed) THEN call'[r].expected[j] ELSE "method"
    BY <1>2, <1>3, <1>4, <1>8, <2>2
  <2> QED
    BY <1>2, <1>3, <1>8, <2>1, <2>2, <2>3 DEF HasFrames
<1> QED
  BY <1>1, <1>7, <1>9, <1>10, <1>11, <1>12, OneCall, CallFacts DEF Good

LEMMA ReturnsStep == ASSUME IInv, NEW r \in Requests, ScheduleExecuteReturns(r) PROVE IInv'
<1> DEFINE c == [call[r] EXCEPT !.live = @ \ {"packet", "request"}]
<1>1. /\ current = r /\ current' = None /\ UNCHANGED config
      /\ call[r].pc \in {"queued", "running", "left", "answered", "retired"}
      /\ serial => call[r].pc = "retired"
      /\ held = {"packet", "request", "executor"} /\ held' = {}
  BY CallFacts DEF ScheduleExecuteReturns, Good, IsHeld
<1>2. /\ call'[r] = c /\ call' \in [Requests -> Calls]
      /\ \A q \in Requests : q # r => call'[q] = call[q]
  <2>1. c \in Calls
    BY CallFacts, CallsByMet
  <2>2. call' = [call EXCEPT ![r] = c]
    <3>1. held \ {"executor"} = {"packet", "request"}
      BY <1>1
    <3> QED
      BY <3>1 DEF ScheduleExecuteReturns, IInv, TypeOK
  <2> QED
    BY <2>1, <2>2, Assigned
<1>3. /\ call'[r].pc = call[r].pc /\ call'[r].live = call[r].live \ {"packet", "request"}
      /\ call'[r].active = call[r].active /\ call'[r].expected = call[r].expected
      /\ call'[r].answers = call[r].answers /\ call'[r].met = call[r].met
      /\ call'[r].authname = call[r].authname /\ call'[r].outcome = call[r].outcome
  BY <1>2, CallFacts, CallsByMet
<1>4. twice' = FALSE
  BY <1>1, CallFacts DEF ScheduleExecuteReturns, Delete, Good, HasObjects, Scoped
<1>5. HasObjects(r)' /\ IsHeld(r)'
  <2>1. None # r /\ serial' = serial
    BY <1>1, CallFacts DEF config
  <2> QED
    BY <1>1, <1>3, <2>1, CallFacts DEF Good, HasObjects, IsHeld, Scoped
<1>6. HasAnswer(r)' /\ HasFrames(r)'
  <2>1. pushed' = pushed
    BY <1>1 DEF config
  <2>2. HasAnswer(r)'
    BY <1>3, CallFacts DEF Good, HasAnswer
  <2>3. HasFrames(r)'
    <3>1. HasFrames(r)
      BY CallFacts DEF Good
    <3> QED
      BY <1>3, <2>1, <3>1 DEF HasFrames
  <2> QED
    BY <2>2, <2>3
<1>7. WasAdmitted(r)'
  BY <1>3, CallFacts DEF Good, WasAdmitted, LetIn
<1> QED
  BY <1>1, <1>2, <1>4, <1>5, <1>6, <1>7, OneCall, CallFacts DEF Good

LEMMA CatchesStep == ASSUME IInv, NEW r \in Requests, ScheduleExecuteCatches(r) PROVE IInv'
<1> DEFINE a == CaughtAnswer(call[r].outcome)
           c == [call[r] EXCEPT !.pc = "retired", !.answers = Append(@, a),
                                !.live = @ \ Abandoned, !.met = <<>>,
                                !.authname = Nobody]
<1>1. /\ current = r /\ current' = None /\ held' = {} /\ UNCHANGED config
      /\ call[r].pc = "thrown" /\ call[r].answers = <<>> /\ call[r].outcome \in Exceptions
      /\ call[r].live = Abandoned
  BY CallFacts DEF ScheduleExecuteCatches, At, Good, HasObjects, IsHeld, HasAnswer
<1>2. a \in Answers /\ a # "result" /\ (call[r].outcome = "fault" => a = "own")
  BY <1>1 DEF CaughtAnswer, Answers, Exceptions
<1> HIDE DEF a
<1>3. /\ call'[r] = c /\ call' \in [Requests -> Calls]
      /\ \A q \in Requests : q # r => call'[q] = call[q]
  <2>1. c \in Calls
    <3>1. Append(call[r].answers, a) \in Seq(Answers) /\ <<>> \in Met
      BY <1>1, <1>2 DEF Met
    <3> QED
      BY <3>1, CallFacts, CallsByMet
  <2>2. call' = [call EXCEPT ![r] = c]
    BY DEF ScheduleExecuteCatches, IInv, TypeOK, a
  <2> QED
    BY <2>1, <2>2, Assigned
<1>4. /\ call'[r].pc = "retired" /\ call'[r].live = {}
      /\ call'[r].answers = <<a>> /\ call'[r].outcome = call[r].outcome
  BY <1>1, <1>3, CallFacts, CallsByMet
<1>5. twice' = FALSE
  BY <1>1, CallFacts DEF ScheduleExecuteCatches, Delete
<1>6. Good(r)'
  <2>1. HasObjects(r)' /\ IsHeld(r)'
    BY <1>1, <1>4, CallFacts DEF HasObjects, IsHeld, Scoped
  <2>2. HasAnswer(r)'
    BY <1>1, <1>2, <1>4 DEF HasAnswer, Exceptions
  <2>3. WasAdmitted(r)' /\ HasFrames(r)'
    BY <1>4 DEF WasAdmitted, HasFrames
  <2> QED
    BY <2>1, <2>2, <2>3 DEF Good
<1> QED
  BY <1>1, <1>3, <1>5, <1>6, OneCall, CallFacts

-----------------------------------------------------------------------------
(* The executors *)

\* A step of an executor that only changes where a call is.
LEMMA PlaceStep ==
    ASSUME IInv, NEW r \in Requests, NEW place,
           \/ call[r].pc = "queued" /\ place = "running"
           \/ call[r].pc = "left" /\ call[r].outcome \in Exceptions /\ serial /\ place = "thrown",
           call' = [call EXCEPT ![r].pc = place], UNCHANGED <<config, current, held, twice>>
    PROVE  IInv'
<1> DEFINE c == [call[r] EXCEPT !.pc = place]
<1>1. /\ call'[r] = c /\ call' \in [Requests -> Calls]
      /\ \A q \in Requests : q # r => call'[q] = call[q]
  <2>1. c \in Calls
    BY CallFacts, CallsByMet
  <2>2. call' = [call EXCEPT ![r] = c]
    BY DEF IInv, TypeOK
  <2> QED
    BY <2>1, <2>2, Assigned
<1>2. /\ call'[r].pc = place /\ call'[r].live = call[r].live
      /\ call'[r].active = call[r].active /\ call'[r].expected = call[r].expected
      /\ call'[r].answers = call[r].answers /\ call'[r].met = call[r].met
      /\ call'[r].authname = call[r].authname /\ call'[r].outcome = call[r].outcome
      /\ serial' = serial /\ pushed' = pushed /\ current' = current /\ held' = held
  BY <1>1, CallFacts, CallsByMet DEF config
<1>3. Good(r)
  BY CallFacts
<1>4. HasObjects(r)' /\ IsHeld(r)'
  BY <1>2, <1>3 DEF Good, HasObjects, IsHeld, Abandoned, Scoped
<1>5. HasAnswer(r)'
  BY <1>2, <1>3 DEF Good, HasAnswer
<1>6. WasAdmitted(r)'
  BY <1>2, <1>3 DEF Good, WasAdmitted, LetIn
<1>7. HasFrames(r)'
  <2>1. HasFrames(r)
    BY <1>3 DEF Good
  <2> QED
    BY <1>2, <2>1 DEF HasFrames
<1> QED
  BY <1>1, <1>4, <1>5, <1>6, <1>7, OneCall, CallFacts DEF Good

LEMMA StartInPoolStep == ASSUME IInv, NEW r \in Requests, StartInPool(r) PROVE IInv'
BY PlaceStep DEF StartInPool, At

LEMMA SerialThrowsOnStep == ASSUME IInv, NEW r \in Requests, SerialThrowsOn(r) PROVE IInv'
<1>1. call[r].pc = "left" /\ call[r].outcome \in Exceptions \cup {"returned"}
  BY CallFacts DEF SerialThrowsOn, At, Good, HasAnswer
<1>2. serial /\ call[r].outcome \in Exceptions
  BY <1>1 DEF SerialThrowsOn, Caught
<1> QED
  BY <1>1, <1>2, PlaceStep DEF SerialThrowsOn

\* Yielding and returning move the frames of a call that runs.
LEMMA FrameStep ==
    ASSUME IInv, NEW r \in Requests, NEW frames \in Seq(Interceptors \cup {"method"}),
           call[r].pc = "running",
           call' = [call EXCEPT ![r].active = frames], UNCHANGED <<config, current, held, twice>>,
           Len(frames) \in 1..(Len(call[r].expected) + 1),
           \A j \in 1..Len(frames) :
               frames[Len(frames) + 1 - j]
                  = IF j <= Len(call[r].expected) THEN call[r].expected[j] ELSE "method"
    PROVE  IInv'
<1> DEFINE c == [call[r] EXCEPT !.active = frames]
<1>1. /\ call'[r] = c /\ call' \in [Requests -> Calls]
      /\ \A q \in Requests : q # r => call'[q] = call[q]
  <2>1. c \in Calls
    BY CallFacts, CallsByMet
  <2>2. call' = [call EXCEPT ![r] = c]
    BY DEF IInv, TypeOK
  <2> QED
    BY <2>1, <2>2, Assigned
<1>2. /\ call'[r].pc = "running" /\ call'[r].live = call[r].live
      /\ call'[r].active = frames /\ call'[r].expected = call[r].expected
      /\ call'[r].answers = call[r].answers /\ call'[r].met = call[r].met
      /\ call'[r].authname = call[r].authname
      /\ serial' = serial /\ pushed' = pushed /\ current' = current /\ held' = held
  BY <1>1, CallFacts, CallsByMet DEF config
<1>3. Good(r)
  BY CallFacts
<1>4. HasObjects(r)' /\ IsHeld(r)'
  BY <1>2, <1>3 DEF Good, HasObjects, IsHeld, Abandoned, Scoped
<1>5. HasAnswer(r)'
  BY <1>2, <1>3 DEF Good, HasAnswer
<1>6. WasAdmitted(r)'
  BY <1>2, <1>3 DEF Good, WasAdmitted, LetIn
<1>7. HasFrames(r)'
  <2>1. HasFrames(r)
    BY <1>3 DEF Good
  <2> QED
    BY <1>2, <2>1 DEF HasFrames
<1> QED
  BY <1>1, <1>4, <1>5, <1>6, <1>7, OneCall, CallFacts DEF Good

\* What a call that runs has: its frames, and the chain below each of them.
LEMMA RunningFacts ==
    ASSUME IInv, NEW r \in Requests, call[r].pc = "running"
    PROVE  LET n == Len(call[r].expected)
               m == Len(call[r].active)
           IN  /\ n \in Nat /\ m \in 1..(n + 1)
               /\ call[r].active \in Seq(Interceptors \cup {"method"})
               /\ call[r].expected \in Seq(Interceptors)
               /\ \A j \in 1..m : call[r].active[m + 1 - j]
                                    = IF j <= n THEN call[r].expected[j] ELSE "method"
               /\ \A j \in 1..n : ProcessExecution(nested[call[r].expected[j]])
                                    = IF j < n THEN call[r].expected[j + 1] ELSE "method"
<1> DEFINE n == Len(call[r].expected)
<1>1. /\ call[r].active \in Seq(Interceptors \cup {"method"})
      /\ call[r].expected \in Seq(Interceptors) /\ n \in Nat
      /\ pushed \in Seq(Interceptors) /\ Len(pushed) \in Nat
  BY CallFacts, CallsByMet DEF IInv, TypeOK
<1>2. /\ n <= Len(pushed)
      /\ \A j \in 1..n : call[r].expected[j] = pushed[n + 1 - j]
      /\ Len(call[r].active) \in 1..(n + 1)
      /\ \A j \in 1..Len(call[r].active) :
             call[r].active[Len(call[r].active) + 1 - j]
                = IF j <= n THEN call[r].expected[j] ELSE "method"
  <2>1. HasFrames(r)
    BY CallFacts DEF Good
  <2> QED
    BY <2>1 DEF HasFrames
<1> HIDE DEF n
<1>3. ASSUME NEW j \in 1..n
      PROVE  ProcessExecution(nested[call[r].expected[j]])
                = IF j < n THEN call[r].expected[j + 1] ELSE "method"
  <2>1. call[r].expected[j] = pushed[n + 1 - j] /\ n + 1 - j \in 1..Len(pushed)
    BY <1>1, <1>2
  <2>2. nested[pushed[n + 1 - j]] = IF n + 1 - j = 1 THEN None ELSE pushed[n - j]
    <3> DEFINE k == n + 1 - j
    <3>1. k \in 1..Len(pushed)
      BY <2>1
    <3>2. k - 1 = n - j
      <4>1. n \in Nat /\ j \in Nat
        BY <1>1
      <4> QED
        BY <4>1
    <3> HIDE DEF k
    <3>3. nested[pushed[k]] = IF k = 1 THEN None ELSE pushed[k - 1]
      BY <3>1 DEF IInv, Chain
    <3> QED
      BY <3>2, <3>3 DEF k
  <2>3. CASE j < n
    <3>1. j + 1 \in 1..n /\ n + 1 - (j + 1) = n - j /\ n + 1 - j # 1 /\ n - j \in 1..Len(pushed)
      BY <1>1, <1>2, <2>3
    <3>2. call[r].expected[j + 1] = pushed[n - j] /\ pushed[n - j] \in Interceptors
      BY <1>1, <1>2, <3>1
    <3> QED
      BY <2>1, <2>2, <2>3, <3>1, <3>2, RpcAssumption DEF ProcessExecution
  <2>4. CASE j = n
    BY <1>1, <2>1, <2>2, <2>4 DEF ProcessExecution
  <2> QED
    BY <1>1, <2>3, <2>4
<1> QED
  BY <1>1, <1>2, <1>3 DEF n

LEMMA YieldStep == ASSUME IInv, NEW r \in Requests, Yield(r) PROVE IInv'
<1> DEFINE n == Len(call[r].expected)
           a == call[r].active
           m == Len(a)
           frame == ProcessExecution(nested[Head(a)])
           frames == <<frame>> \o a
<1>1. /\ call[r].pc = "running" /\ a[1] # "method" /\ Head(a) = a[1]
      /\ UNCHANGED <<config, current, held, twice>>
      /\ call' = [call EXCEPT ![r].active = frames]
  BY RunningFacts DEF Yield, At, IInv, TypeOK
<1>2. /\ n \in Nat /\ m \in 1..(n + 1)
      /\ a \in Seq(Interceptors \cup {"method"}) /\ call[r].expected \in Seq(Interceptors)
      /\ \A j \in 1..m : a[m + 1 - j] = IF j <= n THEN call[r].expected[j] ELSE "method"
      /\ \A j \in 1..n : ProcessExecution(nested[call[r].expected[j]])
                           = IF j < n THEN call[r].expected[j + 1] ELSE "method"
  BY <1>1, RunningFacts
<1> HIDE DEF n, m
<1>3. m <= n /\ a[1] = call[r].expected[m]
  <2>1. m \in 1..m /\ m + 1 - m = 1
    BY <1>2
  <2>2. a[1] = IF m <= n THEN call[r].expected[m] ELSE "method"
    BY <1>2, <2>1
  <2> QED
    BY <1>1, <2>2
<1>4. frame = IF m < n THEN call[r].expected[m + 1] ELSE "method"
  <2>1. m \in 1..n
    BY <1>2, <1>3
  <2>2. frame = ProcessExecution(nested[call[r].expected[m]])
    BY <1>1, <1>3
  <2> HIDE DEF frame
  <2> QED
    BY <1>2, <2>1, <2>2
<1>5. frame \in Interceptors \cup {"method"}
  <2>1. m < n => m + 1 \in 1..n
    BY <1>2
  <2>2. m < n => call[r].expected[m + 1] \in Interceptors
    BY <1>2, <2>1 DEF n
  <2> HIDE DEF frame
  <2> QED
    BY <1>4, <2>2
<1> HIDE DEF frame
<1>6. /\ frames \in Seq(Interceptors \cup {"method"}) /\ Len(frames) = m + 1
      /\ frames[1] = frame /\ \A i \in 1..m : frames[i + 1] = a[i]
  BY <1>2, <1>5 DEF m
<1>7. ASSUME NEW j \in 1..(m + 1)
      PROVE  frames[m + 1 + 1 - j] = IF j <= n THEN call[r].expected[j] ELSE "method"
  <2>1. CASE j = m + 1
    <3>1. m + 1 + 1 - j = 1 /\ (j <= n <=> m < n)
      BY <1>2, <2>1
    <3> QED
      BY <1>4, <1>6, <2>1, <3>1
  <2>2. CASE j \in 1..m
    <3>1. m + 1 + 1 - j = (m + 1 - j) + 1 /\ m + 1 - j \in 1..m
      BY <1>2, <2>2
    <3> QED
      BY <1>2, <1>6, <2>2, <3>1
  <2>3. j = m + 1 \/ j \in 1..m
    <3>1. m \in Nat
      BY <1>2
    <3> QED
      BY <3>1
  <2> QED
    BY <2>1, <2>2, <2>3
<1> HIDE DEF frames
<1>8. /\ Len(frames) \in 1..(n + 1)
      /\ \A j \in 1..Len(frames) :
            frames[Len(frames) + 1 - j] = IF j <= n THEN call[r].expected[j] ELSE "method"
  <2>1. m + 1 \in 1..(n + 1)
    BY <1>2, <1>3
  <2> QED
    BY <1>6, <1>7, <2>1
<1> QED
  BY <1>1, <1>6, <1>8, FrameStep DEF n

LEMMA ReturnToInterceptorStep ==
    ASSUME IInv, NEW r \in Requests, ReturnToInterceptor(r) PROVE IInv'
<1> DEFINE n == Len(call[r].expected)
           a == call[r].active
           m == Len(a)
           frames == Tail(a)
<1>1. /\ call[r].pc = "running" /\ m > 1 /\ UNCHANGED <<config, current, held, twice>>
      /\ call' = [call EXCEPT ![r].active = frames]
  BY DEF ReturnToInterceptor, At, IInv, TypeOK
<1>2. /\ n \in Nat /\ m \in 1..(n + 1) /\ a \in Seq(Interceptors \cup {"method"})
      /\ \A j \in 1..m : a[m + 1 - j] = IF j <= n THEN call[r].expected[j] ELSE "method"
  BY <1>1, RunningFacts
<1> HIDE DEF n
<1>3. /\ frames \in Seq(Interceptors \cup {"method"}) /\ Len(frames) = m - 1
      /\ \A i \in 1..(m - 1) : frames[i] = a[i + 1]
  BY <1>1, <1>2
<1> HIDE DEF frames, m
<1>4. ASSUME NEW j \in 1..(m - 1)
      PROVE  frames[m - 1 + 1 - j] = IF j <= n THEN call[r].expected[j] ELSE "method"
  <2>1. /\ m - 1 + 1 - j \in 1..(m - 1) /\ (m - 1 + 1 - j) + 1 = m + 1 - j /\ j \in 1..m
    BY <1>1, <1>2
  <2> QED
    BY <1>2, <1>3, <2>1
<1>5. /\ Len(frames) \in 1..(n + 1)
      /\ \A j \in 1..Len(frames) :
            frames[Len(frames) + 1 - j] = IF j <= n THEN call[r].expected[j] ELSE "method"
  <2>1. m - 1 \in 1..(n + 1)
    BY <1>1, <1>2
  <2> QED
    BY <1>3, <1>4, <2>1
<1> QED
  BY <1>1, <1>3, <1>5, FrameStep DEF n

LEMMA ReturnToExecutorStep ==
    ASSUME IInv, NEW r \in Requests, ReturnToExecutor(r) PROVE IInv'
<1>1. PICK e \in Exceptions \cup {"returned"} :
          call' = [call EXCEPT ![r].pc = "left", ![r].active = <<>>, ![r].outcome = e,
                               ![r].met = <<>>, ![r].expected = <<>>]
  BY DEF ReturnToExecutor
<1> DEFINE c == [call[r] EXCEPT !.pc = "left", !.active = <<>>, !.outcome = e,
                                !.met = <<>>, !.expected = <<>>]
<1>2. /\ call[r].pc = "running" /\ UNCHANGED <<config, current, held, twice>>
      /\ call[r].answers = <<>>
  BY CallFacts DEF ReturnToExecutor, At, Good, HasAnswer
<1>3. /\ call'[r] = c /\ call' \in [Requests -> Calls]
      /\ \A q \in Requests : q # r => call'[q] = call[q]
  <2>1. c \in Calls
    <3>1. /\ <<>> \in Met /\ <<>> \in Seq(Interceptors)
          /\ <<>> \in Seq(Interceptors \cup {"method"})
      BY DEF Met
    <3> QED
      BY <3>1, CallFacts, CallsByMet
  <2>2. call' = [call EXCEPT ![r] = c]
    BY <1>1 DEF IInv, TypeOK
  <2> QED
    BY <2>1, <2>2, Assigned
<1>4. /\ call'[r].pc = "left" /\ call'[r].live = call[r].live
      /\ call'[r].answers = call[r].answers /\ call'[r].outcome = e
      /\ serial' = serial /\ current' = current /\ held' = held
  BY <1>2, <1>3, CallFacts, CallsByMet DEF config
<1>5. HasObjects(r)' /\ IsHeld(r)'
  BY <1>2, <1>4, CallFacts DEF Good, HasObjects, IsHeld, Abandoned, Scoped
<1>6. HasAnswer(r)' /\ WasAdmitted(r)' /\ HasFrames(r)'
  BY <1>2, <1>4 DEF HasAnswer, WasAdmitted, HasFrames
<1> QED
  BY <1>2, <1>3, <1>5, <1>6, OneCall, CallFacts DEF Good

LEMMA ExecutorAnswersStep ==
    ASSUME IInv, NEW r \in Requests, ExecutorAnswers(r) PROVE IInv'
<1> DEFINE a == ExecutorAnswer(call[r].outcome)
           c == [call[r] EXCEPT !.pc = "answered", !.answers = Append(@, a)]
<1>1. /\ call[r].pc = "left" /\ UNCHANGED <<config, current, held, twice>>
      /\ call[r].answers = <<>>
  BY CallFacts DEF ExecutorAnswers, At, Good, HasAnswer
<1>2. /\ a \in Answers /\ (a = "result" <=> call[r].outcome = "returned")
      /\ call[r].outcome = "fault" => a = "own"
  BY DEF ExecutorAnswer, Answers
<1> HIDE DEF a
<1>3. /\ call'[r] = c /\ call' \in [Requests -> Calls]
      /\ \A q \in Requests : q # r => call'[q] = call[q]
  <2>1. c \in Calls
    <3>1. Append(call[r].answers, a) \in Seq(Answers)
      BY <1>1, <1>2
    <3> QED
      BY <3>1, CallFacts, CallsByMet
  <2>2. call' = [call EXCEPT ![r] = c]
    BY DEF ExecutorAnswers, IInv, TypeOK, a
  <2> QED
    BY <2>1, <2>2, Assigned
<1>4. /\ call'[r].pc = "answered" /\ call'[r].live = call[r].live
      /\ call'[r].answers = <<a>> /\ call'[r].outcome = call[r].outcome
      /\ serial' = serial /\ current' = current /\ held' = held
  BY <1>1, <1>3, CallFacts, CallsByMet DEF config
<1>5. HasObjects(r)' /\ IsHeld(r)'
  BY <1>1, <1>4, CallFacts DEF Good, HasObjects, IsHeld, Abandoned, Scoped
<1>6. HasAnswer(r)'
  BY <1>2, <1>4 DEF HasAnswer
<1>7. WasAdmitted(r)' /\ HasFrames(r)'
  BY <1>4 DEF WasAdmitted, HasFrames
<1> QED
  BY <1>1, <1>3, <1>5, <1>6, <1>7, OneCall, CallFacts DEF Good

LEMMA DeleteExecutorStep ==
    ASSUME IInv, NEW r \in Requests, DeleteExecutor(r) PROVE IInv'
<1> DEFINE c == [call[r] EXCEPT !.pc = "retired", !.live = @ \ {"executor", "method"},
                                !.authname = Nobody]
<1>1. /\ call[r].pc = "answered" /\ UNCHANGED <<config, current, held>> /\ Good(r)
      /\ call[r].live = Scoped(r) \cup {"method", "executor"}
  BY CallFacts DEF DeleteExecutor, At, Good, HasObjects
<1>2. /\ call'[r] = c /\ call' \in [Requests -> Calls]
      /\ \A q \in Requests : q # r => call'[q] = call[q]
  <2>1. c \in Calls
    BY CallFacts, CallsByMet
  <2>2. call' = [call EXCEPT ![r] = c]
    BY DEF DeleteExecutor, IInv, TypeOK
  <2> QED
    BY <2>1, <2>2, Assigned
<1>3. /\ call'[r].pc = "retired" /\ call'[r].live = Scoped(r)
      /\ call'[r].answers = call[r].answers /\ call'[r].outcome = call[r].outcome
      /\ serial' = serial /\ current' = current /\ held' = held
  BY <1>1, <1>2, CallFacts, CallsByMet DEF config, Scoped
<1>4. twice' = FALSE
  BY <1>1, CallFacts DEF DeleteExecutor, Delete
<1>5. HasObjects(r)' /\ IsHeld(r)' /\ WasAdmitted(r)' /\ HasFrames(r)'
  BY <1>1, <1>3 DEF Good, HasObjects, IsHeld, Scoped, WasAdmitted, HasFrames
<1>6. HasAnswer(r)'
  BY <1>1, <1>3 DEF Good, HasAnswer
<1> QED
  BY <1>1, <1>2, <1>4, <1>5, <1>6, OneCall, CallFacts DEF Good

-----------------------------------------------------------------------------
(* The invariant and what follows from it *)

LEMMA StepsPreserve == ASSUME IInv, [Next]_vars PROVE IInv'
<1>1. CASE Configure
  BY <1>1, ConfigureStep
<1>2. ASSUME NEW r \in Requests, Arrive(r) PROVE IInv'
  BY <1>2, ArriveStep
<1>3. ASSUME NEW r \in Requests, InScheduleExecute(r) PROVE IInv'
  BY <1>3, AuthenticateStep, ParseRequestStep, CreateMethodStep, ExecuteStep,
     ReturnsStep, CatchesStep DEF InScheduleExecute
<1>4. ASSUME NEW r \in Requests, InExecutor(r) PROVE IInv'
  BY <1>4, StartInPoolStep, YieldStep, ReturnToInterceptorStep, ReturnToExecutorStep,
     ExecutorAnswersStep, SerialThrowsOnStep, DeleteExecutorStep DEF InExecutor
<1>5. CASE UNCHANGED vars
  <2>1. UNCHANGED <<config, current, held, call, twice>>
    BY <1>5 DEF vars, config
  <2>2. ASSUME NEW q \in Requests PROVE Good(q)'
    <3>1. /\ Good(q) /\ call' = call /\ current' = current /\ held' = held /\ serial' = serial
          /\ pushed' = pushed
      BY <2>1 DEF IInv, config
    <3>2. HasObjects(q)' /\ IsHeld(q)' /\ HasAnswer(q)' /\ WasAdmitted(q)' /\ HasFrames(q)'
      BY <3>1 DEF Good, HasObjects, IsHeld, Abandoned, Scoped, HasAnswer, WasAdmitted, HasFrames
    <3> QED
      BY <3>2 DEF Good
  <2> QED
    BY <2>1, <2>2 DEF IInv, TypeOK, Chain, config
<1> QED
  BY <1>1, <1>2, <1>3, <1>4, <1>5 DEF Next

\* Whatever is called, configured and thrown, every call is good.
THEOREM InvariantHolds == Spec => []IInv
<1>1. Init => IInv
  BY InitInvariant
<1>2. IInv /\ [Next]_vars => IInv'
  BY StepsPreserve
<1> QED
  BY <1>1, <1>2, PTL DEF Spec

\* The variables of RpcCall have their types, and a call holds only what it may.
THEOREM TypesHold == Spec => []TypeOK
<1>1. IInv => TypeOK
  BY DEF IInv
<1> QED
  BY <1>1, InvariantHolds, PTL

\* Whatever throws, nothing of a call is deleted twice, used after it was deleted,
\* or left over (server.cc:177-244, executor.cc:25-28).
THEOREM CallsAreDeletedOnce == Spec => []DeletedOnce
<1>1. ASSUME IInv, NEW r \in Requests
      PROVE  /\ Over(r) => call[r].live = {}
             /\ At(r, "running") =>
                  {"method", "executor"} \cup (IF serial THEN {"request"} ELSE {})
                      \subseteq call[r].live
  BY <1>1, CallFacts DEF Good, HasObjects, Over, At, Scoped
<1>2. IInv => DeletedOnce
  BY <1>1 DEF IInv, DeletedOnce
<1> QED
  BY <1>2, InvariantHolds, PTL

\* A call is answered once, with a result exactly when the chain of the interceptors
\* returned, with its own code when a Fault left it (server.cc:205-231,
\* executor.cc:43-54, 211-230).
THEOREM CallsAreAnsweredOnce == Spec => []AnsweredOnce
<1>1. ASSUME IInv PROVE AnsweredOnce
  <2> SUFFICES ASSUME NEW r \in Requests
               PROVE  LET a == call[r].answers
                          answered == call[r].pc \in {"answered", "retired"}
                      IN  /\ Len(a) = IF answered THEN 1 ELSE 0
                          /\ answered => /\ a[1] = "result" <=> call[r].outcome = "returned"
                                         /\ call[r].outcome = "fault" => a[1] = "own"
    BY DEF AnsweredOnce
  <2>1. HasAnswer(r)
    BY <1>1, CallFacts DEF Good
  <2> QED
    BY <2>1 DEF HasAnswer
<1> QED
  BY <1>1, InvariantHolds, PTL

\* A method or an interceptor runs only for whom the plugin let in, under the name it
\* accepted (server.cc:149-175, 195-196).
THEOREM CallsRunForTheAdmitted == Spec => []RunsForAdmitted
<1>1. ASSUME IInv PROVE RunsForAdmitted
  <2> SUFFICES ASSUME NEW r \in Requests, At(r, "running")
               PROVE  LetIn(call[r].met[1], call[r].met[2], call[r].authname)
    BY DEF RunsForAdmitted, LetIn
  <2> QED
    BY <1>1, CallFacts DEF Good, WasAdmitted, At
<1> QED
  BY <1>1, InvariantHolds, PTL

\* The method runs inside all the interceptors that had been pushed when its call was
\* set up, the newest outermost, and in no other (method.h:96, server.cc:86-90,
\* method.cc:31-38).
THEOREM InterceptorsAreNested == Spec => []InterceptorsNest
<1>1. ASSUME IInv, NEW r \in Requests, At(r, "running")
      PROVE  LET frames == Reverse(call[r].active) IN
             IF Last(frames) = "method"
             THEN Front(frames) = call[r].expected
             ELSE IsPrefix(frames, call[r].expected)
  <2> DEFINE e == call[r].expected
             n == Len(e)
             a == call[r].active
             m == Len(a)
             frames == Reverse(a)
  <2>1. /\ n \in Nat /\ m \in 1..(n + 1) /\ a \in Seq(Interceptors \cup {"method"})
        /\ e \in Seq(Interceptors)
        /\ \A j \in 1..m : a[m + 1 - j] = IF j <= n THEN e[j] ELSE "method"
    BY <1>1, RunningFacts DEF At
  <2>2. /\ frames \in Seq(Interceptors \cup {"method"}) /\ Len(frames) = m
        /\ \A j \in 1..m : frames[j] = IF j <= n THEN e[j] ELSE "method"
    <3>1. \A j \in 1..m : m - j + 1 = m + 1 - j
      BY <2>1
    <3> QED
      BY <2>1, <3>1 DEF Reverse
  <2> HIDE DEF frames, m, n, e, a
  <2>3. CASE m = n + 1
    <3>1. Last(frames) = "method"
      BY <2>1, <2>2, <2>3 DEF Last
    <3>2. Front(frames) = e
      BY <2>1, <2>2, <2>3 DEF Front, n
    <3> QED
      BY <3>1, <3>2 DEF frames, e, a
  <2>4. CASE m \in 1..n
    <3>1. Last(frames) # "method"
      BY <2>1, <2>2, <2>4, RpcAssumption DEF Last, n
    <3>2. IsPrefix(frames, e)
      BY <2>1, <2>2, <2>4 DEF IsPrefix, n
    <3> QED
      BY <3>1, <3>2 DEF frames, e, a
  <2> QED
    BY <2>1, <2>3, <2>4
<1>2. IInv => InterceptorsNest
  BY <1>1 DEF InterceptorsNest
<1> QED
  BY <1>2, InvariantHolds, PTL
=============================================================================
