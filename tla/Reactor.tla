------------------------------- MODULE Reactor -------------------------------
(***************************************************************************)
(* The event loop of reactor_impl.h on top of poll() (reactor_poll_impl.cc)*)
(*                                                                         *)
(* The reactor keeps a list of HandlerState {fd, mask, revents}.  Here     *)
(* `mask[h]' is the set of events handler h is registered for ({} when it  *)
(* is not in the list) and `revents[h]' the events somebody faked for it.  *)
(* One call of handle_events() goes through these phases (`phase'):        *)
(*   "idle"    no call is running;                                         *)
(*   "user"    handle_user_events() dispatches the copied faked events;    *)
(*   "poll"    handle_system_events() has copied the list (`polled') and   *)
(*             is blocked in poll();                                       *)
(*   "system"  it dispatches the events poll() returned.                   *)
(* `batch' holds the events of the copy not dispatched yet.  The lock is   *)
(* not held while handlers run or while poll() blocks, so other threads    *)
(* may register handlers in any phase.                                     *)
(*                                                                         *)
(* The module gives the steps of the loop; what the handlers do, and who   *)
(* registers them, is up to the module that instantiates it.               *)
(***************************************************************************)
EXTENDS FiniteSets

CONSTANT Handlers    \* everything that is ever registered

VARIABLES mask, revents, phase, polled, batch

reactorVars == <<mask, revents, phase, polled, batch>>

Events == {"INPUT", "OUTPUT"}
Phases == {"idle", "user", "poll", "system"}

EventMap == [Handlers -> SUBSET Events]
NoEvents == [h \in Handlers |-> {}]

Registered == {h \in Handlers : mask[h] # {}}

ReactorTypeOK ==
    /\ mask \in EventMap /\ revents \in EventMap
    /\ polled \in EventMap /\ batch \in EventMap

ReactorInit(registered) ==
    /\ mask = registered
    /\ revents = NoEvents /\ polled = NoEvents /\ batch = NoEvents

-----------------------------------------------------------------------------
\* What a call does to the list of handler states.

\* register_handler(): a new entry, or `i->mask |= mask'.
RegisterIn(list, h, ev) == [list EXCEPT ![h] = @ \cup {ev}]

UnregisterNothingIn(list, h, ev)   == list

\* unregister_handler(eh, mask): `i->mask &= !mask' is a logical not, which is
\* 0 for either event, so the entry goes whatever else it was registered for.
UnregisterEventIn(list, h, ev) == [list EXCEPT ![h] = {}]

\* unregister_handler(eh).
UnregisterIn(list, h) == [list EXCEPT ![h] = {}]

\* The faked events live in the entry and go with it.
DropRevents(h) == revents' = [revents EXCEPT ![h] = {}]

\* fake_event(): nothing happens to a handler that is not registered.
FakeEvent(h, ev) ==
    revents' = IF mask[h] # {} THEN [revents EXCEPT ![h] = @ \cup {ev}] ELSE revents

-----------------------------------------------------------------------------
\* handle_events() is entered with something else than stoppers registered,
\* and handle_user_events() moves all faked events into its own list:
\* `revents &= !mask' clears them, because the mask of an entry is never 0.
EnterHandleEvents(stoppers) ==
    /\ phase = "idle"
    /\ Registered \ stoppers # {}
    /\ phase' = "user"
    /\ batch' = revents
    /\ revents' = NoEvents
    /\ UNCHANGED <<mask, polled>>

\* handle_system_events() copies the list under the lock and calls poll().
CopyHandlers ==
    /\ phase = "user"
    /\ batch = NoEvents
    /\ phase' = "poll"
    /\ polled' = mask
    /\ UNCHANGED <<mask, revents, batch>>

\* poll() returns the events of the copied list that are ready.
PollReturns(ready) ==
    /\ phase = "poll"
    /\ ready # NoEvents
    /\ phase' = "system"
    /\ batch' = ready
    /\ polled' = NoEvents
    /\ UNCHANGED <<mask, revents>>

\* A signal ends a poll() that has nothing to return (EINTR): `continue' leaves
\* the do-while (false), and the loop goes round with no event at all.
PollInterrupted(ready) ==
    /\ phase = "poll"
    /\ ready = NoEvents
    /\ phase' = "idle"
    /\ polled' = NoEvents
    /\ UNCHANGED <<mask, revents, batch>>

\* Mutant: the event stays in the list until the next round.
DispatchAgain(h) ==
    /\ phase \in {"user", "system"}
    /\ batch[h] # {}
    /\ batch' = batch
    /\ phase' = phase

\* invoke_event_handler() is called for the next entry of the copy.  The copy is
\* a list; its order, that of registration, is left open.  When the last event
\* poll() returned has been handled, handle_events() returns.
Dispatch(h) ==
    /\ phase \in {"user", "system"}
    /\ batch[h] # {}
    /\ batch' = [batch EXCEPT ![h] = {}]
    /\ phase' = IF phase = "system" /\ batch' = NoEvents THEN "idle" ELSE phase

\* invoke_clients_handler(): input goes first, and hides output of this round.
DispatchInput(h)  == Dispatch(h) /\ "INPUT" \in batch[h]
DispatchOutput(h) == Dispatch(h) /\ batch[h] = {"OUTPUT"}
=============================================================================
