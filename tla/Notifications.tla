------------------------------ MODULE Notifications ------------------------------
(***************************************************************************)
(* The two ways components notify each other: signals (signal_manager.c), a  *)
(* message queue that one thread empties into callbacks and from which any   *)
(* thread may receive as well, and events (event_manager.c), a ring under    *)
(* a mutex that is held for a whole call, so that a call is one step.         *)
(***************************************************************************)
EXTENDS Integers, Sequences, FiniteSets

CONSTANTS
    SignalIds,
    Receivers,        \* threads that call signal_receive
    CallbackRegistrars, \* threads that call register_signal_callback
    NoSignal,
    MaxSignals,       \* MAX_SIGNALS, size of the message queue
    MaxCallbacks,     \* MAX_CALLBACKS
    MaxEventQueue,    \* MAX_EVENT_QUEUE
    MaxSent, MaxPublished  \* bounds: calls of signal_send, of publish_event

VARIABLES
    signal_queue,     \* the message queue, of records [id, n]: the n-th one sent
    callbacks,        \* the table: id, and whether the callback is not NULL
    num_callbacks,    \* uint8_t
    registering,      \* what each registrar is about to do: at, id and slot
    waits_for,        \* id a receiver waits for, or NoSignal
    in_thread,        \* signal the thread has taken, or NoSignal
    callback_index,   \* i of its loop, + 1
    signal_fault,     \* it has called NULL, or what lies behind the table
    signals_sent,     \* history: calls of signal_send
    called,           \* history: signals that callbacks were called with, in order
    received,         \* history: signals that signal_receive returned
    discarded,        \* history: signals that nobody was given
    queue_head, queue_tail,  \* of the ring of events
    published         \* history: calls of publish_event that succeeded, and failed

callbackVars == <<callbacks, num_callbacks, registering>>
threadVars == <<in_thread, callback_index, signal_fault>>
signalVars == <<signal_queue, callbackVars, waits_for, threadVars,
                signals_sent, called, received, discarded>>
eventVars == <<queue_head, queue_tail, published>>
notificationVars == <<signalVars, eventVars>>

Signals == [id : SignalIds, n : Nat]
Slots == 1 .. MaxCallbacks

ASSUME NotificationAssumption ==
    /\ {MaxSignals, MaxCallbacks, MaxEventQueue, MaxSent, MaxPublished} \subseteq Nat \ {0}
    /\ NoSignal \notin Signals
    /\ 0 \in SignalIds

NotRegistering == [at |-> "idle", id |-> 0, slot |-> 0]

NotificationsInit ==
    /\ signal_queue = <<>>
    /\ callbacks = [i \in Slots |-> [id |-> 0, set |-> FALSE]]
    /\ num_callbacks = 0
    /\ registering = [t \in CallbackRegistrars |-> NotRegistering]
    /\ waits_for = [r \in Receivers |-> NoSignal]
    /\ in_thread = NoSignal
    /\ callback_index = 1
    /\ signal_fault = FALSE
    /\ signals_sent = 0
    /\ called = <<>>
    /\ received = {}
    /\ discarded = {}
    /\ queue_head = 0
    /\ queue_tail = 0
    /\ published = [ok |-> 0, full |-> 0]

-----------------------------------------------------------------------------
\* With K_NO_WAIT a full queue refuses the signal.
signal_send(id) ==
    /\ signals_sent < MaxSent
    /\ signals_sent' = signals_sent + 1
    /\ IF Len(signal_queue) < MaxSignals
       THEN /\ signal_queue' = Append(signal_queue, [id |-> id, n |-> signals_sent + 1])
            /\ UNCHANGED discarded
       ELSE /\ discarded' = discarded \cup {signals_sent + 1}
            /\ UNCHANGED signal_queue
    /\ UNCHANGED <<callbackVars, waits_for, threadVars, called, received>>

-----------------------------------------------------------------------------
(* register_signal_callback: the check of the size, two stores and the       *)
(* increment, under no lock.  num_callbacks may be loaded again for each of   *)
(* them or be kept, so two calls may use one entry, leave one out, or raise    *)
(* the count beyond the table; what a store behind it hits is not in this     *)
(* state.                                                                  *)

register_signal_callback(t, id) ==
    /\ registering[t].at = "idle"
    /\ num_callbacks < MaxCallbacks
    /\ registering' = [registering EXCEPT ![t] = [at |-> "id", id |-> id, slot |-> num_callbacks]]
    /\ UNCHANGED <<callbacks, num_callbacks>>

LoadCallbacksAgain(t) ==
    /\ registering[t].at # "idle"
    /\ registering' = [registering EXCEPT ![t].slot = num_callbacks]
    /\ UNCHANGED <<callbacks, num_callbacks>>

StoreSignalId(t) ==
    LET r == registering[t] IN
    /\ r.at = "id"
    /\ callbacks' = [i \in Slots |->
          IF i = r.slot + 1 THEN [callbacks[i] EXCEPT !.id = r.id] ELSE callbacks[i]]
    /\ registering' = [registering EXCEPT ![t].at = "callback"]
    /\ UNCHANGED num_callbacks

StoreCallback(t) ==
    LET r == registering[t] IN
    /\ r.at = "callback"
    /\ callbacks' = [i \in Slots |->
          IF i = r.slot + 1 THEN [callbacks[i] EXCEPT !.set = TRUE] ELSE callbacks[i]]
    /\ registering' = [registering EXCEPT ![t].at = "count"]
    /\ UNCHANGED num_callbacks

CountCallback(t) ==
    /\ registering[t].at = "count"
    /\ num_callbacks' = (registering[t].slot + 1) % 256
    /\ registering' = [registering EXCEPT ![t] = NotRegistering]
    /\ UNCHANGED callbacks

CallbackRegistration(t) ==
    /\ \/ \E id \in SignalIds : register_signal_callback(t, id)
       \/ LoadCallbacksAgain(t)
       \/ StoreSignalId(t) \/ StoreCallback(t) \/ CountCallback(t)
    /\ UNCHANGED <<signal_queue, waits_for, threadVars, signals_sent, called, received, discarded>>

-----------------------------------------------------------------------------

\* Mutant: the signal stays in the queue.
Peek == signal_queue # <<>> /\ UNCHANGED signal_queue

\* k_msgq_get: the oldest signal goes to whichever waiting thread gets it.
Get == /\ signal_queue # <<>>
       /\ signal_queue' = Tail(signal_queue)

TakeSignal ==
    /\ in_thread = NoSignal
    /\ Get
    /\ in_thread' = Head(signal_queue)
    /\ callback_index' = 1
    /\ UNCHANGED <<callbackVars, waits_for, signal_fault, signals_sent, called, received, discarded>>

InTable == callback_index \in Slots
Matches == callbacks[callback_index].id = in_thread.id

CallCallback == called' = Append(called, in_thread.n) /\ UNCHANGED signal_fault
PassEntry == UNCHANGED <<called, signal_fault>>
\* The thread ends in the call.
CallFaults == signal_fault' = TRUE /\ UNCHANGED called

\* One turn of the loop; num_callbacks is read each time.  An entry counted by
\* two registrars but stored into by neither has id 0 and no callback, and one
\* behind the table holds anything.
RunCallback ==
    /\ in_thread # NoSignal /\ ~signal_fault
    /\ callback_index <= num_callbacks
    /\ callback_index' = callback_index + 1
    /\ \/ (InTable => Matches /\ callbacks[callback_index].set) /\ CallCallback
       \/ (InTable => ~Matches) /\ PassEntry
       \/ (InTable => Matches /\ ~callbacks[callback_index].set) /\ CallFaults
    /\ UNCHANGED <<signal_queue, callbackVars, waits_for, in_thread, signals_sent,
                   received, discarded>>

\* A signal no callback was registered for is gone.
SignalProcessed ==
    /\ in_thread # NoSignal /\ ~signal_fault
    /\ callback_index > num_callbacks
    /\ in_thread' = NoSignal
    /\ discarded' = IF \E i \in DOMAIN called : called[i] = in_thread.n
                    THEN discarded ELSE discarded \cup {in_thread.n}
    /\ UNCHANGED <<signal_queue, callbackVars, waits_for, callback_index, signal_fault,
                   signals_sent, called, received>>

signal_processing_thread == TakeSignal \/ RunCallback \/ SignalProcessed

StartReceive(r, id) ==
    /\ waits_for[r] = NoSignal
    /\ waits_for' = [waits_for EXCEPT ![r] = id]
    /\ UNCHANGED <<signal_queue, callbackVars, threadVars, signals_sent,
                   called, received, discarded>>

\* A signal with another id is taken all the same, and lost with -EAGAIN.
signal_receive(r) ==
    /\ waits_for[r] # NoSignal
    /\ Get
    /\ waits_for' = [waits_for EXCEPT ![r] = NoSignal]
    /\ LET signal == Head(signal_queue) IN
       IF signal.id = waits_for[r]
       THEN received' = received \cup {signal.n} /\ UNCHANGED discarded
       ELSE discarded' = discarded \cup {signal.n} /\ UNCHANGED received
    /\ UNCHANGED <<callbackVars, threadVars, signals_sent, called>>

SignalCall ==
    \/ \E id \in SignalIds : signal_send(id)
    \/ \E t \in CallbackRegistrars : CallbackRegistration(t)
    \/ \E r \in Receivers, id \in SignalIds : StartReceive(r, id)
    \/ \E r \in Receivers : signal_receive(r)

-----------------------------------------------------------------------------
\* Nothing moves queue_head, and num_subscribers stays 0: the file defines no
\* subscribe_to_event, so there is no handler to call.
RingFull == (queue_tail + 1) % MaxEventQueue = queue_head

publish_event ==
    /\ published.ok + published.full < MaxPublished
    /\ queue_tail' = IF RingFull THEN queue_tail ELSE (queue_tail + 1) % MaxEventQueue
    /\ published' = IF RingFull THEN [published EXCEPT !.full = @ + 1]
                    ELSE [published EXCEPT !.ok = @ + 1]
    /\ UNCHANGED queue_head

NotificationsNext ==
    \/ (SignalCall \/ signal_processing_thread) /\ UNCHANGED eventVars
    \/ publish_event /\ UNCHANGED signalVars

-----------------------------------------------------------------------------
Numbers == 1 .. MaxSent

NotificationsTypeOK ==
    /\ signal_queue \in Seq([id : SignalIds, n : Numbers]) /\ Len(signal_queue) <= MaxSignals
    /\ callbacks \in [Slots -> [id : SignalIds, set : BOOLEAN]]
    /\ num_callbacks \in 0 .. 255
    /\ registering \in [CallbackRegistrars ->
          [at : {"idle", "id", "callback", "count"}, id : SignalIds, slot : 0 .. 255]]
    /\ waits_for \in [Receivers -> SignalIds \cup {NoSignal}]
    /\ in_thread \in [id : SignalIds, n : Numbers] \cup {NoSignal}
    /\ callback_index \in 1 .. 256
    /\ signal_fault \in BOOLEAN
    /\ called \in Seq(Numbers)
    /\ received \subseteq Numbers /\ discarded \subseteq Numbers
    /\ queue_head = 0 /\ queue_tail \in 0 .. MaxEventQueue - 1

Calls == {called[i] : i \in DOMAIN called}
Queued == {signal_queue[i].n : i \in DOMAIN signal_queue}
Taken == IF in_thread = NoSignal THEN {} ELSE {in_thread.n}

\* The signal thread and the receivers take from one queue, but what they do
\* with a signal adds up: each one sent is waiting, or in the thread, or was
\* given to callbacks or to one receiver, or is lost, and never two of these;
\* and callbacks are called in the order of signal_send, however the
\* registrations race.
SignalsConsumedOnce ==
    /\ 1 .. signals_sent = Queued \cup Taken \cup Calls \cup received \cup discarded
    /\ Queued \cap (Taken \cup Calls \cup received \cup discarded) = {}
    /\ received \cap (Taken \cup Calls \cup discarded) = {}
    /\ discarded \cap (Taken \cup Calls) = {}
    /\ \A i, j \in DOMAIN called : i <= j => called[i] <= called[j]

\* The ring takes MAX_EVENT_QUEUE - 1 events in all, and none after the first
\* it refused: there is no consumer.
EventsAcceptedOnce ==
    /\ published.ok <= MaxEventQueue - 1
    /\ published.full > 0 => published.ok = MaxEventQueue - 1

\* Neither way of notifying delivers twice, and what each fails to deliver is
\* what the two invariants above name.
NotificationsAccounted == SignalsConsumedOnce /\ EventsAcceptedOnce
=============================================================================
