---------------------------- MODULE DataChannel ----------------------------
(***************************************************************************)
(* One data channel and its handle (WebRtcInterop/src/DataChannel.cc, and  *)
(* OnDataChannel of PeerConnection.cc).  The handle's calls run on the     *)
(* application's thread or, while on_data_channel is running, inside it on *)
(* the signalling thread.  The channel belongs to the peer connection too, *)
(* so it goes on after the handle was released.                            *)
(*                                                                         *)
(* WebRTC's part, as the shim uses it: notifications are queued for the    *)
(* observer that is registered when they arise and run one at a time on    *)
(* the signalling thread; RegisterObserver and UnregisterObserver hop to   *)
(* that thread, so they wait for the callback in progress; an incoming     *)
(* channel opens only after on_data_channel has returned.                  *)
(***************************************************************************)
EXTENDS Integers, Sequences

CONSTANTS
    Observers,      \* the InteropDataChannelObserver objects there may be
    NoObserver,     \* a null observer pointer
    MaxBuffered,    \* bound: payloads waiting in the channel
    MaxQueue        \* bound: notifications waiting before data adds another

ASSUME ChannelAssumption ==
    /\ NoObserver \notin Observers
    /\ MaxBuffered \in Nat
    /\ MaxQueue \in Nat

VARIABLES
    pc,         \* where the call on the handle is
    inside,     \* on_data_channel is running, with this handle
    want,       \* the argument of set_observer: "null" or "new"
    slot,       \* rtc_data_channel::observer
    fresh,      \* the observer set_observer has allocated
    memory,     \* each observer: "unborn", "live" or "freed"
    registered, \* the observer the channel knows
    called,     \* the observer whose callback is running
    queue,      \* notifications on their way to the signalling thread
    state,      \* the channel's state
    known,      \* per observer: the state it was registered in or last told
    buffered,   \* payloads waiting to be sent
    status      \* what the last call returned

handleVars == <<pc, inside, want, slot, fresh, status>>
channelVars == <<registered, called, queue, state, known, buffered>>
vars == <<handleVars, memory, channelVars>>

(* rtc_data_channel_state *)
Connecting == 0
Open == 1
Closing == 2
Closed == 3

Positions == {"none", "idle", "unregister", "reset", "install", "register", "store",
              "send", "dying", "dead", "gone"}
Events == [to : Observers, kind : {"state", "message", "amount"}]

TypeOK ==
    /\ pc \in Positions
    /\ inside \in BOOLEAN
    /\ want \in {"null", "new"}
    /\ slot \in Observers \cup {NoObserver}
    /\ fresh \in Observers \cup {NoObserver}
    /\ memory \in [Observers -> {"unborn", "live", "freed"}]
    /\ registered \in Observers \cup {NoObserver}
    /\ called \in Observers \cup {NoObserver}
    /\ queue \in Seq(Events)
    /\ state \in Connecting..Closed
    /\ known \in [Observers -> Connecting..Closed]
    /\ buffered \in 0..MaxBuffered
    /\ status \in {"OK", "INVALID_STATE", "INTERNAL"}

Init ==
    /\ pc = "none" /\ inside = FALSE /\ want = "null"
    /\ slot = NoObserver /\ fresh = NoObserver
    /\ memory = [o \in Observers |-> "unborn"]
    /\ registered = NoObserver /\ called = NoObserver
    /\ queue = <<>>
    /\ state = Connecting
    /\ known = [o \in Observers |-> Connecting]
    /\ buffered = 0
    /\ status = "OK"

Returns(s) == pc' = "idle" /\ status' = s

(* Mutant: the hop is posted and waited for on the signalling thread itself. *)
SignallingThreadFreePosted == ~inside /\ called = NoObserver

(* A hop to the signalling thread waits for the callback in progress; inside
   on_data_channel the caller is that thread, and runs at once. *)
SignallingThreadFree == inside \/ called = NoObserver

FreeObserver ==
    /\ memory' = [memory EXCEPT ![slot] = "freed"]
    /\ slot' = NoObserver

-----------------------------------------------------------------------------
(* Getting and giving up the handle *)

(* The channel exists, and is negotiated, even when the handle for it cannot be
   allocated. *)
CreateDataChannel ==
    /\ pc = "none"
    /\ \/ pc' = "idle" /\ UNCHANGED status
       \/ pc' = "gone" /\ status' = "INTERNAL"
    /\ UNCHANGED <<inside, want, slot, fresh, memory, channelVars>>

(* A handle that cannot be allocated is not delivered, nor is any without a
   callback to deliver it to: the channel is then nobody's. *)
OnDataChannel ==
    /\ pc = "none"
    /\ \/ pc' = "idle" /\ inside' = TRUE
       \/ pc' = "gone" /\ UNCHANGED inside
    /\ UNCHANGED <<want, slot, fresh, status, memory, channelVars>>

EndOnDataChannel ==
    /\ inside /\ pc \in {"idle", "gone"}
    /\ inside' = FALSE
    /\ UNCHANGED <<pc, want, slot, fresh, status, memory, channelVars>>

(* Mutant: the destructor relies on the order of the members. *)
ReleaseRegistered ==
    /\ pc = "idle"
    /\ pc' = IF slot = NoObserver THEN "gone" ELSE "dead"
    /\ UNCHANGED <<inside, want, slot, fresh, status, memory, channelVars>>

(* rtc_data_channel_release: the channel can outlive the handle, so the
   destructor unregisters first. *)
Release ==
    /\ pc = "idle"
    /\ pc' = IF slot = NoObserver THEN "gone" ELSE "dying"
    /\ UNCHANGED <<inside, want, slot, fresh, status, memory, channelVars>>

Destroy ==
    /\ pc = "dead"
    /\ FreeObserver
    /\ pc' = "gone"
    /\ UNCHANGED <<inside, want, fresh, status, channelVars>>

-----------------------------------------------------------------------------
(* rtc_data_channel_set_observer *)

SetObserver(w) ==
    /\ pc = "idle"
    /\ want' = w
    /\ pc' = IF slot # NoObserver THEN "unregister" ELSE "install"
    /\ UNCHANGED <<inside, slot, fresh, status, memory, channelVars>>

(* Mutant: the registration goes without waiting for the callback. *)
UnregisterAtOnce ==
    /\ pc \in {"unregister", "dying"}
    /\ registered' = NoObserver
    /\ pc' = IF pc = "unregister" THEN "reset" ELSE "dead"
    /\ UNCHANGED <<inside, want, slot, fresh, status, memory,
                   called, queue, state, known, buffered>>

Unregister ==
    /\ pc \in {"unregister", "dying"} /\ SignallingThreadFree
    /\ registered' = NoObserver
    /\ pc' = IF pc = "unregister" THEN "reset" ELSE "dead"
    /\ UNCHANGED <<inside, want, slot, fresh, status, memory,
                   called, queue, state, known, buffered>>

Reset ==
    /\ pc = "reset"
    /\ FreeObserver
    /\ pc' = "install"
    /\ UNCHANGED <<inside, want, fresh, status, channelVars>>

(* A null argument only cleared.  When the allocation fails the old observer
   is gone already. *)
Install ==
    /\ pc = "install"
    /\ \/ want = "null" /\ Returns("OK") /\ UNCHANGED <<fresh, memory>>
       \/ want = "new" /\ Returns("INTERNAL") /\ UNCHANGED <<fresh, memory>>
       \/ /\ want = "new"
          /\ \E o \in Observers :
                /\ memory[o] = "unborn"
                /\ memory' = [memory EXCEPT ![o] = "live"]
                /\ fresh' = o
          /\ pc' = "register"
          /\ UNCHANGED status
    /\ UNCHANGED <<inside, want, slot, channelVars>>

Register ==
    /\ pc = "register" /\ SignallingThreadFree
    /\ registered' = fresh
    /\ known' = [known EXCEPT ![fresh] = state]
    /\ pc' = "store"
    /\ UNCHANGED <<inside, want, slot, fresh, status, memory,
                   called, queue, state, buffered>>

Store ==
    /\ pc = "store"
    /\ slot' = fresh
    /\ fresh' = NoObserver
    /\ memory' = [o \in Observers |-> IF o = slot THEN "freed" ELSE memory[o]]
    /\ Returns("OK")
    /\ UNCHANGED <<inside, want, channelVars>>

-----------------------------------------------------------------------------
(* The other calls *)

Notify(kind) ==
    queue' = IF registered = NoObserver THEN queue
             ELSE Append(queue, [to |-> registered, kind |-> kind])

Becomes(s) ==
    /\ state' = s
    /\ Notify("state")
    /\ UNCHANGED <<registered, called, known, buffered>>

(* The state is looked at before the payload is handed over ... *)
Send ==
    /\ pc = "idle"
    /\ IF state = Open THEN pc' = "send" /\ UNCHANGED status
       ELSE Returns("INVALID_STATE")
    /\ UNCHANGED <<inside, want, slot, fresh, memory, channelVars>>

(* ... and SendAsync finds what it finds.  A payload for a channel that has left
   the open state, or that an open one does not take (its queue is full, say),
   is dropped with a line in the log; the status is the same. *)
SendAsync ==
    /\ pc = "send"
    /\ \/ state = Open /\ buffered < MaxBuffered /\ buffered' = buffered + 1
       \/ UNCHANGED buffered
    /\ Returns("OK")
    /\ UNCHANGED <<inside, want, slot, fresh, memory,
                   registered, called, queue, state, known>>

Close ==
    /\ pc = "idle"
    /\ Returns("OK")
    /\ IF state < Closing THEN Becomes(Closing) ELSE UNCHANGED channelVars
    /\ UNCHANGED <<inside, want, slot, fresh, memory>>

-----------------------------------------------------------------------------
(* The channel and the peer *)

Transition ==
    /\ pc # "none" /\ ~inside
    /\ \E s \in Connecting..Closed :
          /\ s > state
          /\ Becomes(s)
    /\ UNCHANGED <<handleVars, memory>>

Receive ==
    /\ pc # "none" /\ state = Open /\ Len(queue) < MaxQueue
    /\ Notify("message")
    /\ UNCHANGED <<handleVars, memory, registered, called, state, known, buffered>>

Drain ==
    /\ Len(queue) < MaxQueue
    /\ \E n \in 1..buffered :
          /\ buffered' = buffered - n
          /\ Notify("amount")
    /\ UNCHANGED <<handleVars, memory, registered, called, state, known>>

-----------------------------------------------------------------------------
(* The signalling thread *)

(* Mutant: the state was read when the observer was made. *)
CallbackStale(e) ==
    /\ called' = e.to
    /\ known' = known

(* Mutant: only the first change is passed on. *)
CallbackOnce(e) ==
    /\ called' = e.to
    /\ known' = IF e.kind = "state" /\ known[e.to] = Connecting
                THEN [known EXCEPT ![e.to] = state] ELSE known

(* OnStateChange reads the state again: it is told that the state changed, not
   what it changed to. *)
Callback(e) ==
    /\ called' = e.to
    /\ known' = IF e.kind = "state" THEN [known EXCEPT ![e.to] = state] ELSE known

(* A notification for an observer that has gone since is dropped. *)
Deliver ==
    /\ queue # <<>> /\ called = NoObserver /\ ~inside
    /\ queue' = Tail(queue)
    /\ IF Head(queue).to = registered THEN Callback(Head(queue))
       ELSE UNCHANGED <<called, known>>
    /\ UNCHANGED <<handleVars, memory, registered, state, buffered>>

EndCallback ==
    /\ called # NoObserver
    /\ called' = NoObserver
    /\ UNCHANGED <<handleVars, memory, registered, queue, state, known, buffered>>

-----------------------------------------------------------------------------
Calling ==
    \/ CreateDataChannel \/ OnDataChannel \/ EndOnDataChannel \/ Release \/ Destroy
    \/ (\E w \in {"null", "new"} : SetObserver(w))
    \/ Unregister \/ Reset \/ Install \/ Register \/ Store
    \/ Send \/ SendAsync \/ Close

Next == Calling \/ Transition \/ Receive \/ Drain \/ Deliver \/ EndCallback

Spec == Init /\ [][Next]_vars

(* The rest of a call that has begun: what it does itself, and its hops. *)
Continue == Reset \/ Install \/ Store \/ SendAsync \/ Destroy
Hop == Unregister \/ Register

(* The signalling thread runs what is posted to it in order, so a hop is served
   though callbacks never cease; a call that has begun goes on; and callbacks
   return however many calls they make. *)
FairSpec ==
    /\ Spec
    /\ WF_vars(Deliver) /\ WF_vars(EndCallback)
    /\ WF_vars(Continue) /\ SF_vars(Hop) /\ SF_vars(EndOnDataChannel)

-----------------------------------------------------------------------------
(* Properties *)

(* The channel never calls, and is never left to call, an observer that was
   freed, although it outlives the handle that owns the observer. *)
NoDanglingObserver ==
    \A o \in {registered, called} \ {NoObserver} : memory[o] = "live"

(* Every live observer is held by the handle or by the set_observer that made
   it: replacing, clearing and releasing leave nothing behind, and after
   release, or a set_observer that fails, the channel has no observer. *)
ObserverOwned ==
    /\ \A o \in Observers : memory[o] = "live" <=> o \in {slot, fresh}
    /\ pc \in {"idle", "gone"} => registered = slot

(* Whoever the channel calls or may call is there, and nobody else is left. *)
ObserverLifetime == NoDanglingObserver /\ ObserverOwned

(* "Register before the channel opens or the open transition is missed"
   (Interop.h:703): nothing else is missed.  Once the notifications on their
   way have arrived, a registered observer that looked at the state it was
   registered in knows the state the channel is in, however often observers
   were exchanged while it changed. *)
NothingMissed ==
    /\ registered # NoObserver
    /\ \A i \in DOMAIN queue : queue[i].to = registered => queue[i].kind # "state"
    => known[registered] = state

(* An observer that was there while the channel was connecting hears of the
   opening, unless it is exchanged first. *)
OpenIsReported ==
    \A o \in Observers :
        (registered = o /\ known[o] = Connecting /\ state >= Open)
            ~> (registered # o \/ known[o] >= Open)

(* Observers are called only between registration and removal, and removal
   waits for the call in progress. *)
Abstract == INSTANCE Subscription WITH
    Objects <- Observers,
    on <- {registered} \ {NoObserver},
    busy <- {called} \ {NoObserver},
    over <- {o \in Observers : o # registered /\
                 (memory[o] = "freed" \/ (slot = o /\ pc \in {"reset", "dead"}))}
ImplementsSubscription == Abstract!Spec

(* A call on the handle returns although it waits for the callback in progress
   while others keep coming, and although it may be made inside
   on_data_channel, on the thread its hops go to. *)
CallsReturn == pc \notin {"none", "idle", "gone"} ~> pc \in {"idle", "gone"}
=============================================================================
