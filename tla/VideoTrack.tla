----------------------------- MODULE VideoTrack -----------------------------
(***************************************************************************)
(* Frame delivery (WebRtcInterop/src/FrameSink.cc): several handles onto   *)
(* one video track, each with a sink of its own, used by the application's *)
(* threads while the capture or decode thread delivers frames.             *)
(*                                                                         *)
(* The track's broadcaster is libwebrtc's: it holds its lock while it      *)
(* passes one frame to every registered sink, and AddOrUpdateSink and      *)
(* RemoveSink take the same lock.  A handle is used by one thread at a     *)
(* time, as the shim does not lock rtc_media_track::sink.                  *)
(***************************************************************************)
EXTENDS Naturals, FiniteSets

CONSTANTS
    Handles,    \* the rtc_media_track handles onto the track
    Sinks,      \* the FrameSink objects that may be allocated
    NoSink      \* a null sink pointer

ASSUME SinkAssumption == NoSink \notin Sinks

VARIABLES
    pc,         \* where the call on each handle is
    slot,       \* rtc_media_track::sink
    fresh,      \* the sink an add_sink call has allocated
    memory,     \* each FrameSink: "unborn", "live" or "freed"
    registered, \* the sinks the broadcaster knows
    locked,     \* the broadcaster is delivering a frame
    todo,       \* the sinks that frame has yet to reach
    inCall,     \* the sink whose OnFrame is running
    status      \* what the last call on a handle returned

vars == <<pc, slot, fresh, memory, registered, locked, todo, inCall, status>>

Positions == {"none", "idle", "adding", "storing", "removing", "reset", "dying", "dead", "gone"}

TypeOK ==
    /\ pc \in [Handles -> Positions]
    /\ slot \in [Handles -> Sinks \cup {NoSink}]
    /\ fresh \in [Handles -> Sinks \cup {NoSink}]
    /\ memory \in [Sinks -> {"unborn", "live", "freed"}]
    /\ registered \in SUBSET Sinks
    /\ locked \in BOOLEAN
    /\ todo \in SUBSET Sinks
    /\ inCall \in Sinks \cup {NoSink}
    /\ status \in [Handles -> {"OK", "INVALID_STATE", "INTERNAL"}]

Init ==
    /\ pc = [h \in Handles |-> "none"]
    /\ slot = [h \in Handles |-> NoSink]
    /\ fresh = [h \in Handles |-> NoSink]
    /\ memory = [k \in Sinks |-> "unborn"]
    /\ registered = {}
    /\ locked = FALSE
    /\ todo = {}
    /\ inCall = NoSink
    /\ status = [h \in Handles |-> "OK"]

Goto(h, p) == pc' = [pc EXCEPT ![h] = p]
Returns(h, s) == Goto(h, "idle") /\ status' = [status EXCEPT ![h] = s]

frameVars == <<locked, todo, inCall>>

-----------------------------------------------------------------------------
(* Calls on a handle *)

(* rtc_video_track_create, rtc_rtp_receiver_get_track, on_track: every one of
   them hands out a fresh handle with an empty slot. *)
Obtain(h) ==
    /\ pc[h] = "none"
    /\ Goto(h, "idle")
    /\ UNCHANGED <<slot, fresh, memory, registered, frameVars, status>>

AddSink(h) ==
    /\ pc[h] = "idle"
    /\ \/ /\ slot[h] # NoSink
          /\ Returns(h, "INVALID_STATE")
          /\ UNCHANGED <<fresh, memory>>
       \/ /\ slot[h] = NoSink
          /\ Returns(h, "INTERNAL")         \* the allocation failed
          /\ UNCHANGED <<fresh, memory>>
       \/ /\ slot[h] = NoSink
          /\ \E k \in Sinks :
                /\ memory[k] = "unborn"
                /\ memory' = [memory EXCEPT ![k] = "live"]
                /\ fresh' = [fresh EXCEPT ![h] = k]
          /\ Goto(h, "adding")
          /\ UNCHANGED status
    /\ UNCHANGED <<slot, registered, frameVars>>

(* AddOrUpdateSink comes before the sink is stored in the handle. *)
Register(h) ==
    /\ pc[h] = "adding" /\ ~locked
    /\ registered' = registered \cup {fresh[h]}
    /\ Goto(h, "storing")
    /\ UNCHANGED <<slot, fresh, memory, frameVars, status>>

Store(h) ==
    /\ pc[h] = "storing"
    /\ slot' = [slot EXCEPT ![h] = fresh[h]]
    /\ memory' = [k \in Sinks |-> IF k = slot[h] THEN "freed" ELSE memory[k]]
    /\ fresh' = [fresh EXCEPT ![h] = NoSink]
    /\ Returns(h, "OK")
    /\ UNCHANGED <<registered, frameVars>>

RemoveSink(h) ==
    /\ pc[h] = "idle"
    /\ \/ slot[h] = NoSink /\ Returns(h, "INVALID_STATE")
       \/ slot[h] # NoSink /\ Goto(h, "removing") /\ UNCHANGED status
    /\ UNCHANGED <<slot, fresh, memory, registered, frameVars>>

(* Mutant: the registration goes without waiting for the frame in delivery. *)
UnregisterAtOnce(h) ==
    /\ pc[h] \in {"removing", "dying"}
    /\ registered' = registered \ {slot[h]}
    /\ Goto(h, IF pc[h] = "removing" THEN "reset" ELSE "dead")
    /\ UNCHANGED <<slot, fresh, memory, frameVars, status>>

(* RemoveSink is synchronous: it waits for the frame in delivery. *)
Unregister(h) ==
    /\ pc[h] \in {"removing", "dying"} /\ ~locked
    /\ registered' = registered \ {slot[h]}
    /\ Goto(h, IF pc[h] = "removing" THEN "reset" ELSE "dead")
    /\ UNCHANGED <<slot, fresh, memory, frameVars, status>>

(* Mutant: release() where reset() was meant. *)
FreeSinkForgets(h) ==
    /\ slot' = [slot EXCEPT ![h] = NoSink]
    /\ UNCHANGED memory

FreeSink(h) ==
    /\ memory' = [memory EXCEPT ![slot[h]] = "freed"]
    /\ slot' = [slot EXCEPT ![h] = NoSink]

Reset(h) ==
    /\ pc[h] = "reset"
    /\ FreeSink(h)
    /\ Returns(h, "OK")
    /\ UNCHANGED <<fresh, registered, frameVars>>

(* rtc_media_track_release: the destructor removes a sink that is still set. *)
Release(h) ==
    /\ pc[h] = "idle"
    /\ Goto(h, IF slot[h] = NoSink THEN "gone" ELSE "dying")
    /\ UNCHANGED <<slot, fresh, memory, registered, frameVars, status>>

(* The members go, the sink first. *)
Destroy(h) ==
    /\ pc[h] = "dead"
    /\ FreeSink(h)
    /\ Goto(h, "gone")
    /\ UNCHANGED <<fresh, registered, frameVars, status>>

-----------------------------------------------------------------------------
(* The capture or decode thread *)

BeginFrame ==
    /\ ~locked
    /\ locked' = TRUE
    /\ todo' = registered
    /\ UNCHANGED <<pc, slot, fresh, memory, registered, inCall, status>>

(* FrameSink::OnFrame; a frame that does not convert to I420 is dropped. *)
CallSink ==
    /\ locked /\ inCall = NoSink
    /\ \E k \in todo :
          /\ todo' = todo \ {k}
          /\ inCall' = k
    /\ UNCHANGED <<pc, slot, fresh, memory, registered, locked, status>>

EndCall ==
    /\ inCall # NoSink
    /\ inCall' = NoSink
    /\ UNCHANGED <<pc, slot, fresh, memory, registered, locked, todo, status>>

EndFrame ==
    /\ locked /\ inCall = NoSink /\ todo = {}
    /\ locked' = FALSE
    /\ UNCHANGED <<pc, slot, fresh, memory, registered, todo, inCall, status>>

-----------------------------------------------------------------------------
Calling(h) ==
    \/ Obtain(h) \/ AddSink(h) \/ Register(h) \/ Store(h)
    \/ RemoveSink(h) \/ Unregister(h) \/ Reset(h) \/ Release(h) \/ Destroy(h)

Delivering == BeginFrame \/ CallSink \/ EndCall \/ EndFrame

Next == Delivering \/ \E h \in Handles : Calling(h)

Spec == Init /\ [][Next]_vars

-----------------------------------------------------------------------------
(* Properties *)

(* No frame is ever passed to a sink that was freed, nor could the next one
   be: whatever the broadcaster knows or is about to call is alive. *)
NoDanglingSink ==
    \A k \in registered \cup todo \cup ({inCall} \ {NoSink}) : memory[k] = "live"

(* Every allocated sink is owned by one handle or by the call that allocated
   it, so nothing leaks, and no two handles would free the same one. *)
OwnedOnce ==
    \A k \in Sinks : memory[k] = "live" =>
        Cardinality({h \in Handles : slot[h] = k} \cup {h \in Handles : fresh[h] = k}) = 1

(* "One sink per track": a handle never has two registrations, and once
   remove_sink or release has returned it has none. *)
Reachable(h) == {k \in registered : k = slot[h] \/ k = fresh[h]}
OneSinkPerHandle ==
    /\ registered = UNION {Reachable(h) : h \in Handles}
    /\ \A h \in Handles : Cardinality(Reachable(h)) <= 1
    /\ \A h \in Handles : pc[h] = "idle" => (Reachable(h) # {} <=> slot[h] # NoSink)

(* Both: whatever fails or is released, one owner for each sink and one
   registration for each handle. *)
SinkOwnership == OwnedOnce /\ OneSinkPerHandle

(* Sinks are called only between registration and removal, and removal waits
   for the call in progress. *)
Abstract == INSTANCE Subscription WITH
    Objects <- Sinks,
    on <- registered,
    busy <- {inCall} \ {NoSink},
    over <- {k \in Sinks : k \notin registered /\
                 (memory[k] = "freed" \/
                  \E h \in Handles : slot[h] = k /\ pc[h] \in {"reset", "dead"})}
ImplementsSubscription == Abstract!Spec
=============================================================================
