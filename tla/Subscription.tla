---------------------------- MODULE Subscription ----------------------------
(***************************************************************************)
(* What registering a callback object promises, for frame sinks and for    *)
(* data channel observers alike: an object is called only between its      *)
(* registration and its removal, the removal waits for the call that is in *)
(* progress, and an object that was removed is never called again          *)
(* (FrameSink.cc:130-131, DataChannel.cc:86-88, 153-154).                  *)
(***************************************************************************)
CONSTANT Objects

VARIABLES
    on,     \* the objects that are registered
    busy,   \* the objects that are being called
    over    \* the objects that were removed

vars == <<on, busy, over>>

Init == on = {} /\ busy = {} /\ over = {}

Subscribe(k) ==
    /\ k \notin on \cup over
    /\ on' = on \cup {k}
    /\ UNCHANGED <<busy, over>>

Unsubscribe(k) ==
    /\ k \in on \ busy
    /\ on' = on \ {k}
    /\ over' = over \cup {k}
    /\ UNCHANGED busy

Notify(k) ==
    /\ k \in on \ busy
    /\ busy' = busy \cup {k}
    /\ UNCHANGED <<on, over>>

Done(k) ==
    /\ k \in busy
    /\ busy' = busy \ {k}
    /\ UNCHANGED <<on, over>>

Next == \E k \in Objects : Subscribe(k) \/ Unsubscribe(k) \/ Notify(k) \/ Done(k)

Spec == Init /\ [][Next]_vars
=============================================================================
