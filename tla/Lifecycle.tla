----------------------------- MODULE Lifecycle -----------------------------
(***************************************************************************)
(* What the library promises a caller of rtc_initialize, rtc_terminate,    *)
(* rtc_factory_create/release and rtc_audio_device_count/info: each call   *)
(* takes effect at one instant, whatever other threads do, and answers     *)
(* from what the library is at that instant (Interop.h:292-312, wiki       *)
(* Interop-ABI.md "Library" and "Factory").                                *)
(***************************************************************************)
CONSTANTS Actors, Factories

VARIABLES
    up,         \* the library is initialised
    handles,    \* the factory handles the application holds
    ret         \* the status of each caller's last call

vars == <<up, handles, ret>>

Answers(a, s) == ret' = [ret EXCEPT ![a] = s]

Init == up = FALSE /\ handles = {} /\ ret = [a \in Actors |-> "OK"]

(* Initialising an initialised library is refused, and a failure leaves it
   as it was. *)
Initialize(a) ==
    /\ \/ ~up /\ up' = TRUE /\ Answers(a, "OK")
       \/ ~up /\ Answers(a, "INTERNAL") /\ UNCHANGED up
       \/ up /\ Answers(a, "INVALID_STATE") /\ UNCHANGED up
    /\ UNCHANGED handles

Terminate(a) ==
    /\ \/ up /\ up' = FALSE /\ Answers(a, "OK")
       \/ ~up /\ Answers(a, "INVALID_STATE") /\ UNCHANGED up
    /\ UNCHANGED handles

(* A handle exists from the instant its creation answers RTC_OK. *)
CreateFactory(a, f) ==
    /\ \/ up /\ f \notin handles /\ handles' = handles \cup {f} /\ Answers(a, "OK")
       \/ up /\ Answers(a, "INTERNAL") /\ UNCHANGED handles
       \/ ~up /\ Answers(a, "INVALID_STATE") /\ UNCHANGED handles
    /\ UNCHANGED up

Enumerate(a) ==
    /\ \/ up /\ \E s \in {"OK", "NOT_FOUND", "INTERNAL"} : Answers(a, s)
       \/ ~up /\ handles # {} /\ Answers(a, "INTERNAL")  \* no device module at all
       \/ ~up /\ Answers(a, "INVALID_STATE")
    /\ UNCHANGED <<up, handles>>

ReleaseFactory(f) ==
    /\ f \in handles /\ handles' = handles \ {f}
    /\ UNCHANGED <<up, ret>>

Next ==
    \/ \E a \in Actors : Initialize(a) \/ Terminate(a) \/ Enumerate(a)
    \/ \E a \in Actors, f \in Factories : CreateFactory(a, f)
    \/ \E f \in Factories : ReleaseFactory(f)

Spec == Init /\ [][Next]_vars
=============================================================================
