---------------------------- MODULE DesktopTrack ----------------------------
(***************************************************************************)
(* The life of a desktop track (WebRtcInterop/src/DesktopCapture.cc):      *)
(* rtc_desktop_track_create starts a capture thread and polls for it, the  *)
(* thread creates, uses and destroys the capturer, and references decide   *)
(* when the DesktopSource and the video track over it are destroyed.       *)
(*                                                                         *)
(* A source is named once per creation.  Its references are counted as the *)
(* set of those who hold one: the creating call, the capture thread (whose *)
(* lambda captures the scoped_refptr by value) and the video track.  The   *)
(* video track is held by the creating call, the caller's handle and the   *)
(* sender the track was added to.                                          *)
(***************************************************************************)
EXTENDS Naturals

CONSTANTS
    Sources,        \* one element per call of rtc_desktop_track_create
    Polls           \* how often the call looks whether the capturer is up

ASSUME DesktopAssumption == Polls \in Nat

VARIABLES
    create,     \* where the creating call is
    status,     \* what it returned
    polls,      \* how many times it has slept
    running,    \* DesktopSource::running_
    started,    \* DesktopSource::started_
    joinable,   \* DesktopSource::thread_.joinable()
    capture,    \* where the capture thread is
    refs,       \* who holds a reference on the source
    owners,     \* who holds a reference on the video track
    fate        \* "alive", "destroyed", "self_join" or "terminate"

vars == <<create, status, polls, running, started, joinable, capture, refs, owners, fate>>

CreatePositions == {"unused", "polling", "decide", "joining", "tracking", "handle", "returned"}
CapturePositions == {"none", "create", "select", "start", "loop", "frame", "exit", "done"}

TypeOK ==
    /\ create \in [Sources -> CreatePositions]
    /\ status \in [Sources -> {"none", "OK", "NOT_FOUND", "INTERNAL"}]
    /\ polls \in [Sources -> 0..Polls]
    /\ running \in [Sources -> BOOLEAN]
    /\ started \in [Sources -> BOOLEAN]
    /\ joinable \in [Sources -> BOOLEAN]
    /\ capture \in [Sources -> CapturePositions]
    /\ refs \in [Sources -> SUBSET {"create", "thread", "track"}]
    /\ owners \in [Sources -> SUBSET {"create", "handle", "sender"}]
    /\ fate \in [Sources -> {"alive", "destroyed", "self_join", "terminate"}]

Init ==
    /\ create = [s \in Sources |-> "unused"]
    /\ status = [s \in Sources |-> "none"]
    /\ polls = [s \in Sources |-> 0]
    /\ running = [s \in Sources |-> FALSE]
    /\ started = [s \in Sources |-> FALSE]
    /\ joinable = [s \in Sources |-> FALSE]
    /\ capture = [s \in Sources |-> "none"]
    /\ refs = [s \in Sources |-> {}]
    /\ owners = [s \in Sources |-> {}]
    /\ fate = [s \in Sources |-> "alive"]

-----------------------------------------------------------------------------
(* Giving references up.  The last one runs ~DesktopSource: Stop() clears
   running_ and joins the capture thread if it was set; then ~thread, which
   ends the process when the thread is still joinable. *)

Destroyed(s, r, onCaptureThread, stillJoinable) ==
    IF r # {} THEN fate[s]
    ELSE IF running[s] /\ stillJoinable /\ onCaptureThread THEN "self_join"
    ELSE IF ~running[s] /\ stillJoinable THEN "terminate"
    ELSE "destroyed"

DropSourceRef(s, who, onCaptureThread, stillJoinable) ==
    LET r == refs[s] \ who IN
    /\ refs' = [refs EXCEPT ![s] = r]
    /\ fate' = [fate EXCEPT ![s] = Destroyed(s, r, onCaptureThread, stillJoinable)]
    /\ running' = [running EXCEPT ![s] = running[s] /\ r # {}]
    /\ joinable' = [joinable EXCEPT ![s] = stillJoinable /\ (r # {} \/ ~running[s])]

(* The video track holds the source, and lets it go with its last owner. *)
DropTrackRef(s, who, also) ==
    /\ owners' = [owners EXCEPT ![s] = @ \ {who}]
    /\ DropSourceRef(s, also \cup (IF owners[s] \ {who} = {} THEN {"track"} ELSE {}),
                     FALSE, joinable[s])

Answer(s, st) ==
    /\ create' = [create EXCEPT ![s] = "returned"]
    /\ status' = [status EXCEPT ![s] = st]

GotoCreate(s, p) == create' = [create EXCEPT ![s] = p]
GotoCapture(s, p) == capture' = [capture EXCEPT ![s] = p]

-----------------------------------------------------------------------------
(* rtc_desktop_track_create, on the application's thread *)

StartThread(s) ==
    /\ create[s] = "unused"
    /\ GotoCreate(s, "polling")
    /\ running' = [running EXCEPT ![s] = TRUE]
    /\ started' = [started EXCEPT ![s] = FALSE]
    /\ joinable' = [joinable EXCEPT ![s] = TRUE]
    /\ refs' = [refs EXCEPT ![s] = {"create", "thread"}]
    /\ GotoCapture(s, "create")
    /\ UNCHANGED <<status, polls, owners, fate>>

(* Mutant: one round too many. *)
PollOnceMore(s) ==
    /\ create[s] = "polling"
    /\ IF polls[s] <= Polls /\ ~started[s]
       THEN polls' = [polls EXCEPT ![s] = @ + 1] /\ UNCHANGED create
       ELSE GotoCreate(s, "decide") /\ UNCHANGED polls
    /\ UNCHANGED <<status, running, started, joinable, capture, refs, owners, fate>>

Poll(s) ==
    /\ create[s] = "polling"
    /\ IF polls[s] < Polls /\ ~started[s]
       THEN polls' = [polls EXCEPT ![s] = @ + 1] /\ UNCHANGED create
       ELSE GotoCreate(s, "decide") /\ UNCHANGED polls
    /\ UNCHANGED <<status, running, started, joinable, capture, refs, owners, fate>>

(* Mutant: Stop() joins first and clears running_ afterwards. *)
DecideJoinFirst(s) ==
    /\ create[s] = "decide"
    /\ GotoCreate(s, IF started[s] THEN "tracking" ELSE "joining")
    /\ UNCHANGED <<status, polls, running, started, joinable, capture, refs, owners, fate>>

(* Mutant: the call returns nullptr and leaves the thread to itself. *)
DecideWithoutStop(s) ==
    /\ create[s] = "decide"
    /\ IF started[s]
       THEN GotoCreate(s, "tracking") /\ UNCHANGED <<status, running, joinable, refs, fate>>
       ELSE DropSourceRef(s, {"create"}, FALSE, joinable[s]) /\ Answer(s, "NOT_FOUND")
    /\ UNCHANGED <<polls, started, capture, owners>>

(* started_ is read once more: the capturer may have come up since. *)
Decide(s) ==
    /\ create[s] = "decide"
    /\ IF started[s]
       THEN GotoCreate(s, "tracking") /\ UNCHANGED running
       ELSE /\ running' = [running EXCEPT ![s] = FALSE]
            /\ GotoCreate(s, "joining")
    /\ UNCHANGED <<status, polls, started, joinable, capture, refs, owners, fate>>

(* Mutant: the call gives up on the capturer without joining its thread. *)
JoinSkipped(s) ==
    /\ create[s] = "joining"
    /\ DropSourceRef(s, {"create"}, FALSE, TRUE)
    /\ Answer(s, "NOT_FOUND")
    /\ UNCHANGED <<polls, started, capture, owners>>

(* The thread has ended: Stop() returns, and so does the call, with nullptr. *)
Join(s) ==
    /\ create[s] = "joining" /\ capture[s] = "done"
    /\ DropSourceRef(s, {"create"}, FALSE, FALSE)
    /\ Answer(s, "NOT_FOUND")
    /\ UNCHANGED <<polls, started, capture, owners>>

CreateVideoTrack(s) ==
    /\ create[s] = "tracking"
    /\ \/ /\ owners' = [owners EXCEPT ![s] = {"create"}]
          /\ refs' = [refs EXCEPT ![s] = @ \cup {"track"}]
          /\ GotoCreate(s, "handle")
          /\ UNCHANGED <<status, running, joinable, fate>>
       \/ /\ DropSourceRef(s, {"create"}, FALSE, joinable[s])
          /\ Answer(s, "INTERNAL")
          /\ UNCHANGED owners
    /\ UNCHANGED <<polls, started, capture>>

(* new rtc_media_track; the call's own references go as it returns. *)
MakeHandle(s) ==
    /\ create[s] = "handle"
    /\ \/ /\ owners' = [owners EXCEPT ![s] = {"handle"}]
          /\ DropSourceRef(s, {"create"}, FALSE, joinable[s])
          /\ Answer(s, "OK")
       \/ /\ DropTrackRef(s, "create", {"create"})
          /\ Answer(s, "INTERNAL")
    /\ UNCHANGED <<polls, started, capture>>

-----------------------------------------------------------------------------
(* DesktopSource::Run, on the capture thread *)

CreateCapturer(s) ==
    /\ capture[s] = "create"
    /\ \E p \in {"select", "exit"} : GotoCapture(s, p)
    /\ UNCHANGED <<create, status, polls, running, started, joinable, refs, owners, fate>>

(* Mutant: started_ is set before the source is known to exist. *)
SelectSourceAfterStarted(s) ==
    /\ capture[s] = "select"
    /\ started' = [started EXCEPT ![s] = TRUE]
    /\ \E p \in {"start", "exit"} : GotoCapture(s, p)
    /\ UNCHANGED <<create, status, polls, running, joinable, refs, owners, fate>>

SelectSource(s) ==
    /\ capture[s] = "select"
    /\ \E p \in {"start", "exit"} : GotoCapture(s, p)
    /\ UNCHANGED <<create, status, polls, running, started, joinable, refs, owners, fate>>

StartCapturer(s) ==
    /\ capture[s] = "start"
    /\ started' = [started EXCEPT ![s] = TRUE]
    /\ GotoCapture(s, "loop")
    /\ UNCHANGED <<create, status, polls, running, joinable, refs, owners, fate>>

CheckRunning(s) ==
    /\ capture[s] = "loop"
    /\ GotoCapture(s, IF running[s] THEN "frame" ELSE "exit")
    /\ UNCHANGED <<create, status, polls, running, started, joinable, refs, owners, fate>>

(* CaptureFrame, OnCaptureResult and the sleep up to the next deadline. *)
CaptureFrame(s) ==
    /\ capture[s] = "frame"
    /\ GotoCapture(s, "loop")
    /\ UNCHANGED <<create, status, polls, running, started, joinable, refs, owners, fate>>

(* Run returns: the capturer is destroyed, then the lambda with its reference. *)
EndThread(s) ==
    /\ capture[s] = "exit"
    /\ GotoCapture(s, "done")
    /\ DropSourceRef(s, {"thread"}, TRUE, joinable[s])
    /\ UNCHANGED <<create, status, polls, started, owners>>

-----------------------------------------------------------------------------
(* What the application does with the track *)

(* rtc_peer_connection_add_track, or replace_track: the sender holds it too. *)
AddTrack(s) ==
    /\ create[s] = "returned" /\ "handle" \in owners[s]
    /\ owners' = [owners EXCEPT ![s] = @ \cup {"sender"}]
    /\ UNCHANGED <<create, status, polls, running, started, joinable, capture, refs, fate>>

RemoveTrack(s) ==
    /\ "sender" \in owners[s]
    /\ DropTrackRef(s, "sender", {})
    /\ UNCHANGED <<create, status, polls, started, capture>>

(* rtc_media_track_release *)
Release(s) ==
    /\ create[s] = "returned" /\ "handle" \in owners[s]
    /\ DropTrackRef(s, "handle", {})
    /\ UNCHANGED <<create, status, polls, started, capture>>

-----------------------------------------------------------------------------
Creating(s) ==
    \/ Poll(s) \/ Decide(s) \/ Join(s) \/ CreateVideoTrack(s) \/ MakeHandle(s)

Capturing(s) ==
    \/ CreateCapturer(s) \/ SelectSource(s) \/ StartCapturer(s)
    \/ CheckRunning(s) \/ CaptureFrame(s) \/ EndThread(s)

Application(s) == StartThread(s) \/ AddTrack(s) \/ RemoveTrack(s) \/ Release(s)

Next == \E s \in Sources : Creating(s) \/ Capturing(s) \/ Application(s)

Spec == Init /\ [][Next]_vars

(* Both threads run when they can; the application owes nothing. *)
FairSpec == Spec /\ \A s \in Sources : WF_vars(Creating(s)) /\ WF_vars(Capturing(s))

-----------------------------------------------------------------------------
(* Properties *)

(* The last reference never goes on the capture thread while that thread would
   have to join itself, nor with the thread still joinable: either would end
   the process. *)
SafeDestruction == \A s \in Sources : fate[s] \in {"alive", "destroyed"}

(* RTC_ERR_NOT_FOUND leaves nothing behind: the capture thread has ended and
   the source is gone, even when the capturer came up just as the call gave
   up waiting. *)
RefusalLeavesNothing ==
    \A s \in Sources : status[s] = "NOT_FOUND" => capture[s] = "done" /\ fate[s] = "destroyed"

(* "Capture starts before this returns" (Interop.h:407), and goes on, with the
   source reporting itself live, for as long as anybody holds the track. *)
CapturesWhileHeld ==
    \A s \in Sources : owners[s] # {} =>
        running[s] /\ started[s] /\ capture[s] \in {"loop", "frame"}

(* A creation returns although it waits, and joins, a thread that may fail,
   be late or start just then. *)
CreateReturns == \A s \in Sources : create[s] = "polling" ~> create[s] = "returned"

(* "The source owns a capture thread" and the capturer is "destroyed here, on
   the thread that created it" (Interop-ABI.md:603, DesktopCapture.cc:203):
   once nobody holds the track, whether the caller had it and gave it back or
   the creation failed after the capture had started, the thread ends. *)
CaptureEnds ==
    \A s \in Sources :
        (status[s] \in {"OK", "INTERNAL"} /\ owners[s] = {}) ~> capture[s] = "done"
=============================================================================
