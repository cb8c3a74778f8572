--------------------------- MODULE DesktopCapture ---------------------------
(***************************************************************************)
(* Desktop capture as the application sees it                              *)
(* (WebRtcInterop/src/DesktopCapture.cc): the list of sources is walked, a *)
(* track is created for the id of one of them, and its capture thread,     *)
(* whose life is DesktopTrack's, delivers frames at the rate asked for.    *)
(*                                                                         *)
(* Time is in milliseconds and relative: what matters of the loop's        *)
(* deadline is by how much a capture started behind it.                    *)
(***************************************************************************)
EXTENDS DesktopTrack, Enumeration

CONSTANTS
    MaxFps,         \* the rate rtc_desktop_track_create was given
    MaxCapture,     \* bound: how long CaptureFrame may take
    Jitter          \* bound: how much later than asked for a sleep may end

ASSUME PacingAssumption ==
    /\ MaxFps \in Nat \ {0}
    /\ MaxCapture \in Nat /\ Jitter \in Nat

(* interval_ms_: zero above 1000 frames per second. *)
Interval == 1000 \div MaxFps

VARIABLES
    wanted,     \* the source_id a creation was given
    late,       \* by how much the capture starts after its deadline, "next"
    early,      \* history: the most by which frames came too soon after any earlier one
    behind      \* history: the most by which quick captures came too late

pacing == <<late, early, behind>>
desktopVars == <<vars, walkVars, wanted, pacing>>

DesktopTypeOK ==
    /\ TypeOK /\ WalkTypeOK
    /\ wanted \in [Sources -> Devices \cup {"none"}]
    /\ late \in [Sources -> 0..Jitter]
    /\ early \in [Sources -> Nat]
    /\ behind \in [Sources -> Nat]

DesktopInit ==
    /\ Init /\ WalkInit
    /\ wanted = [s \in Sources |-> "none"]
    /\ late = [s \in Sources |-> 0]
    /\ early = [s \in Sources |-> 0]
    /\ behind = [s \in Sources |-> 0]

-----------------------------------------------------------------------------
(* One round of the loop in DesktopSource::Run *)

Monus(a, b) == IF a > b THEN a - b ELSE 0
OnTime(s, d) == late[s] + d < Interval

(* From the start of a capture that takes d to the start of the next one, when
   a sleep ends j after it should. *)
Gap(s, d, j) == IF OnTime(s, d) THEN Interval - late[s] + j ELSE d

(* Mutant: a deadline that was missed is kept, and caught up with. *)
NextLateCatchingUp(s, d, j) == IF OnTime(s, d) THEN j ELSE late[s] + d - Interval

(* next = now after an overrun: the next capture starts a schedule of its own. *)
NextLate(s, d, j) == IF OnTime(s, d) THEN j ELSE 0

(* d + Jitter < Interval: a capture that leaves room in the interval. *)
Quick(d) == d + Jitter < Interval

PacedFrame(s) ==
    /\ CaptureFrame(s)
    /\ \E d \in 0..MaxCapture, j \in 0..Jitter :
          /\ late' = [late EXCEPT ![s] = NextLate(s, d, j)]
          /\ early' = [early EXCEPT ![s] = Monus(@ + Interval, Gap(s, d, j))]
          /\ behind' = [behind EXCEPT ![s] =
                           IF Quick(d) THEN Monus(@ + Gap(s, d, j), Interval) ELSE 0]
    /\ UNCHANGED <<walkVars, wanted>>

-----------------------------------------------------------------------------
(* Creation *)

(* rtc_desktop_track_create for a source the caller was told of. *)
CreateTrack(s) ==
    /\ kind = "desktop"
    /\ \E i \in DOMAIN shown : wanted' = [wanted EXCEPT ![s] = shown[i]]
    /\ StartThread(s)
    /\ UNCHANGED <<walkVars, pacing>>

Present(d) == \E i \in DOMAIN attached : attached[i] = d

(* The capturer looks for the id among the sources there are now. *)
SelectWanted(s) ==
    /\ SelectSource(s)
    /\ (capture'[s] = "start") = Present(wanted[s])
    /\ UNCHANGED <<walkVars, wanted, pacing>>

Alone == UNCHANGED <<walkVars, wanted, pacing>>

(* The steps of DesktopTrack that nothing here has a part in. *)
CreatingOn(s) == Creating(s) /\ Alone
CapturingOn(s) ==
    \/ (CreateCapturer(s) \/ StartCapturer(s) \/ CheckRunning(s) \/ EndThread(s)) /\ Alone
    \/ SelectWanted(s) \/ PacedFrame(s)
Holding(s) == (AddTrack(s) \/ RemoveTrack(s) \/ Release(s)) /\ Alone

DesktopNext ==
    \/ \E s \in Sources : CreateTrack(s) \/ CreatingOn(s) \/ CapturingOn(s) \/ Holding(s)
    \/ (Walk \/ System) /\ UNCHANGED <<vars, wanted, pacing>>

DesktopSpec == DesktopInit /\ [][DesktopNext]_desktopVars

(* Both threads of a track run when they can; who walks the list owes nothing. *)
FairDesktopSpec ==
    /\ DesktopSpec
    /\ \A s \in Sources : WF_desktopVars(CreatingOn(s)) /\ WF_desktopVars(CapturingOn(s))

-----------------------------------------------------------------------------
(* Properties *)

(* "Sleep only for what is left of the period, and if capture already overran
   it, go straight round again" (DesktopCapture.cc:185-189).  From any frame to
   any later one the loop takes no less than the intervals between them, but
   for one sleep's lateness: an overrun is not made up for by a burst.  And as
   long as the captures are quick it takes no more: neither the time they take
   nor the lateness of the sleeps adds up. *)
OnSchedule == \A s \in Sources : early[s] <= Jitter /\ behind[s] <= Jitter
=============================================================================
