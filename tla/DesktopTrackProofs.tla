------------------------- MODULE DesktopTrackProofs -------------------------
(***************************************************************************)
(* The safety properties of DesktopTrack, for any number of creations and  *)
(* any length of the wait, and the reason why a capture thread outlives    *)
(* its track: the thread's own reference keeps running_ set.               *)
(***************************************************************************)
EXTENDS DesktopTrack, TLAPS

Capturers == {"loop", "frame"}

(* The capture thread: its reference lasts as long as it, and it leaves its
   loop only once running_ is cleared. *)
ThreadInv(s) ==
    /\ "thread" \in refs[s] <=> capture[s] \notin {"none", "done"}
    /\ capture[s] \in Capturers => started[s]
    /\ started[s] /\ running[s] => capture[s] \in Capturers

(* What is held, and by whom, at each position of the creating call. *)
CreateInv(s) ==
    /\ create[s] = "unused" =>
          refs[s] = {} /\ capture[s] = "none" /\ ~running[s] /\ ~started[s]
    /\ create[s] \in {"polling", "decide", "joining"} =>
          /\ "create" \in refs[s] /\ "track" \notin refs[s]
          /\ joinable[s] /\ capture[s] # "none"
          /\ running[s] <=> create[s] # "joining"
    /\ create[s] \in {"tracking", "handle"} =>
          /\ started[s] /\ running[s] /\ joinable[s]
          /\ refs[s] = {"create", "thread"} \cup (IF create[s] = "handle" THEN {"track"} ELSE {})
    /\ create[s] = "handle" => owners[s] = {"create"}
    /\ create[s] \notin {"handle", "returned"} => owners[s] = {}
    /\ create[s] # "returned" => status[s] = "none" /\ fate[s] = "alive"

(* What a call that has returned leaves behind. *)
ReturnInv(s) ==
    create[s] = "returned" =>
        \/ /\ status[s] = "NOT_FOUND" /\ capture[s] = "done" /\ fate[s] = "destroyed"
           /\ refs[s] = {} /\ owners[s] = {}
        \/ /\ status[s] \in {"OK", "INTERNAL"} /\ fate[s] = "alive"
           /\ started[s] /\ running[s] /\ joinable[s]
           /\ refs[s] = {"thread"} \cup (IF owners[s] = {} THEN {} ELSE {"track"})

SourceInv == \A s \in Sources : ThreadInv(s) /\ CreateInv(s) /\ ReturnInv(s)

IndInv == TypeOK /\ SourceInv

-----------------------------------------------------------------------------
(* Every step preserves IndInv.  A step of source s leaves the others alone,
   so all that counts is what it does to s. *)

LEMMA OthersUnmoved ==
    ASSUME IndInv, NEW s \in Sources, Creating(s) \/ Capturing(s) \/ Application(s),
           NEW x \in Sources, x # s
    PROVE  (ThreadInv(x) /\ CreateInv(x) /\ ReturnInv(x))'
<1> USE DEF IndInv, TypeOK, GotoCreate, GotoCapture, Answer, DropTrackRef, DropSourceRef
<1>1. /\ create'[x] = create[x] /\ status'[x] = status[x] /\ running'[x] = running[x]
      /\ started'[x] = started[x] /\ joinable'[x] = joinable[x] /\ capture'[x] = capture[x]
      /\ refs'[x] = refs[x] /\ owners'[x] = owners[x] /\ fate'[x] = fate[x]
  <2>1. CASE Creating(s)
    BY <2>1 DEF Creating, Poll, Decide, Join, CreateVideoTrack, MakeHandle
  <2>2. CASE Capturing(s)
    BY <2>2 DEF Capturing, CreateCapturer, SelectSource, StartCapturer, CheckRunning,
                CaptureFrame, EndThread
  <2>3. CASE Application(s)
    BY <2>3 DEF Application, StartThread, AddTrack, RemoveTrack, Release
  <2> QED
    BY <2>1, <2>2, <2>3
<1> QED
  BY <1>1 DEF SourceInv, ThreadInv, CreateInv, ReturnInv, Capturers

LEMMA StepOfSource ==
    ASSUME IndInv, NEW s \in Sources, Creating(s) \/ Capturing(s) \/ Application(s)
    PROVE  TypeOK' /\ (ThreadInv(s) /\ CreateInv(s) /\ ReturnInv(s))'
<1> DEFINE Goal == TypeOK' /\ (ThreadInv(s) /\ CreateInv(s) /\ ReturnInv(s))'
<1>0. ThreadInv(s) /\ CreateInv(s) /\ ReturnInv(s)
  BY DEF IndInv, SourceInv
<1> USE <1>0, DesktopAssumption
    DEF IndInv, TypeOK, ThreadInv, CreateInv, ReturnInv, Capturers,
        CreatePositions, CapturePositions
<1>1. CASE StartThread(s)
  BY <1>1 DEF StartThread, GotoCreate, GotoCapture
<1>2. CASE Poll(s)
  BY <1>2 DEF Poll, GotoCreate
<1>3. CASE Decide(s)
  <2>1. CASE started[s]
    BY <1>3, <2>1 DEF Decide, GotoCreate
  <2>2. CASE ~started[s]
    BY <1>3, <2>2 DEF Decide, GotoCreate
  <2> QED
    BY <2>1, <2>2
<1>4. CASE Join(s)
  BY <1>4 DEF Join, DropSourceRef, Destroyed, Answer
<1>5. CASE CreateVideoTrack(s)
  BY <1>5 DEF CreateVideoTrack, DropSourceRef, Destroyed, Answer, GotoCreate
<1>6. CASE MakeHandle(s)
  <2>1. /\ refs[s] = {"create", "thread", "track"} /\ fate[s] = "alive"
        /\ started[s] /\ running[s] /\ joinable[s] /\ create[s] = "handle"
    BY <1>6 DEF MakeHandle
  <2>2. CASE status'[s] = "OK"
    <3>1. owners' = [owners EXCEPT ![s] = {"handle"}]
      BY <1>6, <2>2 DEF MakeHandle, Answer
    <3>2. DropSourceRef(s, {"create"}, FALSE, joinable[s]) /\ Answer(s, "OK")
      BY <1>6, <2>2 DEF MakeHandle, Answer
    <3>3. UNCHANGED <<polls, started, capture>>
      BY <1>6 DEF MakeHandle
    <3> QED
      BY <2>1, <3>1, <3>2, <3>3 DEF DropSourceRef, Destroyed, Answer
  <2>3. CASE status'[s] # "OK"
    <3>1. DropTrackRef(s, "create", {"create"}) /\ Answer(s, "INTERNAL")
      BY <1>6, <2>3 DEF MakeHandle, Answer
    <3>2. UNCHANGED <<polls, started, capture>>
      BY <1>6 DEF MakeHandle
    <3>3. owners' = [owners EXCEPT ![s] = {}] /\ owners[s] \ {"create"} = {}
      BY <1>6, <2>1, <3>1 DEF DropTrackRef
    <3> DEFINE who == {"create"} \cup (IF owners[s] \ {"create"} = {} THEN {"track"} ELSE {})
    <3>4. /\ refs' = [refs EXCEPT ![s] = refs[s] \ who]
          /\ fate' = [fate EXCEPT ![s] = Destroyed(s, refs[s] \ who, FALSE, joinable[s])]
          /\ running' = [running EXCEPT ![s] = running[s] /\ refs[s] \ who # {}]
          /\ joinable' = [joinable EXCEPT ![s] = joinable[s] /\ (refs[s] \ who # {} \/ ~running[s])]
      BY ONLY <3>1 DEF DropTrackRef, DropSourceRef
    <3>5. refs[s] \ who = {"thread"}
      BY ONLY <2>1, <3>3
    <3>6. refs' = [refs EXCEPT ![s] = {"thread"}] /\ UNCHANGED <<running, joinable, fate>>
      BY <2>1, <3>4, <3>5 DEF Destroyed
    <3> QED
      BY <2>1, <3>1, <3>2, <3>3, <3>6 DEF Answer
  <2> QED
    BY <2>2, <2>3
<1>7. CASE CreateCapturer(s)
  BY <1>7 DEF CreateCapturer, GotoCapture
<1>8. CASE SelectSource(s)
  BY <1>8 DEF SelectSource, GotoCapture
<1>9. CASE StartCapturer(s)
  BY <1>9 DEF StartCapturer, GotoCapture
<1>10. CASE CheckRunning(s)
  BY <1>10 DEF CheckRunning, GotoCapture
<1>11. CASE CaptureFrame(s)
  BY <1>11 DEF CaptureFrame, GotoCapture
<1>12. CASE EndThread(s)
  BY <1>12 DEF EndThread, DropSourceRef, Destroyed, GotoCapture
<1>13. CASE AddTrack(s)
  BY <1>13 DEF AddTrack
<1>14. CASE RemoveTrack(s)
  BY <1>14 DEF RemoveTrack, DropTrackRef, DropSourceRef, Destroyed
<1>15. CASE Release(s)
  BY <1>15 DEF Release, DropTrackRef, DropSourceRef, Destroyed
<1> QED
  BY ONLY Creating(s) \/ Capturing(s) \/ Application(s),
     <1>1, <1>2, <1>3, <1>4, <1>5, <1>6, <1>7, <1>8,
     <1>9, <1>10, <1>11, <1>12, <1>13, <1>14, <1>15 DEF Creating, Capturing, Application

LEMMA Preserved == IndInv /\ [Next]_vars => IndInv'
<1> SUFFICES ASSUME IndInv, [Next]_vars PROVE IndInv'
  OBVIOUS
<1>1. ASSUME NEW s \in Sources, Creating(s) \/ Capturing(s) \/ Application(s) PROVE IndInv'
  BY <1>1, StepOfSource, OthersUnmoved DEF IndInv, SourceInv
<1>2. CASE UNCHANGED vars
  BY <1>2 DEF vars, IndInv, TypeOK, SourceInv, ThreadInv, CreateInv, ReturnInv
<1> QED
  BY <1>1, <1>2 DEF Next

-----------------------------------------------------------------------------
(* The theorems *)

(* What each position of the creating call and of the capture thread says of
   the references and the flags of the source. *)
THEOREM Invariance == Spec => []IndInv
<1>1. Init => IndInv
  BY DesktopAssumption
     DEF Init, IndInv, TypeOK, SourceInv, ThreadInv, CreateInv, ReturnInv, Capturers,
         CreatePositions, CapturePositions
<1>2. QED
  BY <1>1, Preserved, PTL DEF Spec

(* The variables of DesktopSource and its callers keep their types; the wait
   never exceeds its bound. *)
THEOREM TypeCorrect == Spec => []TypeOK
  BY Invariance, PTL DEF IndInv

(* No reference is the last one at a moment when dropping it would join the
   capture thread from itself or destroy a joinable std::thread. *)
THEOREM Destruction == Spec => []SafeDestruction
<1>1. IndInv => SafeDestruction
  BY DEF IndInv, SourceInv, CreateInv, ReturnInv, SafeDestruction, TypeOK, CreatePositions
<1>2. QED
  BY <1>1, Invariance, PTL

(* A creation refused with RTC_ERR_NOT_FOUND has joined its thread and destroyed its source. *)
THEOREM Refusal == Spec => []RefusalLeavesNothing
<1>1. IndInv => RefusalLeavesNothing
  BY DEF IndInv, SourceInv, CreateInv, ReturnInv, RefusalLeavesNothing
<1>2. QED
  BY <1>1, Invariance, PTL

(* Capture runs for as long as anybody holds the track. *)
THEOREM CapturesOn == Spec => []CapturesWhileHeld
<1>1. IndInv => CapturesWhileHeld
  <2> SUFFICES ASSUME IndInv, NEW s \in Sources, owners[s] # {}
               PROVE  running[s] /\ started[s] /\ capture[s] \in {"loop", "frame"}
    BY DEF CapturesWhileHeld
  <2>1. create[s] \in {"handle", "returned"}
    BY DEF IndInv, SourceInv, CreateInv
  <2>2. running[s] /\ started[s]
    BY <2>1 DEF IndInv, SourceInv, CreateInv, ReturnInv
  <2> QED
    BY <2>2 DEF IndInv, SourceInv, ThreadInv, Capturers
<1>2. QED
  BY <1>1, Invariance, PTL

(* The other side of the leak: once a creation has answered RTC_OK, or
   RTC_ERR_INTERNAL for want of a video track or a handle, the capture thread
   never leaves its loop, whatever becomes of the track. *)
CaptureNeverEnds ==
    \A s \in Sources :
        status[s] \in {"OK", "INTERNAL"} => running[s] /\ capture[s] \in {"loop", "frame"}

THEOREM Leak == Spec => []CaptureNeverEnds
<1>1. IndInv => CaptureNeverEnds
  <2> SUFFICES ASSUME IndInv, NEW s \in Sources, status[s] \in {"OK", "INTERNAL"}
               PROVE  running[s] /\ capture[s] \in {"loop", "frame"}
    BY DEF CaptureNeverEnds
  <2>1. create[s] = "returned"
    BY DEF IndInv, SourceInv, CreateInv
  <2>2. running[s] /\ started[s]
    BY <2>1 DEF IndInv, SourceInv, ReturnInv
  <2> QED
    BY <2>2 DEF IndInv, SourceInv, ThreadInv, Capturers
<1>2. QED
  BY <1>1, Invariance, PTL
=============================================================================
