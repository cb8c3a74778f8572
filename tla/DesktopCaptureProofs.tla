------------------------ MODULE DesktopCaptureProofs ------------------------
(***************************************************************************)
(* Desktop capture for any rate, any bound on the captures and on the      *)
(* lateness of sleeps, and any number of devices: the pacing of the loop,  *)
(* the walk over the list, and that what is proved of DesktopTrack holds   *)
(* of a track that is created for one of the listed sources.               *)
(***************************************************************************)
EXTENDS DesktopCapture, DesktopTrackProofs, SequenceTheorems

-----------------------------------------------------------------------------
(* A track lives as DesktopTrack has it *)

(* Walking the list and keeping the deadline restrain the track and its two
   threads, and add nothing to what they do. *)
THEOREM TrackRefinement == DesktopSpec => Spec
<1>1. DesktopInit => Init
  BY DEF DesktopInit
<1>2. [DesktopNext]_desktopVars => [Next]_vars
  <2> SUFFICES ASSUME [DesktopNext]_desktopVars PROVE [Next]_vars
    OBVIOUS
  <2>1. CASE UNCHANGED desktopVars
    BY <2>1 DEF desktopVars
  <2>2. ASSUME NEW s \in Sources, CreateTrack(s) \/ CreatingOn(s) \/ CapturingOn(s) \/ Holding(s)
        PROVE  Creating(s) \/ Capturing(s) \/ Application(s)
    BY <2>2 DEF CreateTrack, CreatingOn, CapturingOn, Holding, Alone, SelectWanted, PacedFrame,
                Capturing, Application
  <2> QED
    BY <2>1, <2>2 DEF DesktopNext, Next
<1>3. QED
  BY <1>1, <1>2, PTL DEF DesktopSpec, Spec

(* Neither thread ends the process, whichever of them goes last. *)
THEOREM ListedDestruction == DesktopSpec => []SafeDestruction
  BY TrackRefinement, Destruction, PTL

(* A source that has gone by the time it is asked for leaves nothing behind. *)
THEOREM ListedRefusal == DesktopSpec => []RefusalLeavesNothing
  BY TrackRefinement, Refusal, PTL

(* A track that somebody holds is being captured. *)
THEOREM ListedCapture == DesktopSpec => []CapturesWhileHeld
  BY TrackRefinement, CapturesOn, PTL

-----------------------------------------------------------------------------
(* The pacing of the loop *)

(* What a capture is late by is what the next frames may be closer by, and all
   that quick captures have ever fallen behind by. *)
PaceInv ==
    /\ late \in [Sources -> 0..Jitter]
    /\ early \in [Sources -> Nat]
    /\ behind \in [Sources -> Nat]
    /\ \A s \in Sources : early[s] + late[s] <= Jitter /\ behind[s] <= late[s]

(* What truncating interval_ms_ does to the rate: above 1000 frames per second
   the loop never sleeps; below, the interval lets through no fewer frames than
   max_fps and less than twice as many. *)
THEOREM Truncation ==
    /\ MaxFps > 1000 => Interval = 0
    /\ MaxFps <= 1000 => /\ Interval \in 1..1000
                         /\ MaxFps * Interval <= 1000
                         /\ 2 * (MaxFps * Interval) > 1000
<1>1. MaxFps \in Nat /\ MaxFps >= 1 /\ Interval \in Nat
  BY PacingAssumption DEF Interval
<1>2. MaxFps * Interval <= 1000 /\ 1000 < MaxFps * (Interval + 1)
  BY <1>1, SMTT(60) DEF Interval
<1>3. MaxFps * (Interval + 1) = MaxFps * Interval + MaxFps
  BY <1>1, SMTT(60)
<1>4. ASSUME MaxFps > 1000 PROVE Interval = 0
  <2>1. Interval >= 1 => MaxFps * Interval >= MaxFps
    BY <1>1, SMTT(60)
  <2> QED
    BY <1>1, <1>2, <1>4, <2>1
<1>5. ASSUME MaxFps <= 1000 PROVE Interval \in 1..1000 /\ 2 * (MaxFps * Interval) > 1000
  <2>1. Interval >= 1
    <3>1. Interval = 0 => MaxFps * (Interval + 1) = MaxFps
      BY <1>1
    <3> QED
      BY <1>1, <1>2, <1>5, <3>1
  <2>2. MaxFps <= MaxFps * Interval /\ Interval <= MaxFps * Interval
    BY <1>1, <2>1, SMTT(60)
  <2>3. MaxFps * Interval \in Nat
    BY <1>1
  <2> QED
    BY <1>1, <1>2, <1>3, <2>1, <2>2, <2>3
<1> QED
  BY <1>2, <1>4, <1>5

LEMMA IntervalIsNat == Interval \in Nat
  BY PacingAssumption DEF Interval

(* One round, whatever the capture takes and however late the sleep ends. *)
LEMMA RoundKeepsPace ==
    ASSUME NEW s \in Sources, NEW d \in 0..MaxCapture, NEW j \in 0..Jitter,
           late[s] \in 0..Jitter, early[s] \in Nat, behind[s] \in Nat,
           early[s] + late[s] <= Jitter, behind[s] <= late[s]
    PROVE  LET l == NextLate(s, d, j)
               e == Monus(early[s] + Interval, Gap(s, d, j))
               b == IF Quick(d) THEN Monus(behind[s] + Gap(s, d, j), Interval) ELSE 0
           IN  l \in 0..Jitter /\ e \in Nat /\ b \in Nat /\ e + l <= Jitter /\ b <= l
<1>1. Interval \in Nat /\ Jitter \in Nat /\ MaxCapture \in Nat
  BY IntervalIsNat, PacingAssumption
<1>2. CASE late[s] + d < Interval
  BY <1>1, <1>2 DEF NextLate, Monus, Gap, Quick, OnTime
<1>3. CASE ~(late[s] + d < Interval)
  BY <1>1, <1>3 DEF NextLate, Monus, Gap, Quick, OnTime
<1> QED
  BY <1>2, <1>3

LEMMA PacePreserved == PaceInv /\ [DesktopNext]_desktopVars => PaceInv'
<1> SUFFICES ASSUME PaceInv, [DesktopNext]_desktopVars PROVE PaceInv'
  OBVIOUS
<1>1. CASE UNCHANGED pacing
  BY <1>1 DEF pacing, PaceInv
<1>2. ASSUME NEW s \in Sources, PacedFrame(s) PROVE PaceInv'
  <2>1. PICK d \in 0..MaxCapture, j \in 0..Jitter :
            /\ late' = [late EXCEPT ![s] = NextLate(s, d, j)]
            /\ early' = [early EXCEPT ![s] = Monus(early[s] + Interval, Gap(s, d, j))]
            /\ behind' = [behind EXCEPT ![s] =
                             IF Quick(d) THEN Monus(behind[s] + Gap(s, d, j), Interval) ELSE 0]
    BY <1>2 DEF PacedFrame
  <2>2. late[s] \in 0..Jitter /\ early[s] \in Nat /\ behind[s] \in Nat
        /\ early[s] + late[s] <= Jitter /\ behind[s] <= late[s]
    BY DEF PaceInv
  <2> DEFINE l == NextLate(s, d, j)
             e == Monus(early[s] + Interval, Gap(s, d, j))
             b == IF Quick(d) THEN Monus(behind[s] + Gap(s, d, j), Interval) ELSE 0
  <2>3. l \in 0..Jitter /\ e \in Nat /\ b \in Nat /\ e + l <= Jitter /\ b <= l
    BY <2>2, RoundKeepsPace
  <2>4. late' = [late EXCEPT ![s] = l] /\ early' = [early EXCEPT ![s] = e]
        /\ behind' = [behind EXCEPT ![s] = b]
    BY <2>1
  <2> HIDE DEF l, e, b
  <2> QED
    BY <2>3, <2>4 DEF PaceInv
<1>3. ASSUME NEW s \in Sources, CreateTrack(s) \/ CreatingOn(s) \/ CapturingOn(s) \/ Holding(s)
      PROVE  PacedFrame(s) \/ UNCHANGED pacing
  BY <1>3 DEF CreateTrack, CreatingOn, CapturingOn, Holding, Alone, SelectWanted
<1>4. UNCHANGED desktopVars => UNCHANGED pacing
  BY DEF desktopVars
<1> QED
  BY <1>1, <1>2, <1>3, <1>4 DEF DesktopNext

LEMMA PaceStarts == DesktopInit => PaceInv
  BY PacingAssumption DEF DesktopInit, PaceInv

(* For every rate and every track: no burst after an overrun, and no drift
   while the captures are quick. *)
THEOREM Pacing == DesktopSpec => []OnSchedule
<1>1. PaceInv => OnSchedule
  <2> SUFFICES ASSUME PaceInv, NEW s \in Sources PROVE early[s] <= Jitter /\ behind[s] <= Jitter
    BY DEF OnSchedule
  <2>1. late[s] \in 0..Jitter /\ early[s] \in Nat /\ behind[s] \in Nat
        /\ early[s] + late[s] <= Jitter /\ behind[s] <= late[s]
    BY DEF PaceInv
  <2> QED
    BY <2>1, PacingAssumption
<1>2. QED
  BY <1>1, PaceStarts, PacePreserved, PTL DEF DesktopSpec

-----------------------------------------------------------------------------
(* The walk over the list *)

WalkTypes ==
    /\ kind \in {"camera", "desktop"}
    /\ attached \in Seq(Devices)
    /\ walk \in {"off", "asking", "naming", "copying"}
    /\ shown \in Seq(Devices) /\ count \in Nat
    /\ taken \in Devices \cup {"none"} /\ (walk = "copying" => taken \in Devices)
    /\ moved \in BOOLEAN

(* The copies in hand are those that were tried and not null, and there are
   none between two calls. *)
HeapInv ==
    /\ untried \subseteq Fields /\ copies \subseteq Fields \ untried
    /\ walk # "copying" => untried = {} /\ copies = {}
    /\ NamesAccountedFor

(* A list that has not changed since the count: the walk is along it. *)
StillInv ==
    ~moved =>
        /\ walk # "off" => count = Len(attached)
        /\ Len(shown) <= Len(attached)
        /\ \A i \in 1..Len(shown) : shown[i] = attached[i]
        /\ walk = "copying" => Len(shown) < Len(attached) /\ taken = attached[Len(shown) + 1]
        /\ answer # "NOT_FOUND"

WalkInv == WalkTypes /\ HeapInv /\ StillInv

LEMMA Counts ==
    ASSUME WalkTypes
    PROVE  Len(shown) \in Nat /\ Len(attached) \in Nat
  BY DEF WalkTypes

(* One device more: its strings are those that were in hand. *)
LEMMA NamedNext ==
    ASSUME NEW n \in Nat
    PROVE  /\ Named(n + 1) = Named(n) \cup StringsOf(n + 1, Fields)
           /\ \A F : Named(n) \cap StringsOf(n + 1, F) = {}
<1>1. \A i : i \in 1..n + 1 <=> i \in 1..n \/ i = n + 1
  OBVIOUS
<1>2. ASSUME NEW F PROVE Named(n) \cap StringsOf(n + 1, F) = {}
  BY DEF Named, StringsOf
<1>3. Named(n + 1) = Named(n) \cup StringsOf(n + 1, Fields)
  BY <1>1 DEF Named
<1> QED
  BY <1>2, <1>3

LEMMA NothingNamed == Named(0) = {}
  BY DEF Named

(* A call that fails before it copies anything. *)
LEMMA FailureKeeps ==
    ASSUME WalkInv, NEW st \in {"NOT_FOUND", "INTERNAL"}, Fails(st), walk # "copying",
           st = "NOT_FOUND" => moved,
           UNCHANGED <<kind, attached, count, moved>>
    PROVE  WalkInv'
<1>1. UNCHANGED <<Fields, NamesAccountedFor>>
  BY DEF Fails, locals, Fields, NamesAccountedFor, Named, StringsOf
<1> QED
  BY <1>1 DEF Fails, locals, WalkInv, WalkTypes, HeapInv, StillInv

(* The device that is copied from is the next one of the list. *)
LEMMA TakingKeeps ==
    ASSUME WalkInv, Len(shown) < Len(attached), Take(attached[Len(shown) + 1]),
           walk \in {"asking", "naming"}, UNCHANGED <<kind, attached, count, moved>>
    PROVE  WalkInv'
<1>1. Len(shown) \in Nat /\ Len(attached) \in Nat /\ attached \in Seq(Devices)
  BY Counts DEF WalkInv, WalkTypes
<1>2. attached[Len(shown) + 1] \in Devices
  BY <1>1
<1>3. UNCHANGED Fields
  BY DEF Fields
<1>4. NamesAccountedFor'
  BY DEF Take, WalkInv, HeapInv, NamesAccountedFor, Named, StringsOf, Fields
<1>5. HeapInv'
  BY <1>3, <1>4 DEF Take, HeapInv
<1>6. WalkTypes'
  BY <1>2 DEF Take, WalkInv, WalkTypes
<1>7. StillInv'
  BY DEF Take, WalkInv, StillInv
<1> QED
  BY <1>5, <1>6, <1>7 DEF WalkInv

LEMMA CopyingKeeps ==
    ASSUME WalkInv, NEW f \in Fields, CopyString(f)
    PROVE  WalkInv'
<1>1. UNCHANGED <<Fields, kind, attached, walk, count, shown, answer, taken, moved>> /\ walk = "copying"
  BY DEF CopyString, Fields
<1>2. untried' = untried \ {f} /\ f \in untried
  BY DEF CopyString
<1>3. NamesAccountedFor'
  <2>1. CASE copies' = copies \cup {f} /\ heap' = heap \cup StringsOf(Len(shown) + 1, {f})
    <3>1. StringsOf(Len(shown) + 1, copies \cup {f})
              = StringsOf(Len(shown) + 1, copies) \cup StringsOf(Len(shown) + 1, {f})
      BY DEF StringsOf
    <3>2. heap = Named(Len(shown)) \cup StringsOf(Len(shown) + 1, copies)
      BY DEF WalkInv, HeapInv, NamesAccountedFor
    <3>3. heap' = Named(Len(shown)) \cup StringsOf(Len(shown) + 1, copies')
      BY <2>1, <3>1, <3>2
    <3>4. Named(Len(shown))' = Named(Len(shown))
          /\ StringsOf(Len(shown) + 1, copies)' = StringsOf(Len(shown) + 1, copies')
      BY <1>1 DEF Named, StringsOf
    <3> QED
      BY <3>3, <3>4 DEF NamesAccountedFor
  <2>2. CASE UNCHANGED <<copies, heap>>
    BY <1>1, <2>2 DEF WalkInv, HeapInv, NamesAccountedFor, Named, StringsOf
  <2> QED
    BY <2>1, <2>2 DEF CopyString
<1>4. untried' \subseteq Fields' /\ copies' \subseteq Fields' \ untried'
  <2>1. copies' \subseteq copies \cup {f}
    BY DEF CopyString
  <2> QED
    BY <1>1, <1>2, <2>1 DEF WalkInv, HeapInv
<1>5. HeapInv'
  BY <1>1, <1>3, <1>4 DEF HeapInv
<1> QED
  BY <1>1, <1>5 DEF WalkInv, WalkTypes, StillInv

(* One device further with all its strings; or an error, and none of them. *)
LEMMA EndingKeeps ==
    ASSUME WalkInv, EndCopies
    PROVE  WalkInv'
<1>1. /\ Len(shown) \in Nat /\ Len(attached) \in Nat /\ walk = "copying" /\ taken \in Devices
      /\ shown \in Seq(Devices) /\ attached \in Seq(Devices) /\ untried = {}
  BY Counts DEF WalkInv, WalkTypes, EndCopies
<1>2. UNCHANGED <<Fields, kind, attached, count, untried, moved>>
      /\ taken' = "none" /\ copies' = {} /\ walk' \in {"asking", "off"}
  BY DEF EndCopies, Returns, Fields
<1>3. heap = Named(Len(shown)) \cup StringsOf(Len(shown) + 1, copies)
  BY DEF WalkInv, HeapInv, NamesAccountedFor
<1>4. \A n : Named(n)' = Named(n) /\ StringsOf(n, copies)' = {}
  BY <1>2 DEF Named, StringsOf
<1>5. CASE copies = Fields /\ shown' = Append(shown, taken) /\ UNCHANGED heap /\ walk' = "asking"
           /\ answer' = "OK"
  <2> DEFINE l == Append(shown, taken)
  <2>1. /\ l \in Seq(Devices) /\ Len(l) = Len(shown) + 1 /\ l[Len(shown) + 1] = taken
        /\ \A i \in 1..Len(shown) : l[i] = shown[i]
    BY <1>1, AppendProperties
  <2>2. shown' = l
    BY <1>5
  <2> HIDE DEF l
  <2>3. heap = Named(Len(shown) + 1)
    BY <1>1, <1>3, <1>5, NamedNext
  <2>4. NamesAccountedFor'
    <3>1. (Named(Len(shown)) \cup StringsOf(Len(shown) + 1, copies))' = Named(Len(shown) + 1)
      BY <1>2, <2>1, <2>2 DEF Named, StringsOf
    <3> QED
      BY <1>5, <2>3, <3>1 DEF NamesAccountedFor
  <2>5. StillInv'
    <3>1. Len(shown') = Len(shown) + 1
      BY <2>1, <2>2
    <3>2. ASSUME ~moved, NEW i \in 1..Len(shown) + 1 PROVE l[i] = attached[i]
      <4>1. CASE i = Len(shown) + 1
        BY <1>1, <2>1, <3>2, <4>1 DEF WalkInv, StillInv
      <4>2. CASE i \in 1..Len(shown)
        BY <2>1, <3>2, <4>2 DEF WalkInv, StillInv
      <4> QED
        BY <1>1, <4>1, <4>2
    <3> QED
      BY <1>1, <1>2, <1>5, <2>2, <3>1, <3>2 DEF WalkInv, StillInv
  <2>6. WalkTypes'
    BY <1>2, <1>5, <2>1, <2>2 DEF WalkInv, WalkTypes
  <2>7. HeapInv'
    BY <1>1, <1>2, <2>4 DEF HeapInv
  <2> QED
    BY <2>5, <2>6, <2>7 DEF WalkInv
<1>6. CASE heap' = heap \ Freed /\ UNCHANGED shown /\ walk' = "off" /\ answer' = "INTERNAL"
  <2>1. heap' = Named(Len(shown))
    BY <1>1, <1>3, <1>6, NamedNext DEF Freed
  <2>2. NamesAccountedFor'
    <3>1. (Named(Len(shown)) \cup StringsOf(Len(shown) + 1, copies))' = Named(Len(shown))
      BY <1>2, <1>6 DEF Named, StringsOf
    <3> QED
      BY <2>1, <3>1 DEF NamesAccountedFor
  <2>3. HeapInv'
    BY <1>1, <1>2, <2>2 DEF HeapInv
  <2> QED
    BY <1>1, <1>2, <1>6, <2>3 DEF WalkInv, WalkTypes, StillInv
<1> QED
  BY <1>5, <1>6 DEF EndCopies, Returns

LEMMA WalkingKeeps ==
    ASSUME WalkInv, Walk
    PROVE  WalkInv'
<1>1. Len(shown) \in Nat /\ Len(attached) \in Nat
  BY Counts DEF WalkInv
<1>2. PICK none \in Seq(Devices) : none = <<>> /\ Len(none) = 0
  BY EmptySeq
<1>3. CASE CountDevices
  <2>1. UNCHANGED <<Fields, NamesAccountedFor>>
    BY <1>3 DEF CountDevices, locals, Fields, NamesAccountedFor, Named, StringsOf
  <2>2. /\ shown = none /\ moved' = FALSE /\ walk = "off"
        /\ UNCHANGED <<kind, attached, shown, taken, untried, copies, heap>>
        /\ \/ count' = Len(attached) /\ walk' = "asking" /\ answer' = "OK"
           \/ count' = 0 /\ walk' = "off" /\ answer' = "INTERNAL"
    BY <1>2, <1>3 DEF CountDevices, locals
  <2>3. WalkTypes' /\ HeapInv'
    <3>1. count' \in Nat /\ walk' \in {"off", "asking"}
      BY <1>1, <2>2
    <3>2. HeapInv'
      BY <2>1, <2>2, <3>1 DEF WalkInv, HeapInv
    <3>3. WalkTypes'
      BY <2>2, <3>1 DEF WalkInv, WalkTypes
    <3> QED
      BY <3>2, <3>3
  <2>4. StillInv'
    BY <1>1, <1>2, <2>2 DEF StillInv
  <2> QED
    BY <2>3, <2>4 DEF WalkInv
<1>4. CASE FreeNames
  <2>1. /\ shown' = none /\ heap' = heap \ Named(Len(shown)) /\ walk = "off" /\ copies = {}
        /\ UNCHANGED <<Fields, kind, attached, walk, count, answer, taken, untried, copies, moved>>
    BY <1>2, <1>4 DEF FreeNames, locals, Fields, WalkInv, HeapInv
  <2>2. heap = Named(Len(shown)) \cup StringsOf(Len(shown) + 1, copies)
    BY DEF WalkInv, HeapInv, NamesAccountedFor
  <2>3. heap' = {}
    BY <2>1, <2>2 DEF StringsOf
  <2>4. NamesAccountedFor'
    <3>1. (Named(Len(shown)) \cup StringsOf(Len(shown) + 1, copies))' = {}
      BY <1>2, <2>1 DEF Named, StringsOf
    <3> QED
      BY <2>3, <3>1 DEF NamesAccountedFor
  <2>5. HeapInv'
    BY <2>1, <2>4 DEF WalkInv, HeapInv
  <2>6. WalkTypes' /\ StillInv'
    BY <1>1, <1>2, <2>1 DEF WalkInv, WalkTypes, StillInv
  <2> QED
    BY <2>5, <2>6 DEF WalkInv
<1>5. CASE EndWalk
  <2>1. UNCHANGED <<Fields, NamesAccountedFor>>
    BY <1>5 DEF EndWalk, locals, Fields, NamesAccountedFor, Named, StringsOf
  <2> QED
    BY <1>5, <2>1 DEF EndWalk, locals, WalkInv, WalkTypes, HeapInv, StillInv
<1>6. CASE AskDevice
  <2>1. CASE PastTheEnd /\ Fails("NOT_FOUND")
    <3>1. moved
      BY <1>1, <1>6, <2>1 DEF AskDevice, PastTheEnd, WalkInv, WalkTypes, StillInv
    <3> QED
      BY <1>6, <2>1, <3>1, FailureKeeps DEF AskDevice
  <2>2. CASE Fails("INTERNAL")
    BY <1>6, <2>2, FailureKeeps DEF AskDevice
  <2>3. CASE ~PastTheEnd /\ Take(attached[Len(shown) + 1])
    BY <1>1, <1>6, <2>3, TakingKeeps DEF AskDevice, PastTheEnd
  <2>4. CASE walk' = "naming" /\ UNCHANGED <<shown, answer, locals, heap>>
    <3>1. UNCHANGED <<Fields, NamesAccountedFor>>
      BY <1>6, <2>4 DEF AskDevice, locals, Fields, NamesAccountedFor, Named, StringsOf
    <3> QED
      BY <1>6, <2>4, <3>1 DEF AskDevice, locals, WalkInv, WalkTypes, HeapInv, StillInv
  <2> QED
    BY <1>6, <2>1, <2>2, <2>3, <2>4 DEF AskDevice
<1>7. CASE NameDevice
  <2>1. CASE Len(shown) < Len(attached) /\ Take(attached[Len(shown) + 1])
    BY <1>7, <2>1, TakingKeeps DEF NameDevice
  <2>2. CASE Fails("INTERNAL")
    BY <1>7, <2>2, FailureKeeps DEF NameDevice
  <2> QED
    BY <1>7, <2>1, <2>2 DEF NameDevice
<1> QED
  BY <1>3, <1>4, <1>5, <1>6, <1>7, CopyingKeeps, EndingKeeps DEF Walk, CopyStrings

LEMMA SystemKeeps ==
    ASSUME WalkInv, System
    PROVE  WalkInv'
<1>1. moved' = TRUE /\ UNCHANGED <<kind, walk, count, shown, answer, taken, untried, copies, heap>>
  BY DEF System, Plug, Unplug, locals
<1>2. attached \in Seq(Devices) /\ Len(attached) \in Nat
  BY DEF WalkInv, WalkTypes
<1>3. attached' \in Seq(Devices)
  <2>1. ASSUME NEW d \in Devices, Plug(d) PROVE attached' \in Seq(Devices)
    <3>1. PICK n \in 0..Len(attached) :
              attached' = SubSeq(attached, 1, n) \o <<d>> \o SubSeq(attached, n + 1, Len(attached))
      BY <2>1 DEF Plug
    <3>2. SubSeq(attached, 1, n) \in Seq(Devices) /\ SubSeq(attached, n + 1, Len(attached)) \in Seq(Devices)
          /\ <<d>> \in Seq(Devices)
      BY <1>2, SubSeqProperties
    <3> QED
      BY <3>1, <3>2, ConcatProperties
  <2>2. ASSUME NEW i \in DOMAIN attached, Unplug(i) PROVE attached' \in Seq(Devices)
    <3>1. i \in 1..Len(attached)
      BY <1>2
    <3>2. SubSeq(attached, 1, i - 1) \in Seq(Devices)
          /\ SubSeq(attached, i + 1, Len(attached)) \in Seq(Devices)
      BY <1>2, <3>1, SubSeqProperties
    <3> QED
      BY <2>2, <3>2, ConcatProperties DEF Unplug
  <2> QED
    BY <2>1, <2>2 DEF System
<1>4. UNCHANGED <<Fields, NamesAccountedFor>>
  BY <1>1 DEF Fields, NamesAccountedFor, Named, StringsOf
<1> QED
  BY <1>1, <1>3, <1>4 DEF WalkInv, WalkTypes, HeapInv, StillInv

LEMMA WalkMoves == [DesktopNext]_desktopVars => Walk \/ System \/ UNCHANGED walkVars
  BY DEF DesktopNext, desktopVars, CreateTrack, CreatingOn, CapturingOn, Holding, Alone, SelectWanted,
         PacedFrame

LEMMA WalkPreserved == WalkInv /\ [DesktopNext]_desktopVars => WalkInv'
<1>1. UNCHANGED walkVars => UNCHANGED <<Fields, NamesAccountedFor>>
  BY DEF walkVars, locals, Fields, NamesAccountedFor, Named, StringsOf
<1>2. WalkInv /\ UNCHANGED walkVars => WalkInv'
  BY <1>1 DEF walkVars, locals, WalkInv, WalkTypes, HeapInv, StillInv
<1> QED
  BY <1>2, WalkMoves, WalkingKeeps, SystemKeeps

LEMMA WalkStarts == DesktopInit => WalkInv
<1> SUFFICES ASSUME DesktopInit PROVE WalkInv
  OBVIOUS
<1>1. PICK none \in Seq(Devices) : none = <<>> /\ Len(none) = 0
  BY EmptySeq
<1>2. /\ attached = none /\ shown = none /\ count = 0 /\ answer = "OK" /\ walk = "off"
      /\ kind \in {"camera", "desktop"} /\ moved = FALSE
      /\ taken = "none" /\ untried = {} /\ copies = {} /\ heap = {}
  BY <1>1 DEF DesktopInit, WalkInit
<1>3. WalkTypes /\ StillInv
  <2>1. /\ attached \in Seq(Devices) /\ shown \in Seq(Devices) /\ count \in Nat
        /\ walk \in {"off", "asking", "naming", "copying"} /\ moved \in BOOLEAN
        /\ taken \in Devices \cup {"none"}
    BY <1>1, <1>2
  <2>2. WalkTypes
    BY <1>2, <2>1 DEF WalkTypes
  <2>3. StillInv
    BY <1>1, <1>2 DEF StillInv
  <2> QED
    BY <2>2, <2>3
<1>4. HeapInv
  BY <1>1, <1>2, NothingNamed DEF HeapInv, NamesAccountedFor, StringsOf
<1> QED
  BY <1>3, <1>4 DEF WalkInv

(* What a walk has told and allocated so far. *)
THEOREM WalkInvariance == DesktopSpec => []WalkInv
  BY WalkStarts, WalkPreserved, PTL DEF DesktopSpec

(* However devices come and go and whichever copies fail, what is allocated is
   what the caller was handed and what a call in progress has in hand. *)
THEOREM NamesKept == DesktopSpec => []NamesAccountedFor
<1>1. WalkInv => NamesAccountedFor
  BY DEF WalkInv, HeapInv
<1>2. QED
  BY <1>1, WalkInvariance, PTL

(* An index means the same device, and is never past the end, for as long as
   the list does not change. *)
THEOREM WalkedInOrder == DesktopSpec => []WalkIsExact
<1>1. WalkInv => WalkIsExact
  <2> SUFFICES ASSUME WalkInv, ~moved PROVE shown = SubSeq(attached, 1, Len(shown))
    BY DEF WalkInv, StillInv, WalkIsExact
  <2>1. /\ shown \in Seq(Devices) /\ attached \in Seq(Devices)
        /\ Len(shown) \in Nat /\ Len(attached) \in Nat
        /\ Len(shown) <= Len(attached)
        /\ \A i \in 1..Len(shown) : shown[i] = attached[i]
    BY DEF WalkInv, WalkTypes, StillInv
  <2> DEFINE p == SubSeq(attached, 1, Len(shown))
  <2>2. p \in Seq(Devices) /\ Len(p) = Len(shown) /\ \A i \in 1..Len(shown) : p[i] = attached[i]
    BY <2>1, SubSeqProperties
  <2> HIDE DEF p
  <2>3. shown = p
    BY <2>1, <2>2, SeqEqual
  <2> QED
    BY <2>3 DEF p
<1>2. QED
  BY <1>1, WalkInvariance, PTL

-----------------------------------------------------------------------------
(* Types *)

LEMMA RestOf ==
    ASSUME NEW l \in Seq(Devices), NEW n \in 0..Len(l)
    PROVE  LET b == SubSeq(l, n + 1, Len(l))
           IN  b \in Seq(Devices) /\ Len(b) = Len(l) - n /\ \A i \in 1..Len(l) - n : b[i] = l[n + i]
<1> DEFINE b == SubSeq(l, n + 1, Len(l))
<1>1. Len(l) \in Nat /\ n \in Nat /\ n <= Len(l)
  OBVIOUS
<1>2. /\ \A i \in n + 1..Len(l) : l[i] \in Devices
      /\ n + 1 \in Int /\ Len(l) \in Int
  BY <1>1
<1>3. /\ b \in Seq(Devices) /\ Len(b) = IF n + 1 <= Len(l) THEN Len(l) - (n + 1) + 1 ELSE 0
      /\ \A i \in 1..Len(l) - (n + 1) + 1 : b[i] = l[n + 1 + i - 1]
  BY <1>2, SubSeqProperties
<1> HIDE DEF b
<1>4. Len(l) - (n + 1) + 1 = Len(l) - n
  BY <1>1
<1>5. Len(b) = Len(l) - n
  <2>1. CASE n + 1 <= Len(l)
    BY <1>3, <1>4, <2>1
  <2>2. CASE n = Len(l)
    BY <1>1, <1>3, <2>2
  <2> QED
    BY <1>1, <2>1, <2>2
<1>6. \A i \in 1..Len(l) - n : n + 1 + i - 1 = n + i
  BY <1>1
<1>7. \A i \in 1..Len(l) - n : b[i] = l[n + i]
  BY <1>3, <1>4, <1>6
<1> QED
  BY <1>3, <1>5, <1>7 DEF b

(* Where a device that is plugged in, or taken away, leaves the others. *)
LEMMA PluggedIn ==
    ASSUME NEW l \in Seq(Devices), NEW n \in 0..Len(l), NEW d \in Devices, DeviceList(l),
           \A i \in DOMAIN l : l[i] # d
    PROVE  DeviceList(SubSeq(l, 1, n) \o <<d>> \o SubSeq(l, n + 1, Len(l)))
<1> DEFINE a == SubSeq(l, 1, n)
           b == SubSeq(l, n + 1, Len(l))
           c == a \o <<d>>
           r == c \o b
<1>1. Len(l) \in Nat /\ n \in Nat /\ n <= Len(l) /\ DOMAIN l = 1..Len(l)
  OBVIOUS
<1>2. a \in Seq(Devices) /\ Len(a) = n /\ \A i \in 1..n : a[i] = l[i]
  BY <1>1, SubSeqProperties
<1>3. b \in Seq(Devices) /\ Len(b) = Len(l) - n /\ \A i \in 1..Len(l) - n : b[i] = l[n + i]
  BY <1>1, RestOf
<1> HIDE DEF a, b
<1>4. <<d>> \in Seq(Devices) /\ Len(<<d>>) = 1 /\ <<d>>[1] = d
  OBVIOUS
<1>5. /\ c \in Seq(Devices) /\ Len(c) = n + 1
      /\ \A i \in 1..n + 1 : c[i] = IF i <= n THEN l[i] ELSE d
  <2>1. /\ c \in Seq(Devices) /\ Len(c) = n + 1
        /\ \A i \in 1..n + 1 : c[i] = IF i <= n THEN a[i] ELSE <<d>>[i - n]
    BY <1>2, <1>4, ConcatProperties
  <2> HIDE DEF c
  <2>2. \A i \in 1..n + 1 : ~(i <= n) => i - n = 1
    BY <1>1
  <2> QED
    BY <1>1, <1>2, <1>4, <2>1, <2>2
<1> HIDE DEF c
<1>6. /\ r \in Seq(Devices) /\ Len(r) = Len(l) + 1
      /\ \A i \in 1..Len(l) + 1 : r[i] = IF i <= n THEN l[i] ELSE IF i = n + 1 THEN d ELSE l[i - 1]
  <2>1. /\ r \in Seq(Devices) /\ Len(r) = Len(c) + Len(b)
        /\ \A i \in 1..Len(c) + Len(b) : r[i] = IF i <= Len(c) THEN c[i] ELSE b[i - Len(c)]
    BY <1>3, <1>5, ConcatProperties
  <2> HIDE DEF r
  <2>2. Len(c) + Len(b) = Len(l) + 1
    BY <1>1, <1>3, <1>5
  <2>3. ASSUME NEW i \in 1..Len(l) + 1
        PROVE  r[i] = IF i <= n THEN l[i] ELSE IF i = n + 1 THEN d ELSE l[i - 1]
    <3>1. r[i] = IF i <= n + 1 THEN c[i] ELSE b[i - (n + 1)]
      BY <1>5, <2>1, <2>2
    <3>2. CASE i <= n + 1
      BY <1>1, <1>5, <3>1, <3>2
    <3>3. CASE ~(i <= n + 1)
      <4>1. i - (n + 1) \in 1..Len(l) - n /\ n + (i - (n + 1)) = i - 1 /\ ~(i <= n) /\ i # n + 1
        BY <1>1, <3>3
      <4> QED
        BY <1>3, <3>1, <3>3, <4>1
    <3> QED
      BY <3>2, <3>3
  <2> QED
    BY <2>1, <2>2, <2>3
<1> HIDE DEF r
<1>7. DOMAIN r = 1..Len(l) + 1
  BY <1>6
<1>8. ASSUME NEW i \in 1..Len(l) + 1, NEW j \in 1..Len(l) + 1, r[i] = r[j] PROVE i = j
  <2> DEFINE at(k) == IF k <= n THEN k ELSE k - 1
  <2>1. \A k \in 1..Len(l) + 1 : k # n + 1 => at(k) \in DOMAIN l /\ r[k] = l[at(k)]
    BY <1>1, <1>6
  <2>2. r[n + 1] = d /\ n + 1 \in 1..Len(l) + 1
    BY <1>1, <1>6
  <2>3. CASE i = n + 1 \/ j = n + 1
    BY <1>8, <2>1, <2>2, <2>3
  <2>4. CASE i # n + 1 /\ j # n + 1
    <3>1. at(i) = at(j)
      BY <1>8, <2>1, <2>4 DEF DeviceList
    <3> QED
      BY <1>1, <2>4, <3>1
  <2> QED
    BY <2>3, <2>4
<1>9. DeviceList(r)
  BY <1>7, <1>8 DEF DeviceList
<1> QED
  BY <1>9 DEF r, c, a, b

LEMMA TakenAway ==
    ASSUME NEW l \in Seq(Devices), NEW n \in 1..Len(l), DeviceList(l)
    PROVE  DeviceList(SubSeq(l, 1, n - 1) \o SubSeq(l, n + 1, Len(l)))
<1> DEFINE a == SubSeq(l, 1, n - 1)
           b == SubSeq(l, n + 1, Len(l))
           r == a \o b
<1>1. Len(l) \in Nat /\ n \in Nat /\ 1 <= n /\ n <= Len(l) /\ DOMAIN l = 1..Len(l)
  OBVIOUS
<1>2. a \in Seq(Devices) /\ Len(a) = n - 1 /\ \A i \in 1..n - 1 : a[i] = l[i]
  <2>1. \A i \in 1..n - 1 : l[i] \in Devices
    BY <1>1
  <2>2. n - 1 \in Int
    BY <1>1
  <2>3. /\ a \in Seq(Devices) /\ Len(a) = IF 1 <= n - 1 THEN n - 1 - 1 + 1 ELSE 0
        /\ \A i \in 1..n - 1 - 1 + 1 : a[i] = l[1 + i - 1]
    BY <2>1, <2>2, SubSeqProperties
  <2> HIDE DEF a
  <2>4. Len(a) = n - 1 /\ n - 1 - 1 + 1 = n - 1
    BY <1>1, <2>3
  <2>5. \A i \in 1..n - 1 : 1 + i - 1 = i
    BY <1>1
  <2> QED
    BY <2>3, <2>4, <2>5
<1>3. b \in Seq(Devices) /\ Len(b) = Len(l) - n /\ \A i \in 1..Len(l) - n : b[i] = l[n + i]
  <2>1. n \in 0..Len(l)
    BY <1>1
  <2> QED
    BY <2>1, RestOf
<1> HIDE DEF a, b
<1>4. /\ r \in Seq(Devices) /\ Len(r) = Len(l) - 1
      /\ \A i \in 1..Len(l) - 1 : r[i] = IF i < n THEN l[i] ELSE l[i + 1]
  <2>1. /\ r \in Seq(Devices) /\ Len(r) = Len(a) + Len(b)
        /\ \A i \in 1..Len(a) + Len(b) : r[i] = IF i <= Len(a) THEN a[i] ELSE b[i - Len(a)]
    BY <1>2, <1>3, ConcatProperties
  <2> HIDE DEF r
  <2>2. Len(a) + Len(b) = Len(l) - 1
    BY <1>1, <1>2, <1>3
  <2>3. ASSUME NEW i \in 1..Len(l) - 1 PROVE r[i] = IF i < n THEN l[i] ELSE l[i + 1]
    <3>1. r[i] = IF i <= n - 1 THEN a[i] ELSE b[i - (n - 1)]
      BY <1>2, <2>1, <2>2
    <3>2. CASE i < n
      <4>1. i <= n - 1 /\ i \in 1..n - 1
        BY <1>1, <3>2
      <4> QED
        BY <1>2, <3>1, <3>2, <4>1
    <3>3. CASE ~(i < n)
      <4>1. i - (n - 1) \in 1..Len(l) - n /\ n + (i - (n - 1)) = i + 1 /\ ~(i <= n - 1)
        BY <1>1, <3>3
      <4> QED
        BY <1>3, <3>1, <3>3, <4>1
    <3> QED
      BY <3>2, <3>3
  <2> QED
    BY <2>1, <2>2, <2>3
<1> HIDE DEF r
<1>5. DOMAIN r = 1..Len(l) - 1
  BY <1>1, <1>4
<1>6. ASSUME NEW i \in 1..Len(l) - 1, NEW j \in 1..Len(l) - 1, r[i] = r[j] PROVE i = j
  <2> DEFINE at(k) == IF k < n THEN k ELSE k + 1
  <2>1. \A k \in 1..Len(l) - 1 : at(k) \in DOMAIN l /\ r[k] = l[at(k)]
    BY <1>1, <1>4
  <2>2. at(i) = at(j)
    BY <1>6, <2>1 DEF DeviceList
  <2> QED
    BY <1>1, <2>2
<1>7. DeviceList(r)
  BY <1>5, <1>6 DEF DeviceList
<1> QED
  BY <1>7 DEF r, a, b

(* What WalkInv leaves open of the types. *)
WalkShape ==
    /\ DeviceList(attached)
    /\ answer \in {"OK", "NOT_FOUND", "INTERNAL"}
    /\ Len(shown) <= count
    /\ walk \in {"naming", "copying"} => Len(shown) < count

DesktopInv ==
    /\ WalkInv /\ WalkShape
    /\ wanted \in [Sources -> Devices \cup {"none"}]

LEMMA ShapePreserved == WalkInv /\ WalkShape /\ (Walk \/ System) => WalkShape'
<1> SUFFICES ASSUME WalkInv, WalkShape, Walk \/ System PROVE WalkShape'
  OBVIOUS
<1>1. /\ Len(shown) \in Nat /\ Len(attached) \in Nat /\ count \in Nat
      /\ shown \in Seq(Devices) /\ attached \in Seq(Devices)
  BY Counts DEF WalkInv, WalkTypes
<1>2. CASE System
  <2>1. UNCHANGED <<walk, count, shown, answer>>
    BY <1>2 DEF System, Plug, Unplug
  <2>2. DeviceList(attached')
    <3>1. ASSUME NEW d \in Devices, Plug(d) PROVE DeviceList(attached')
      BY <1>1, <3>1, PluggedIn DEF Plug, WalkShape
    <3>2. ASSUME NEW i \in DOMAIN attached, Unplug(i) PROVE DeviceList(attached')
      <4>1. i \in 1..Len(attached)
        BY <1>1
      <4> QED
        BY <1>1, <3>2, <4>1, TakenAway DEF Unplug, WalkShape
    <3> QED
      BY <1>2, <3>1, <3>2 DEF System
  <2> QED
    BY <2>1, <2>2 DEF WalkShape
<1>3. CASE Walk
  <2>1. UNCHANGED attached /\ answer' \in {"OK", "NOT_FOUND", "INTERNAL"}
    BY <1>3 DEF Walk, CountDevices, AskDevice, NameDevice, CopyStrings, CopyString, EndCopies, Returns,
                EndWalk, FreeNames, Fails, Take, WalkShape
  <2>2. CASE CountDevices \/ FreeNames
    <3>1. shown' = <<>> /\ walk' \in {"off", "asking"} /\ count' \in Nat
      BY <1>1, <2>2 DEF CountDevices, FreeNames
    <3>2. Len(shown') = 0
      BY <3>1, EmptySeq
    <3> QED
      BY <2>1, <3>1, <3>2 DEF WalkShape, DeviceList
  <2>3. CASE AskDevice \/ NameDevice \/ CopyStrings
    <3>1. Len(shown) < count /\ UNCHANGED <<count, shown>>
      BY <2>3 DEF AskDevice, NameDevice, CopyStrings, CopyString, Fails, Take, WalkShape
    <3> QED
      BY <2>1, <3>1 DEF WalkShape, DeviceList
  <2>4. CASE EndCopies
    <3>1. /\ Len(shown) < count /\ UNCHANGED count /\ taken \in Devices
          /\ (shown' = Append(shown, taken) \/ UNCHANGED shown) /\ walk' \in {"off", "asking"}
      BY <2>4 DEF EndCopies, Returns, WalkShape, WalkInv, WalkTypes
    <3>2. Len(shown') = Len(shown) \/ Len(shown') = Len(shown) + 1
      BY <1>1, <3>1, AppendProperties
    <3> QED
      BY <1>1, <2>1, <3>1, <3>2 DEF WalkShape, DeviceList
  <2>5. CASE EndWalk
    BY <2>1, <2>5 DEF EndWalk, WalkShape, DeviceList
  <2> QED
    BY <1>3, <2>2, <2>3, <2>4, <2>5 DEF Walk
<1> QED
  BY <1>2, <1>3

(* No string is further on than the count. *)
LEMMA HeapTyped == WalkInv /\ WalkShape => heap \subseteq (1..count) \X Fields
<1> SUFFICES ASSUME WalkInv, WalkShape, NEW x \in heap PROVE x \in (1..count) \X Fields
  OBVIOUS
<1>1. Len(shown) \in Nat /\ count \in Nat /\ Len(shown) <= count
  BY Counts DEF WalkInv, WalkTypes, WalkShape
<1>2. x \in Named(Len(shown)) \/ x \in StringsOf(Len(shown) + 1, copies)
  BY DEF WalkInv, HeapInv, NamesAccountedFor
<1>3. CASE x \in Named(Len(shown))
  <2>1. PICK n \in 1..Len(shown), f \in Fields : x = <<n, f>>
    BY <1>3 DEF Named, StringsOf
  <2>2. n \in 1..count
    BY <1>1
  <2> QED
    BY <2>1, <2>2
<1>4. CASE x \in StringsOf(Len(shown) + 1, copies)
  <2>1. PICK f \in copies : x = <<Len(shown) + 1, f>>
    BY <1>4 DEF StringsOf
  <2>2. f \in Fields /\ walk = "copying"
    BY DEF WalkInv, HeapInv
  <2>3. Len(shown) + 1 \in 1..count
    BY <1>1, <2>2 DEF WalkShape
  <2> QED
    BY <2>1, <2>2, <2>3
<1> QED
  BY <1>2, <1>3, <1>4

(* No index is asked for past the count, the list names a device once, and a
   track is only ever created for a device of the list. *)
THEOREM DesktopTypeCorrect == DesktopSpec => []DesktopTypeOK
<1>1. DesktopInit => DesktopInv
  <2> SUFFICES ASSUME DesktopInit PROVE WalkShape /\ wanted \in [Sources -> Devices \cup {"none"}]
    BY WalkStarts DEF DesktopInv
  <2>1. /\ attached = <<>> /\ shown = <<>> /\ count = 0 /\ walk = "off" /\ answer = "OK"
        /\ wanted = [s \in Sources |-> "none"]
    BY DEF DesktopInit, WalkInit
  <2>2. Len(shown) = 0 /\ DeviceList(attached)
    BY <2>1, EmptySeq DEF DeviceList
  <2> QED
    BY <2>1, <2>2 DEF WalkShape
<1>2. DesktopInv /\ [DesktopNext]_desktopVars => DesktopInv'
  <2> SUFFICES ASSUME DesktopInv, [DesktopNext]_desktopVars PROVE DesktopInv'
    OBVIOUS
  <2>1. WalkInv'
    BY WalkPreserved DEF DesktopInv
  <2>2. WalkShape'
    <3>1. CASE UNCHANGED walkVars
      BY <3>1 DEF walkVars, DesktopInv, WalkShape, DeviceList
    <3> QED
      BY <3>1, WalkMoves, ShapePreserved DEF DesktopInv
  <2>3. wanted' \in [Sources -> Devices \cup {"none"}]
    <3>1. ASSUME NEW s \in Sources, CreateTrack(s) PROVE wanted' \in [Sources -> Devices \cup {"none"}]
      <4>1. PICK i \in DOMAIN shown : wanted' = [wanted EXCEPT ![s] = shown[i]]
        BY <3>1 DEF CreateTrack
      <4>2. shown[i] \in Devices
        BY <4>1 DEF DesktopInv, WalkInv, WalkTypes
      <4> QED
        BY <4>1, <4>2 DEF DesktopInv
    <3>2. (\E s \in Sources : CreateTrack(s)) \/ UNCHANGED wanted
      BY DEF DesktopNext, desktopVars, CreatingOn, CapturingOn, Holding, Alone, SelectWanted, PacedFrame
    <3> QED
      BY <3>1, <3>2 DEF DesktopInv
  <2> QED
    BY <2>1, <2>2, <2>3 DEF DesktopInv
<1>3. TypeOK /\ DesktopInv /\ PaceInv => DesktopTypeOK
  BY Counts, HeapTyped DEF DesktopTypeOK, DesktopInv, PaceInv, WalkInv, WalkTypes, HeapInv, WalkShape,
                           WalkTypeOK
<1>4. QED
  BY <1>1, <1>2, <1>3, PaceStarts, PacePreserved, TrackRefinement, TypeCorrect, PTL DEF DesktopSpec
=============================================================================
