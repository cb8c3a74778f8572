------------------------- MODULE CameraTrackProofs -------------------------
(***************************************************************************)
(* Sinks and cameras, for any number of handles and sinks: no frame meets  *)
(* a freed sink or source, every sink has one owner and one registration,  *)
(* and the camera is open while somebody holds the track.                  *)
(*                                                                         *)
(* The sinks' part is proved of VideoTrack alone; a step of CameraTrack is *)
(* one of VideoTrack's or leaves its variables as they are.                *)
(***************************************************************************)
EXTENDS CameraTrack, FiniteSetTheorems, TLAPS

(* Where the sink of a handle is at each point of a call. *)
PlaceInv(h) ==
    /\ pc[h] \in {"removing", "reset", "dying", "dead"} => slot[h] # NoSink
    /\ pc[h] \in {"none", "adding", "storing", "gone"} => slot[h] = NoSink
    /\ fresh[h] # NoSink <=> pc[h] \in {"adding", "storing"}

Holds(h, k) == k = slot[h] \/ k = fresh[h]
Listens(h, k) ==
    \/ k = slot[h] /\ pc[h] \notin {"reset", "dead"}
    \/ k = fresh[h] /\ pc[h] = "storing"

(* What the handles hold is what is alive, and they share nothing. *)
HeldInv ==
    /\ \A k \in Sinks : memory[k] = "live" <=> \E h \in Handles : Holds(h, k)
    /\ \A k \in Sinks : \A g, h \in Handles : Holds(g, k) /\ Holds(h, k) => g = h

(* The broadcaster knows the sinks that listen, and a frame in delivery goes to
   none but those. *)
FrameInv ==
    /\ \A k \in Sinks : k \in registered <=> \E h \in Handles : Listens(h, k)
    /\ todo \subseteq registered /\ inCall \in registered \cup {NoSink}
    /\ ~locked => todo = {} /\ inCall = NoSink

SinkInv == TypeOK /\ (\A h \in Handles : PlaceInv(h)) /\ HeldInv /\ FrameInv

-----------------------------------------------------------------------------
(* Every step of VideoTrack preserves SinkInv. *)

(* A step of one call that leaves the frame in delivery alone. *)
LEMMA CallPreserves ==
    ASSUME SinkInv, NEW h \in Handles,
           Obtain(h) \/ AddSink(h) \/ RemoveSink(h) \/ Release(h)
    PROVE  SinkInv'
<1> USE SinkAssumption DEF SinkInv, frameVars
<1>1. /\ UNCHANGED <<slot, registered, locked, todo, inCall>>
      /\ \A g \in Handles \ {h} : pc'[g] = pc[g] /\ fresh'[g] = fresh[g]
  BY DEF Obtain, AddSink, RemoveSink, Release, Goto, Returns, TypeOK
<1>2. TypeOK'
  BY DEF Obtain, AddSink, RemoveSink, Release, Goto, Returns, TypeOK, Positions
<1>3. CASE UNCHANGED <<fresh, memory>> /\ pc[h] \in {"none", "idle"}
  <2>1. pc'[h] \in {"idle", "removing", "gone", "dying"}
        /\ (pc'[h] \in {"removing", "dying"} <=> slot[h] # NoSink /\ pc'[h] # "idle")
    BY <1>3 DEF Obtain, AddSink, RemoveSink, Release, Goto, Returns, TypeOK
  <2>2. \A g \in Handles : PlaceInv(g)'
    BY <1>1, <1>3, <2>1 DEF PlaceInv
  <2>3. HeldInv'
    BY <1>1, <1>3 DEF HeldInv, Holds
  <2>4. FrameInv'
    <3>1. \A k \in Sinks, g \in Handles : Listens(g, k)' <=> Listens(g, k)
      BY <1>1, <1>3, <2>1 DEF Listens
    <3> QED
      BY <1>1, <3>1 DEF FrameInv
  <2> QED
    BY <1>2, <2>2, <2>3, <2>4
<1>4. CASE AddSink(h) /\ pc'[h] = "adding"
  <2>1. PICK k \in Sinks : /\ memory[k] = "unborn"
                           /\ memory' = [memory EXCEPT ![k] = "live"]
                           /\ fresh' = [fresh EXCEPT ![h] = k]
    BY <1>4 DEF AddSink, Returns, Goto, TypeOK
  <2>2. pc[h] = "idle" /\ slot[h] = NoSink /\ fresh[h] = NoSink
    BY <1>4 DEF AddSink, Returns, Goto, TypeOK, PlaceInv
  <2>3. fresh'[h] = k /\ memory'[k] = "live" /\ \A j \in Sinks \ {k} : memory'[j] = memory[j]
    BY <2>1 DEF TypeOK
  <2>4. \A g \in Handles : PlaceInv(g)'
    BY <1>1, <1>4, <2>2, <2>3 DEF PlaceInv
  <2>5. \A g \in Handles : ~Holds(g, k)
    BY <2>1 DEF HeldInv
  <2>6. \A j \in Sinks, g \in Handles : Holds(g, j)' <=> (Holds(g, j) \/ (g = h /\ j = k))
    BY <1>1, <2>2, <2>3 DEF Holds
  <2>7. HeldInv'
    BY <2>3, <2>5, <2>6 DEF HeldInv
  <2>8. \A j \in Sinks, g \in Handles : Listens(g, j)' <=> Listens(g, j)
    BY <1>1, <1>4, <2>2 DEF Listens
  <2>9. FrameInv'
    BY <1>1, <2>8 DEF FrameInv
  <2> QED
    BY <1>2, <2>4, <2>7, <2>9
<1> QED
  BY <1>3, <1>4 DEF Obtain, AddSink, RemoveSink, Release, Goto, Returns, TypeOK

LEMMA RegisterPreserves ==
    ASSUME SinkInv, NEW h \in Handles, Register(h)
    PROVE  SinkInv'
<1> USE SinkAssumption DEF SinkInv, frameVars
<1>1. /\ pc[h] = "adding" /\ ~locked /\ registered' = registered \cup {fresh[h]}
      /\ pc' = [pc EXCEPT ![h] = "storing"]
      /\ UNCHANGED <<slot, fresh, memory, locked, todo, inCall, status>>
  BY DEF Register, Goto
<1>2. PICK k \in Sinks : k = fresh[h]
  BY <1>1 DEF PlaceInv, TypeOK
<1>3. slot[h] = NoSink /\ pc'[h] = "storing" /\ \A g \in Handles \ {h} : pc'[g] = pc[g]
  BY <1>1 DEF PlaceInv, TypeOK
<1>4. TypeOK'
  BY <1>1, <1>2 DEF TypeOK, Positions
<1>5. \A g \in Handles : PlaceInv(g)'
  BY <1>1, <1>3 DEF PlaceInv
<1>6. HeldInv'
  BY <1>1 DEF HeldInv, Holds
<1>7. \A j \in Sinks, g \in Handles : Listens(g, j)' <=> (Listens(g, j) \/ (g = h /\ j = k))
  BY <1>1, <1>2, <1>3 DEF Listens
<1>8. FrameInv'
  BY <1>1, <1>2, <1>7 DEF FrameInv
<1> QED
  BY <1>4, <1>5, <1>6, <1>8

LEMMA StorePreserves ==
    ASSUME SinkInv, NEW h \in Handles, Store(h)
    PROVE  SinkInv'
<1> USE SinkAssumption DEF SinkInv, frameVars
<1>1. /\ pc[h] = "storing" /\ slot[h] = NoSink
      /\ slot' = [slot EXCEPT ![h] = fresh[h]] /\ fresh' = [fresh EXCEPT ![h] = NoSink]
      /\ pc' = [pc EXCEPT ![h] = "idle"] /\ status' = [status EXCEPT ![h] = "OK"]
      /\ UNCHANGED <<registered, locked, todo, inCall>>
  BY DEF Store, Goto, Returns, PlaceInv
<1>2. UNCHANGED memory
  <2>1. \A k \in Sinks : k # slot[h]
    BY <1>1
  <2> QED
    BY <2>1 DEF Store, TypeOK
<1>3. PICK k \in Sinks : k = fresh[h]
  BY <1>1 DEF PlaceInv, TypeOK
<1>4. /\ pc'[h] = "idle" /\ slot'[h] = k /\ fresh'[h] = NoSink
      /\ \A g \in Handles \ {h} : pc'[g] = pc[g] /\ slot'[g] = slot[g] /\ fresh'[g] = fresh[g]
  BY <1>1, <1>3 DEF TypeOK
<1>5. TypeOK'
  BY <1>1, <1>2, <1>3 DEF TypeOK, Positions
<1>6. \A g \in Handles : PlaceInv(g)'
  BY <1>4 DEF PlaceInv
<1>7. \A j \in Sinks, g \in Handles :
          (Holds(g, j)' <=> Holds(g, j)) /\ (Listens(g, j)' <=> Listens(g, j))
  BY <1>1, <1>3, <1>4 DEF Holds, Listens
<1>8. HeldInv'
  BY <1>2, <1>7 DEF HeldInv
<1>9. FrameInv'
  BY <1>1, <1>7 DEF FrameInv
<1> QED
  BY <1>5, <1>6, <1>8, <1>9

LEMMA UnregisterPreserves ==
    ASSUME SinkInv, NEW h \in Handles, Unregister(h)
    PROVE  SinkInv'
<1> USE SinkAssumption DEF SinkInv, frameVars
<1>1. /\ pc[h] \in {"removing", "dying"} /\ ~locked /\ registered' = registered \ {slot[h]}
      /\ pc' = [pc EXCEPT ![h] = IF pc[h] = "removing" THEN "reset" ELSE "dead"]
      /\ UNCHANGED <<slot, fresh, memory, locked, todo, inCall, status>>
  BY DEF Unregister, Goto
<1>2. PICK k \in Sinks : k = slot[h]
  BY <1>1 DEF PlaceInv, TypeOK
<1>3. pc'[h] \in {"reset", "dead"} /\ fresh[h] = NoSink /\ \A g \in Handles \ {h} : pc'[g] = pc[g]
  BY <1>1 DEF PlaceInv, TypeOK
<1>4. TypeOK'
  BY <1>1 DEF TypeOK, Positions
<1>5. \A g \in Handles : PlaceInv(g)'
  BY <1>1, <1>2, <1>3 DEF PlaceInv
<1>6. HeldInv'
  BY <1>1 DEF HeldInv, Holds
<1>7. \A j \in Sinks, g \in Handles : Listens(g, j)' <=> (Listens(g, j) /\ g # h)
  BY <1>1, <1>3 DEF Listens
<1>8. \A g \in Handles \ {h} : ~Listens(g, k)
  BY <1>2 DEF Listens, Holds, HeldInv
<1>9. \A j \in Sinks \ {k} : ~Listens(h, j)
  BY <1>2, <1>3 DEF Listens
<1>10. FrameInv'
  BY <1>1, <1>2, <1>7, <1>8, <1>9 DEF FrameInv
<1> QED
  BY <1>4, <1>5, <1>6, <1>10

LEMMA FreePreserves ==
    ASSUME SinkInv, NEW h \in Handles, Reset(h) \/ Destroy(h)
    PROVE  SinkInv'
<1> USE SinkAssumption DEF SinkInv, frameVars
<1>1. /\ pc[h] \in {"reset", "dead"}
      /\ memory' = [memory EXCEPT ![slot[h]] = "freed"] /\ slot' = [slot EXCEPT ![h] = NoSink]
      /\ UNCHANGED <<fresh, registered, locked, todo, inCall>>
  BY DEF Reset, Destroy, FreeSink
<1>2. PICK k \in Sinks : k = slot[h]
  BY <1>1 DEF PlaceInv, TypeOK
<1>3. /\ pc'[h] \in {"idle", "gone"} /\ slot'[h] = NoSink /\ fresh[h] = NoSink
      /\ memory'[k] = "freed" /\ \A j \in Sinks \ {k} : memory'[j] = memory[j]
      /\ \A g \in Handles \ {h} : pc'[g] = pc[g] /\ slot'[g] = slot[g]
  BY <1>1, <1>2 DEF Reset, Destroy, Goto, Returns, PlaceInv, TypeOK
<1>4. TypeOK'
  BY <1>1 DEF Reset, Destroy, Goto, Returns, TypeOK, Positions
<1>5. \A g \in Handles : PlaceInv(g)'
  BY <1>1, <1>3 DEF PlaceInv
<1>6. \A j \in Sinks, g \in Handles : Holds(g, j)' <=> (Holds(g, j) /\ g # h)
  BY <1>1, <1>3 DEF Holds
<1>7. (\A g \in Handles \ {h} : ~Holds(g, k)) /\ (\A j \in Sinks \ {k} : ~Holds(h, j))
  BY <1>2, <1>3 DEF Holds, HeldInv
<1>8. HeldInv'
  BY <1>3, <1>6, <1>7 DEF HeldInv
<1>9. \A j \in Sinks, g \in Handles : Listens(g, j)' <=> Listens(g, j)
  BY <1>1, <1>2, <1>3 DEF Listens
<1>10. FrameInv'
  BY <1>1, <1>9 DEF FrameInv
<1> QED
  BY <1>4, <1>5, <1>8, <1>10

LEMMA DeliveryPreserves ==
    ASSUME SinkInv, Delivering
    PROVE  SinkInv'
<1> USE SinkAssumption DEF SinkInv
<1>1. UNCHANGED <<pc, slot, fresh, memory, registered, status>>
  BY DEF Delivering, BeginFrame, CallSink, EndCall, EndFrame
<1>2. locked' \in BOOLEAN
  BY DEF Delivering, BeginFrame, CallSink, EndCall, EndFrame, TypeOK
<1>3. /\ todo' \subseteq registered /\ inCall' \in registered \cup {NoSink}
      /\ ~locked' => todo' = {} /\ inCall' = NoSink
  BY DEF Delivering, BeginFrame, CallSink, EndCall, EndFrame, FrameInv
<1>4. TypeOK'
  BY <1>1, <1>2, <1>3 DEF TypeOK
<1>5. \A g \in Handles : PlaceInv(g)'
  BY <1>1 DEF PlaceInv
<1>6. HeldInv'
  BY <1>1 DEF HeldInv, Holds
<1>7. FrameInv'
  BY <1>1, <1>3 DEF FrameInv, Listens
<1> QED
  BY <1>4, <1>5, <1>6, <1>7

LEMMA SinkInvPreserved == SinkInv /\ [Next]_vars => SinkInv'
<1> SUFFICES ASSUME SinkInv, [Next]_vars PROVE SinkInv'
  OBVIOUS
<1>1. CASE UNCHANGED vars
  BY <1>1 DEF vars, SinkInv, TypeOK, PlaceInv, HeldInv, Holds, FrameInv, Listens
<1> QED
  BY <1>1, CallPreserves, RegisterPreserves, StorePreserves, UnregisterPreserves, FreePreserves,
     DeliveryPreserves DEF Next, Calling

LEMMA SinkInvInit == Init => SinkInv
<1> SUFFICES ASSUME Init PROVE SinkInv
  OBVIOUS
<1> USE SinkAssumption DEF Init
<1>1. TypeOK
  BY DEF TypeOK, Positions
<1>2. \A h \in Handles : PlaceInv(h)
  BY DEF PlaceInv
<1>3. \A k \in Sinks, h \in Handles : ~Holds(h, k) /\ ~Listens(h, k)
  BY DEF Holds, Listens
<1> QED
  BY <1>1, <1>2, <1>3 DEF SinkInv, HeldInv, FrameInv

(* A step of CameraTrack is one of VideoTrack, or none of it. *)
LEMMA StepOfVideoTrack == [CameraNext]_allVars => [Next]_vars
<1> SUFFICES ASSUME [CameraNext]_allVars PROVE [Next]_vars
  OBVIOUS
<1> USE DEF Next, Calling, Delivering
<1>1. CASE UNCHANGED allVars
  BY <1>1 DEF allVars
<1>2. CASE OpenDevice \/ Creating
  BY <1>2 DEF OpenDevice, Creating, RegisterCallback, StartCapture, Refuse, Undo, CreateVideoTrack,
              MakeHandle
<1>3. CASE StopCapture \/ Deregister \/ CaptureFrame \/ RemoveFromSender
  BY <1>3 DEF StopCapture, Deregister, CaptureFrame, RemoveFromSender
<1>4. CASE BeginRemoteFrame \/ FrameGoesOn
  BY <1>4 DEF BeginRemoteFrame, FrameGoesOn, DropFrame, ForwardFrame, EndForward, EndRemoteFrame,
              DeliverToSink
<1>5. ASSUME NEW h \in Handles,
             SinkCall(h) \/ ObtainRemote(h) \/ ReleaseTrack(h) \/ AddToSender(h)
      PROVE  [Next]_vars
  BY <1>5 DEF SinkCall, ObtainRemote, ReleaseTrack, AddToSender
<1> QED
  BY <1>1, <1>2, <1>3, <1>4, <1>5 DEF CameraNext

-----------------------------------------------------------------------------
(* The source and its camera *)

(* Who holds the source: the creation first, one handle after it, a sender only
   beside or after a handle. *)
HolderInv ==
    /\ "create" \in holders <=> create \in {"register", "start", "refused", "track", "handle"}
    /\ "sender" \in holders => create = "returned" /\ outcome = "OK"
    /\ \A h \in Handles :
          /\ h \in holders => origin = "camera" /\ create = "returned" /\ outcome = "OK"
          /\ origin = "camera" /\ pc[h] # "none" => create = "returned" /\ outcome = "OK"
          /\ origin = "camera" /\ pc[h] \notin {"none", "gone"} => h \in holders
    /\ origin = "remote" => create = "unused"

(* The source lives from its creation to the end of its destructor, which runs
   when nobody holds it. *)
SourceInv ==
    /\ source = "live" <=> holders # {} \/ ending # "no"
    /\ holders # {} => ending = "no"
    /\ create = "undoing" <=> create # "returned" /\ ending # "no"
    /\ create = "returned" /\ ending # "no" => outcome = "OK"
    /\ source = "unborn" <=> create = "unused" \/ outcome = "NOT_FOUND"
    /\ create # "returned" <=> outcome = "none"

(* What the camera does at each of these points. *)
DeviceInv ==
    /\ callback => source = "live" /\ create # "register"
    /\ create \in {"start", "refused"} => callback
    /\ holders # {} /\ create \notin {"register", "start", "refused"} =>
          camera = "capturing" /\ callback
    /\ create \in {"register", "start"} \/ source # "live" \/ ending = "deregistering" =>
          camera = "closed"
    /\ delivery # "none" => callback
    /\ origin = "camera" => (locked <=> delivery = "sending")

CameraInv == CameraTypeOK /\ HolderInv /\ SourceInv /\ DeviceInv

(* The variables of CameraTrack whose types it adds to VideoTrack's. *)
LEMMA TypePreserved ==
    ASSUME CameraInv, TypeOK', [CameraNext]_allVars
    PROVE  CameraTypeOK'
<1> USE DEF CameraInv, CameraTypeOK
<1>1. CASE UNCHANGED cameraVars
  BY <1>1 DEF cameraVars
<1>2. CASE OpenDevice
  BY <1>2 DEF OpenDevice, Answer
<1>3. CASE Creating
  <2>1. callback' \in BOOLEAN
    BY <1>3 DEF Creating, RegisterCallback, StartCapture, Refuse, Undo, CreateVideoTrack, MakeHandle
  <2>2. holders' \in SUBSET ({"create", "sender"} \cup Handles)
    BY <1>3 DEF Creating, RegisterCallback, StartCapture, Refuse, Undo, CreateVideoTrack, MakeHandle,
                Drop
  <2> QED
    BY <1>3, <2>1, <2>2
       DEF Creating, RegisterCallback, StartCapture, Refuse, Undo, CreateVideoTrack, MakeHandle,
           Answer, Drop
<1>4. CASE StopCapture \/ Deregister
  BY <1>4 DEF StopCapture, Deregister, Destroyed, Answer
<1>5. CASE CaptureFrame \/ DropFrame \/ ForwardFrame \/ EndForward
  BY <1>5 DEF CaptureFrame, DropFrame, ForwardFrame, EndForward
<1>6. CASE RemoveFromSender \/ \E h \in Handles : ReleaseTrack(h) \/ AddToSender(h)
  BY <1>6 DEF RemoveFromSender, ReleaseTrack, AddToSender, Drop
<1> QED
  BY <1>1, <1>2, <1>3, <1>4, <1>5, <1>6
     DEF CameraNext, FrameGoesOn, BeginRemoteFrame, EndRemoteFrame, DeliverToSink, SinkCall,
         ObtainRemote, allVars

(* Calls on a handle, and frames of a remote track: the camera has no part. *)
LEMMA AsidePreserves ==
    ASSUME CameraInv, UNCHANGED cameraVars,
           \/ \E h \in Handles : SinkCall(h) \/ ObtainRemote(h)
           \/ BeginRemoteFrame \/ EndRemoteFrame \/ DeliverToSink \/ UNCHANGED vars
    PROVE  HolderInv' /\ SourceInv' /\ DeviceInv'
<1> USE DEF CameraInv, CameraTypeOK, cameraVars
<1>1. HolderInv'
  <2>1. ASSUME NEW g \in Handles, origin = "camera"
        PROVE  (pc'[g] # "none" => pc[g] # "none")
               /\ (pc'[g] \notin {"none", "gone"} => pc[g] \notin {"none", "gone"})
    BY <2>1 DEF SinkCall, ObtainRemote, BeginRemoteFrame, EndRemoteFrame, DeliverToSink, BeginFrame,
                EndFrame, CallSink, EndCall, AddSink, Register, Store, RemoveSink, Unregister, Reset,
                Release, Destroy, Goto, Returns, vars, TypeOK
  <2> QED
    BY <2>1 DEF HolderInv
<1>2. SourceInv'
  BY DEF SourceInv
<1>3. DeviceInv'
  <2>1. origin = "camera" => UNCHANGED locked
    BY DEF SinkCall, ObtainRemote, BeginRemoteFrame, EndRemoteFrame, DeliverToSink, CallSink, EndCall,
           AddSink, Register, Store, RemoveSink, Unregister, Reset, Release, Destroy, vars, frameVars
  <2> QED
    BY <2>1 DEF DeviceInv
<1> QED
  BY <1>1, <1>2, <1>3

LEMMA CreationPreserves ==
    ASSUME CameraInv, OpenDevice \/ Creating
    PROVE  HolderInv' /\ SourceInv' /\ DeviceInv'
<1> USE HolderAssumption DEF CameraInv, CameraTypeOK
<1>0. UNCHANGED <<origin, delivery, locked>>
  BY DEF OpenDevice, Creating, RegisterCallback, StartCapture, Refuse, Undo, CreateVideoTrack,
         MakeHandle, Obtain, vars, frameVars
<1>1. CASE OpenDevice
  <2>1. UNCHANGED <<pc, camera, callback, ending>> /\ origin = "camera" /\ create = "unused"
    BY <1>1 DEF OpenDevice, vars
  <2>2. \/ /\ create' = "returned" /\ outcome' = "NOT_FOUND" /\ UNCHANGED <<source, holders>>
        \/ /\ create' = "register" /\ source' = "live" /\ holders' = {"create"} /\ UNCHANGED outcome
    BY <1>1 DEF OpenDevice, Answer
  <2>3. HolderInv'
    BY <1>0, <2>1, <2>2 DEF HolderInv
  <2>4. SourceInv'
    BY <1>0, <2>1, <2>2 DEF SourceInv, HolderInv
  <2>5. DeviceInv'
    BY <1>0, <2>1, <2>2 DEF DeviceInv, SourceInv
  <2> QED
    BY <2>3, <2>4, <2>5
<1>2. CASE RegisterCallback \/ StartCapture \/ CreateVideoTrack
  <2>1. UNCHANGED <<pc, outcome, source, holders, ending>>
        /\ create \in {"register", "start", "track"} /\ create' \in {"start", "refused", "track", "handle"}
    BY <1>2 DEF RegisterCallback, StartCapture, CreateVideoTrack, vars
  <2>2. HolderInv'
    BY <1>0, <2>1 DEF HolderInv
  <2>3. SourceInv'
    BY <1>0, <2>1 DEF SourceInv
  <2>4. source = "live"
    BY <2>1 DEF HolderInv, SourceInv
  <2>5. ending = "no"
    BY <2>1 DEF HolderInv, SourceInv
  <2>6. DeviceInv'
    BY <1>0, <1>2, <2>1, <2>4, <2>5
       DEF DeviceInv, RegisterCallback, StartCapture, CreateVideoTrack, ModuleFree
  <2> QED
    BY <2>2, <2>3, <2>6
<1>3. CASE Refuse
  <2>1. /\ create = "refused" /\ delivery = "none" /\ callback' = FALSE /\ source' = "freed"
        /\ holders' = {} /\ camera' = "closed" /\ create' = "returned" /\ outcome' = "INVALID_STATE"
        /\ UNCHANGED <<pc, ending>>
    BY <1>3 DEF Refuse, Answer, ModuleFree, vars
  <2>2. ending = "no" /\ \A h \in Handles : origin = "camera" => pc[h] = "none"
    BY <2>1 DEF HolderInv, SourceInv
  <2>3. HolderInv'
    BY <1>0, <2>1, <2>2 DEF HolderInv
  <2>4. SourceInv'
    BY <1>0, <2>1, <2>2 DEF SourceInv
  <2>5. DeviceInv'
    BY <1>0, <2>1, <2>2 DEF DeviceInv
  <2> QED
    BY <2>3, <2>4, <2>5
<1>4. CASE Undo
  <2>1. /\ create \in {"track", "handle"} /\ create' = "undoing"
        /\ holders' = holders \ {"create"}
        /\ ending' = IF holders = {"create"} THEN "stopping" ELSE ending
        /\ UNCHANGED <<pc, outcome, source, camera, callback>>
    BY <1>4 DEF Undo, Drop, vars
  <2>2. holders = {"create"} /\ ending = "no" /\ source = "live"
    BY <2>1 DEF HolderInv, SourceInv
  <2>3. HolderInv'
    BY <1>0, <2>1, <2>2 DEF HolderInv
  <2>4. SourceInv'
    BY <1>0, <2>1, <2>2 DEF SourceInv
  <2>5. DeviceInv'
    BY <1>0, <2>1, <2>2 DEF DeviceInv
  <2> QED
    BY <2>3, <2>4, <2>5
<1>5. ASSUME NEW h \in Handles, MakeHandle(h)
      PROVE  HolderInv' /\ SourceInv' /\ DeviceInv'
  <2>1. /\ create = "handle" /\ create' = "returned" /\ outcome' = "OK" /\ holders' = {h}
        /\ pc' = [pc EXCEPT ![h] = "idle"]
        /\ UNCHANGED <<source, camera, callback, ending>>
    BY <1>5 DEF MakeHandle, Obtain, Goto, Answer
  <2>2. holders = {"create"} /\ ending = "no" /\ source = "live" /\ origin = "camera"
        /\ \A g \in Handles : pc[g] = "none"
    BY <2>1 DEF HolderInv, SourceInv
  <2>3. HolderInv'
    BY <1>0, <2>1, <2>2 DEF HolderInv, TypeOK
  <2>4. SourceInv'
    BY <1>0, <2>1, <2>2 DEF SourceInv
  <2>5. DeviceInv'
    BY <1>0, <2>1, <2>2 DEF DeviceInv
  <2> QED
    BY <2>3, <2>4, <2>5
<1> QED
  BY <1>1, <1>2, <1>3, <1>4, <1>5 DEF Creating

(* References are taken by who has one, and the last to go ends the source. *)
LEMMA ReferencePreserves ==
    ASSUME CameraInv, RemoveFromSender \/ \E h \in Handles : ReleaseTrack(h) \/ AddToSender(h)
    PROVE  HolderInv' /\ SourceInv' /\ DeviceInv'
<1> USE HolderAssumption DEF CameraInv, CameraTypeOK
<1>1. UNCHANGED <<pc, locked, origin, create, outcome, source, camera, callback, delivery>>
  BY DEF RemoveFromSender, ReleaseTrack, AddToSender, vars
<1>2. PICK who \in {"sender"} \cup Handles :
          /\ who \in holders
          /\ who \in Handles => pc[who] \in {"idle", "gone"}
          /\ \/ UNCHANGED ending /\ holders' = holders \cup {"sender"}
             \/ Drop(who) /\ (who \in Handles => pc[who] = "gone")
  BY DEF RemoveFromSender, ReleaseTrack, AddToSender
<1>3. create = "returned" /\ outcome = "OK" /\ ending = "no" /\ source = "live"
      /\ camera = "capturing" /\ callback
  BY <1>2 DEF HolderInv, SourceInv, DeviceInv
<1>4. CASE UNCHANGED ending /\ holders' = holders \cup {"sender"}
  BY <1>1, <1>2, <1>3, <1>4 DEF HolderInv, SourceInv, DeviceInv
<1>5. CASE Drop(who) /\ (who \in Handles => pc[who] = "gone")
  <2>1. HolderInv'
    BY <1>1, <1>2, <1>3, <1>5 DEF HolderInv, Drop
  <2>2. SourceInv'
    BY <1>1, <1>2, <1>3, <1>5 DEF SourceInv, Drop
  <2>3. DeviceInv'
    BY <1>1, <1>2, <1>3, <1>5 DEF DeviceInv, Drop
  <2> QED
    BY <2>1, <2>2, <2>3
<1> QED
  BY <1>2, <1>4, <1>5

LEMMA DestructorPreserves ==
    ASSUME CameraInv, StopCapture \/ Deregister
    PROVE  HolderInv' /\ SourceInv' /\ DeviceInv'
<1> USE HolderAssumption DEF CameraInv, CameraTypeOK
<1>1. /\ ending # "no" /\ holders = {} /\ source = "live"
      /\ UNCHANGED <<pc, locked, origin, delivery, holders>>
  BY DEF StopCapture, Deregister, SourceInv, vars
<1>2. CASE StopCapture
  BY <1>1, <1>2 DEF StopCapture, HolderInv, SourceInv, DeviceInv
<1>3. CASE Deregister
  <2>1. /\ delivery = "none" /\ callback' = FALSE /\ source' = "freed" /\ ending' = "no"
        /\ camera = "closed" /\ UNCHANGED camera
        /\ IF create = "undoing" THEN create' = "returned" /\ outcome' = "INTERNAL"
           ELSE UNCHANGED <<create, outcome>>
    BY <1>3 DEF Deregister, Destroyed, Answer, ModuleFree, DeviceInv
  <2>2. HolderInv'
    BY <1>1, <2>1 DEF HolderInv
  <2>3. SourceInv'
    BY <1>1, <2>1 DEF SourceInv
  <2>4. DeviceInv'
    BY <1>1, <2>1 DEF DeviceInv, SourceInv
  <2> QED
    BY <2>2, <2>3, <2>4
<1> QED
  BY <1>2, <1>3

LEMMA CapturePreserves ==
    ASSUME CameraInv, CaptureFrame \/ DropFrame \/ ForwardFrame \/ EndForward
    PROVE  HolderInv' /\ SourceInv' /\ DeviceInv'
<1> USE DEF CameraInv, CameraTypeOK
<1>1. UNCHANGED <<pc, origin, create, outcome, source, camera, callback, holders, ending>>
  BY DEF CaptureFrame, DropFrame, ForwardFrame, EndForward, BeginFrame, EndFrame, vars
<1>2. callback /\ (origin = "camera" => (locked' <=> delivery' = "sending"))
  BY DEF CaptureFrame, DropFrame, ForwardFrame, EndForward, BeginFrame, EndFrame, vars, ModuleFree,
         DeviceInv, TypeOK
<1>3. HolderInv'
  BY <1>1 DEF HolderInv
<1>4. SourceInv'
  BY <1>1 DEF SourceInv
<1>5. DeviceInv'
  BY <1>1, <1>2 DEF DeviceInv
<1> QED
  BY <1>3, <1>4, <1>5

LEMMA CameraInvPreserved == SinkInv /\ CameraInv /\ [CameraNext]_allVars => SinkInv' /\ CameraInv'
<1> SUFFICES ASSUME SinkInv, CameraInv, [CameraNext]_allVars PROVE SinkInv' /\ CameraInv'
  OBVIOUS
<1>1. SinkInv'
  BY StepOfVideoTrack, SinkInvPreserved
<1>2. CameraTypeOK'
  BY <1>1, TypePreserved DEF SinkInv
<1>3. HolderInv' /\ SourceInv' /\ DeviceInv'
  <2>1. \/ OpenDevice \/ Creating \/ StopCapture \/ Deregister
        \/ CaptureFrame \/ DropFrame \/ ForwardFrame \/ EndForward
        \/ RemoveFromSender \/ (\E h \in Handles : ReleaseTrack(h) \/ AddToSender(h))
        \/ /\ UNCHANGED cameraVars
           /\ \/ \E h \in Handles : SinkCall(h) \/ ObtainRemote(h)
              \/ BeginRemoteFrame \/ EndRemoteFrame \/ DeliverToSink \/ UNCHANGED vars
    BY DEF CameraNext, FrameGoesOn, SinkCall, ObtainRemote, BeginRemoteFrame, EndRemoteFrame,
           DeliverToSink, allVars
  <2> QED
    BY <2>1, CreationPreserves, DestructorPreserves, CapturePreserves, ReferencePreserves,
       AsidePreserves
<1> QED
  BY <1>1, <1>2, <1>3 DEF CameraInv

-----------------------------------------------------------------------------
(* The theorems *)

(* Who owns and who knows each sink, who holds the source, and what its camera
   does at each point of its life. *)
THEOREM Invariance == CameraSpec => [](SinkInv /\ CameraInv)
<1>1. CameraInit => SinkInv /\ CameraInv
  <2> SUFFICES ASSUME CameraInit PROVE SinkInv /\ CameraInv
    OBVIOUS
  <2>1. SinkInv
    BY SinkInvInit DEF CameraInit
  <2>2. CameraTypeOK
    BY <2>1 DEF CameraInit, CameraTypeOK, SinkInv
  <2>3. HolderInv
    BY DEF CameraInit, Init, HolderInv
  <2>4. SourceInv
    BY DEF CameraInit, SourceInv
  <2>5. DeviceInv
    BY DEF CameraInit, Init, DeviceInv
  <2> QED
    BY <2>1, <2>2, <2>3, <2>4, <2>5 DEF CameraInv
<1>2. QED
  BY <1>1, CameraInvPreserved, PTL DEF CameraSpec

(* Every variable keeps its type: a destructor that runs was begun once, and no
   position is reached that the code does not have. *)
THEOREM TypeCorrect == CameraSpec => []CameraTypeOK
  BY Invariance, PTL DEF CameraInv

(* Whatever the broadcaster or the capture module knows or calls is alive. *)
THEOREM NoUseAfterFree == CameraSpec => []NoDanglingSource
<1>1. SinkInv => NoDanglingSink
  <2> SUFFICES ASSUME SinkInv, NEW k \in registered \cup todo \cup ({inCall} \ {NoSink})
               PROVE  memory[k] = "live"
    BY DEF NoDanglingSink
  <2>1. k \in registered /\ k \in Sinks
    BY DEF SinkInv, FrameInv, TypeOK
  <2> QED
    BY <2>1 DEF SinkInv, FrameInv, HeldInv, Listens, Holds
<1>2. SinkInv /\ CameraInv => NoDanglingSource
  <2> SUFFICES ASSUME SinkInv, CameraInv PROVE NoDanglingSource
    OBVIOUS
  <2>1. callback \/ delivery # "none" => source = "live"
    BY DEF CameraInv, DeviceInv
  <2>2. ASSUME origin = "camera", registered # {} \/ locked PROVE source = "live"
    <3>1. CASE locked
      BY <2>1, <2>2, <3>1 DEF CameraInv, DeviceInv
    <3>2. CASE registered # {}
      <4>1. PICK k \in Sinks, h \in Handles : Listens(h, k)
        BY <3>2 DEF SinkInv, FrameInv, TypeOK
      <4>2. pc[h] \notin {"none", "gone"}
        BY <4>1, SinkAssumption DEF SinkInv, Listens, PlaceInv
      <4> QED
        BY <2>2, <4>2 DEF CameraInv, HolderInv, SourceInv
    <3> QED
      BY <2>2, <3>1, <3>2
  <2> QED
    BY <1>1, <2>1, <2>2 DEF NoDanglingSource
<1>3. QED
  BY <1>2, Invariance, PTL

(* The camera is open as long as somebody holds the track, and a creation that
   failed has closed it. *)
THEOREM CameraHeld == CameraSpec => []CameraOpenWhileHeld
<1>1. CameraInv => CameraOpenWhileHeld
  <2> SUFFICES ASSUME CameraInv PROVE CameraOpenWhileHeld
    OBVIOUS
  <2>1. ASSUME holders \ {"create"} # {} PROVE camera = "capturing" /\ callback
    BY <2>1, HolderAssumption DEF CameraInv, CameraTypeOK, HolderInv, DeviceInv
  <2>2. ASSUME create = "returned", outcome # "OK"
        PROVE  holders = {} /\ ending = "no" /\ camera = "closed" /\ source # "live"
    <3>1. holders = {}
      BY <2>2 DEF CameraInv, CameraTypeOK, HolderInv
    <3> QED
      BY <2>2, <3>1 DEF CameraInv, SourceInv, DeviceInv
  <2> QED
    BY <2>1, <2>2 DEF CameraOpenWhileHeld
<1>2. QED
  BY <1>1, Invariance, PTL

(* One owner for each sink, one registration for each handle. *)
THEOREM Ownership == CameraSpec => []SinkOwnership
<1>1. SinkInv => OwnedOnce
  <2> SUFFICES ASSUME SinkInv, NEW k \in Sinks, memory[k] = "live"
               PROVE  Cardinality({h \in Handles : slot[h] = k} \cup {h \in Handles : fresh[h] = k}) = 1
    BY DEF OwnedOnce
  <2>1. PICK h \in Handles : Holds(h, k) /\ \A g \in Handles : Holds(g, k) => g = h
    BY DEF SinkInv, HeldInv
  <2>2. {g \in Handles : slot[g] = k} \cup {g \in Handles : fresh[g] = k} = {h}
    BY <2>1 DEF Holds
  <2> QED
    BY <2>2, FS_Singleton
<1>2. SinkInv => OneSinkPerHandle
  <2> SUFFICES ASSUME SinkInv PROVE OneSinkPerHandle
    OBVIOUS
  <2>1. ASSUME NEW k \in registered PROVE \E h \in Handles : k \in Reachable(h)
    BY DEF SinkInv, TypeOK, FrameInv, Listens, Reachable
  <2>2. registered = UNION {Reachable(h) : h \in Handles}
    BY <2>1 DEF Reachable
  <2>3. ASSUME NEW h \in Handles PROVE Cardinality(Reachable(h)) <= 1
    <3>1. NoSink \notin registered
      BY SinkAssumption DEF SinkInv, TypeOK
    <3>2. slot[h] = NoSink \/ fresh[h] = NoSink
      BY DEF SinkInv, TypeOK, PlaceInv, Positions
    <3>3. Reachable(h) = {} \/ \E k : Reachable(h) = {k}
      <4>1. \A j, k \in Reachable(h) : j = k
        BY <3>1, <3>2 DEF Reachable
      <4> QED
        BY <4>1
    <3>4. Cardinality(Reachable(h)) \in {0, 1}
      BY ONLY <3>3, FS_EmptySet, FS_Singleton
    <3> QED
      BY <3>4
  <2>4. ASSUME NEW h \in Handles, pc[h] = "idle" PROVE Reachable(h) # {} <=> slot[h] # NoSink
    <3>1. NoSink \notin registered /\ fresh[h] = NoSink
      BY <2>4, SinkAssumption DEF SinkInv, TypeOK, PlaceInv
    <3>2. slot[h] # NoSink => slot[h] \in registered
      BY <2>4 DEF SinkInv, TypeOK, FrameInv, Listens
    <3> QED
      BY <3>1, <3>2 DEF Reachable
  <2> QED
    BY <2>2, <2>3, <2>4 DEF OneSinkPerHandle
<1>3. QED
  BY <1>1, <1>2, Invariance, PTL DEF SinkOwnership

(* A camera, its source and the references on it add nothing to what VideoTrack
   says of handles and sinks: every step is one of VideoTrack's or none. *)
THEOREM SinkRefinement == CameraSpec => Spec
<1>1. CameraInit => Init
  BY DEF CameraInit
<1> QED
  BY <1>1, StepOfVideoTrack, PTL DEF CameraSpec, Spec

(* Sinks are called only between registration and removal, and removal waits
   for the call in progress: the model implements Subscription. *)
THEOREM Refinement == CameraSpec => ImplementsSubscription
<1> DEFINE Over == {k \in Sinks : k \notin registered /\
                      (memory[k] = "freed" \/
                       \E h \in Handles : slot[h] = k /\ pc[h] \in {"reset", "dead"})}
<1>1. CameraInit => Abstract!Init
  BY SinkAssumption DEF CameraInit, Init, Abstract!Init
<1>2. SinkInv /\ [Next]_vars => [Abstract!Next]_Abstract!vars
  <2> SUFFICES ASSUME SinkInv, [Next]_vars PROVE [Abstract!Next]_Abstract!vars
    OBVIOUS
  <2> USE SinkAssumption DEF SinkInv
  <2>1. ASSUME NEW h \in Handles, Register(h) PROVE Abstract!Next
    <3>1. /\ registered' = registered \cup {fresh[h]} /\ UNCHANGED <<slot, memory, inCall>>
          /\ pc[h] = "adding" /\ pc' = [pc EXCEPT ![h] = "storing"] /\ fresh[h] \in Sinks
      BY <2>1 DEF Register, Goto, frameVars, PlaceInv, TypeOK
    <3>2. PICK k \in Sinks : k = fresh[h]
      BY <3>1
    <3>3. memory[k] = "live" /\ slot[h] = NoSink /\ \A g \in Handles : slot[g] # k
      BY <3>1, <3>2 DEF HeldInv, Holds, PlaceInv
    <3>4. k \notin registered
      BY <3>1, <3>2, <3>3 DEF FrameInv, Listens, HeldInv, Holds
    <3>5. \A g \in Handles \ {h} : pc'[g] = pc[g]
      BY <3>1 DEF TypeOK
    <3>6. Over' = Over /\ k \notin Over
      BY <3>1, <3>2, <3>3, <3>5
    <3>7. Abstract!Subscribe(k)
      BY <3>1, <3>2, <3>4, <3>6 DEF Abstract!Subscribe
    <3> QED
      BY <3>7 DEF Abstract!Next
  <2>2. ASSUME NEW h \in Handles, Unregister(h) PROVE Abstract!Next
    <3>1. /\ registered' = registered \ {slot[h]} /\ UNCHANGED <<slot, memory, inCall>> /\ ~locked
          /\ pc[h] \in {"removing", "dying"} /\ slot[h] \in Sinks
          /\ pc' = [pc EXCEPT ![h] = IF pc[h] = "removing" THEN "reset" ELSE "dead"]
      BY <2>2 DEF Unregister, Goto, frameVars, PlaceInv, TypeOK
    <3>2. PICK k \in Sinks : k = slot[h]
      BY <3>1
    <3>3. k \in registered /\ inCall = NoSink
      BY <3>1, <3>2 DEF FrameInv, Listens
    <3>4. pc'[h] \in {"reset", "dead"} /\ \A g \in Handles \ {h} : pc'[g] = pc[g]
      BY <3>1 DEF TypeOK
    <3>5. Over' = Over \cup {k}
      BY <3>1, <3>2, <3>4
    <3>6. Abstract!Unsubscribe(k)
      BY <3>1, <3>2, <3>3, <3>5 DEF Abstract!Unsubscribe
    <3> QED
      BY <3>6 DEF Abstract!Next
  <2>3. ASSUME CallSink PROVE Abstract!Next
    <3>1. inCall = NoSink /\ inCall' \in todo /\ UNCHANGED <<pc, slot, memory, registered>>
      BY <2>3 DEF CallSink
    <3>2. PICK k \in Sinks : k = inCall' /\ k \in registered
      BY <3>1 DEF FrameInv, TypeOK
    <3>3. Abstract!Notify(k)
      BY <3>1, <3>2 DEF Abstract!Notify
    <3> QED
      BY <3>3 DEF Abstract!Next
  <2>4. ASSUME EndCall PROVE Abstract!Next
    <3>1. inCall \in Sinks /\ inCall' = NoSink /\ UNCHANGED <<pc, slot, memory, registered>>
      BY <2>4 DEF EndCall, TypeOK
    <3>2. PICK k \in Sinks : k = inCall
      BY <3>1
    <3>3. Abstract!Done(k)
      BY <3>1, <3>2 DEF Abstract!Done
    <3> QED
      BY <3>3 DEF Abstract!Next
  <2>5. CASE BeginFrame \/ EndFrame \/ UNCHANGED vars
    BY <2>5 DEF BeginFrame, EndFrame, vars, Abstract!vars
  <2>6. ASSUME NEW h \in Handles, Obtain(h) \/ AddSink(h) \/ RemoveSink(h) \/ Release(h)
        PROVE  UNCHANGED Abstract!vars
    <3>1. UNCHANGED <<slot, registered, inCall>>
      BY <2>6 DEF Obtain, AddSink, RemoveSink, Release, frameVars
    <3>2. \A k \in Sinks : memory'[k] = "freed" <=> memory[k] = "freed"
      BY <2>6 DEF Obtain, AddSink, RemoveSink, Release, TypeOK
    <3>3. \A g \in Handles : pc'[g] \in {"reset", "dead"} <=> pc[g] \in {"reset", "dead"}
      BY <2>6 DEF Obtain, AddSink, RemoveSink, Release, Goto, Returns, TypeOK
    <3>4. Over' = Over
      BY <3>1, <3>2, <3>3
    <3> QED
      BY <3>1, <3>4 DEF Abstract!vars
  <2>7. ASSUME NEW h \in Handles, Store(h) PROVE UNCHANGED Abstract!vars
    <3>1. /\ pc[h] = "storing" /\ slot[h] = NoSink /\ UNCHANGED <<registered, inCall>>
          /\ pc' = [pc EXCEPT ![h] = "idle"] /\ slot' = [slot EXCEPT ![h] = fresh[h]]
          /\ memory' = [k \in Sinks |-> IF k = slot[h] THEN "freed" ELSE memory[k]]
      BY <2>7 DEF Store, Returns, Goto, frameVars, PlaceInv
    <3>2. \A k \in Sinks : memory'[k] = memory[k]
      BY <3>1
    <3>3. pc'[h] = "idle" /\ \A g \in Handles \ {h} : pc'[g] = pc[g] /\ slot'[g] = slot[g]
      BY <3>1 DEF TypeOK
    <3>4. Over' = Over
      BY <3>1, <3>2, <3>3
    <3> QED
      BY <3>1, <3>4 DEF Abstract!vars
  <2>8. ASSUME NEW h \in Handles, Reset(h) \/ Destroy(h) PROVE UNCHANGED Abstract!vars
    <3>1. /\ pc[h] \in {"reset", "dead"} /\ slot[h] \in Sinks /\ UNCHANGED <<registered, inCall>>
          /\ memory' = [memory EXCEPT ![slot[h]] = "freed"] /\ slot' = [slot EXCEPT ![h] = NoSink]
      BY <2>8 DEF Reset, Destroy, FreeSink, frameVars, PlaceInv, TypeOK
    <3>2. PICK k \in Sinks : k = slot[h]
      BY <3>1
    <3>3. /\ memory'[k] = "freed" /\ \A j \in Sinks \ {k} : memory'[j] = memory[j]
          /\ slot'[h] = NoSink /\ \A g \in Handles \ {h} : pc'[g] = pc[g] /\ slot'[g] = slot[g]
      BY <2>8, <3>1, <3>2 DEF Reset, Destroy, Returns, Goto, TypeOK
    <3>4. Over' = Over
      BY <3>1, <3>2, <3>3
    <3> QED
      BY <3>1, <3>4 DEF Abstract!vars
  <2> QED
    BY <2>1, <2>2, <2>3, <2>4, <2>5, <2>6, <2>7, <2>8 DEF Next, Delivering, Calling
<1>3. QED
  BY <1>1, <1>2, StepOfVideoTrack, Invariance, PTL DEF CameraSpec, ImplementsSubscription, Abstract!Spec
=============================================================================
