---------------------------- MODULE CameraTrack ----------------------------
(***************************************************************************)
(* A video track and where its frames come from (CameraSource and          *)
(* rtc_video_track_create, WebRtcInterop/src/Interop.cc), composed with    *)
(* the handles and sinks of VideoTrack.                                    *)
(*                                                                         *)
(* A camera's track is created by one call, which hands out one handle; a  *)
(* remote track comes from a receiver, any number of times, and has no     *)
(* camera.  The CameraSource is counted by reference: the set of holders   *)
(* says who keeps it, directly or through the video track over it.         *)
(*                                                                         *)
(* The capture module is libwebrtc's: it delivers a frame under a lock     *)
(* that registering and deregistering the callback take as well.           *)
(***************************************************************************)
EXTENDS VideoTrack

ASSUME HolderAssumption == Handles \cap {"create", "sender"} = {}

VARIABLES
    origin,     \* "camera" or "remote"
    create,     \* where rtc_video_track_create is
    outcome,    \* what it returned
    source,     \* the CameraSource: "unborn", "live" or "freed"
    camera,     \* the device: "closed" or "capturing"
    callback,   \* the module has the source as its callback
    delivery,   \* the module's frame: "none", "adapting" or "sending"
    holders,    \* who keeps the source
    ending      \* ~CameraSource: "no", "stopping" or "deregistering"

cameraVars == <<origin, create, outcome, source, camera, callback, delivery, holders, ending>>
allVars == <<vars, cameraVars>>

CameraTypeOK ==
    /\ TypeOK
    /\ origin \in {"camera", "remote"}
    /\ create \in {"unused", "register", "start", "refused", "track", "handle", "undoing", "returned"}
    /\ outcome \in {"none", "OK", "NOT_FOUND", "INVALID_STATE", "INTERNAL"}
    /\ source \in {"unborn", "live", "freed"}
    /\ camera \in {"closed", "capturing"}
    /\ callback \in BOOLEAN
    /\ delivery \in {"none", "adapting", "sending"}
    /\ holders \in SUBSET ({"create", "sender"} \cup Handles)
    /\ ending \in {"no", "stopping", "deregistering"}

CameraInit ==
    /\ Init
    /\ origin \in {"camera", "remote"}
    /\ create = "unused" /\ outcome = "none"
    /\ source = "unborn" /\ camera = "closed"
    /\ callback = FALSE /\ delivery = "none"
    /\ holders = {} /\ ending = "no"

Answer(s) == create' = "returned" /\ outcome' = s

(* The module's lock, held over a frame's way through OnFrame and the sinks. *)
ModuleFree == delivery = "none"

(* The last reference runs ~CameraSource. *)
Drop(who) ==
    /\ holders' = holders \ {who}
    /\ ending' = IF holders = {who} THEN "stopping" ELSE ending

-----------------------------------------------------------------------------
(* rtc_video_track_create *)

(* VideoCaptureFactory::Create, then the source itself. *)
OpenDevice ==
    /\ origin = "camera" /\ create = "unused"
    /\ \/ Answer("NOT_FOUND") /\ UNCHANGED <<source, holders>>
       \/ /\ create' = "register"
          /\ source' = "live" /\ holders' = {"create"}
          /\ UNCHANGED outcome
    /\ UNCHANGED <<vars, origin, camera, callback, delivery, ending>>

RegisterCallback ==
    /\ create = "register" /\ ModuleFree
    /\ callback' = TRUE
    /\ create' = "start"
    /\ UNCHANGED <<vars, origin, outcome, source, camera, delivery, holders, ending>>

(* From here on frames come in, also from a device that is said not to start,
   until its module is let go. *)
StartCapture ==
    /\ create = "start"
    /\ \/ create' = "track" /\ camera' = "capturing"
       \/ create' = "refused" /\ camera' \in {"closed", "capturing"}
    /\ UNCHANGED <<vars, origin, outcome, source, callback, delivery, holders, ending>>

(* Mutant: the call waits for a device that would not start to fall silent. *)
RefuseWhenQuiet ==
    /\ create = "refused" /\ ModuleFree /\ camera = "closed"
    /\ callback' = FALSE
    /\ source' = "freed" /\ holders' = {}
    /\ Answer("INVALID_STATE")
    /\ UNCHANGED <<vars, origin, camera, delivery, ending>>

(* DeRegisterCaptureDataCallback; then the source goes, whose module_ is not
   set, and the module after it. *)
Refuse ==
    /\ create = "refused" /\ ModuleFree
    /\ callback' = FALSE
    /\ source' = "freed" /\ holders' = {}
    /\ camera' = "closed"
    /\ Answer("INVALID_STATE")
    /\ UNCHANGED <<vars, origin, delivery, ending>>

(* Both failures give up the call's references with frames coming in; the call
   returns when they are gone. *)
Undo ==
    /\ create \in {"track", "handle"}
    /\ Drop("create")
    /\ create' = "undoing"
    /\ UNCHANGED <<vars, origin, outcome, source, camera, callback, delivery>>

(* The video track takes a reference to the source. *)
CreateVideoTrack ==
    /\ create = "track"
    /\ create' = "handle"
    /\ UNCHANGED <<vars, origin, outcome, source, camera, callback, delivery, holders, ending>>

MakeHandle(h) ==
    /\ create = "handle"
    /\ Obtain(h)
    /\ holders' = {h}
    /\ Answer("OK")
    /\ UNCHANGED <<origin, source, camera, callback, delivery, ending>>

-----------------------------------------------------------------------------
(* Those who hold the track *)

(* on_track and rtc_rtp_receiver_get_track *)
ObtainRemote(h) ==
    /\ origin = "remote"
    /\ Obtain(h)
    /\ UNCHANGED cameraVars

(* Mutant: releasing the handle closes the camera under a sender. *)
ReleaseTrackEndsCamera(h) ==
    /\ pc[h] = "gone" /\ h \in holders
    /\ holders' = holders \ {h}
    /\ ending' = "stopping"
    /\ UNCHANGED <<vars, origin, create, outcome, source, camera, callback, delivery>>

(* The last member of rtc_media_track to be destroyed: its reference to the
   track, after the sink was removed and freed. *)
ReleaseTrack(h) ==
    /\ pc[h] = "gone" /\ h \in holders
    /\ Drop(h)
    /\ UNCHANGED <<vars, origin, create, outcome, source, camera, callback, delivery>>

(* rtc_peer_connection_add_track, add_transceiver or replace_track *)
AddToSender(h) ==
    /\ pc[h] = "idle" /\ h \in holders
    /\ holders' = holders \cup {"sender"}
    /\ UNCHANGED <<vars, origin, create, outcome, source, camera, callback, delivery, ending>>

(* The sender is given another track or none, or its connection is released. *)
RemoveFromSender ==
    /\ "sender" \in holders
    /\ Drop("sender")
    /\ UNCHANGED <<vars, origin, create, outcome, source, camera, callback, delivery>>

-----------------------------------------------------------------------------
(* ~CameraSource, on the thread that gave up the last reference *)

(* Mutant: the destructor leaves the device to the module. *)
StopCaptureSkipped ==
    /\ ending = "stopping"
    /\ ending' = "deregistering"
    /\ UNCHANGED <<vars, origin, create, outcome, source, camera, callback, delivery, holders>>

StopCapture ==
    /\ ending = "stopping"
    /\ camera' = "closed"
    /\ ending' = "deregistering"
    /\ UNCHANGED <<vars, origin, create, outcome, source, callback, delivery, holders>>

Destroyed ==
    /\ source' = "freed"
    /\ ending' = "no"
    /\ IF create = "undoing" THEN Answer("INTERNAL") ELSE UNCHANGED <<create, outcome>>

(* Mutant: stopping is taken to be enough. *)
DeregisterSkipped ==
    /\ ending = "deregistering"
    /\ callback' = FALSE
    /\ Destroyed
    /\ UNCHANGED <<vars, origin, camera, delivery, holders>>

(* DeRegisterCaptureDataCallback waits for the frame in delivery. *)
Deregister ==
    /\ ending = "deregistering" /\ ModuleFree
    /\ callback' = FALSE
    /\ Destroyed
    /\ UNCHANGED <<vars, origin, camera, delivery, holders>>

-----------------------------------------------------------------------------
(* Frames *)

(* The module's thread enters CameraSource::OnFrame. *)
CaptureFrame ==
    /\ camera = "capturing" /\ callback /\ ModuleFree
    /\ delivery' = "adapting"
    /\ UNCHANGED <<vars, origin, create, outcome, source, camera, callback, holders, ending>>

(* No sink wants it, the adapter thins the rate, or it could not be scaled. *)
DropFrame ==
    /\ delivery = "adapting"
    /\ delivery' = "none"
    /\ UNCHANGED <<vars, origin, create, outcome, source, camera, callback, holders, ending>>

(* AdaptedVideoTrackSource::OnFrame, as it came or cropped and scaled. *)
ForwardFrame ==
    /\ delivery = "adapting"
    /\ BeginFrame
    /\ delivery' = "sending"
    /\ UNCHANGED <<origin, create, outcome, source, camera, callback, holders, ending>>

EndForward ==
    /\ delivery = "sending"
    /\ EndFrame
    /\ delivery' = "none"
    /\ UNCHANGED <<origin, create, outcome, source, camera, callback, holders, ending>>

(* The decoder's frames go straight to the broadcaster. *)
BeginRemoteFrame == origin = "remote" /\ BeginFrame /\ UNCHANGED cameraVars
EndRemoteFrame == origin = "remote" /\ EndFrame /\ UNCHANGED cameraVars

DeliverToSink == (CallSink \/ EndCall) /\ UNCHANGED cameraVars

-----------------------------------------------------------------------------
Creating ==
    \/ RegisterCallback \/ StartCapture \/ Refuse \/ Undo
    \/ CreateVideoTrack \/ \E h \in Handles : MakeHandle(h)

SinkCall(h) ==
    /\ \/ AddSink(h) \/ Register(h) \/ Store(h) \/ RemoveSink(h)
       \/ Unregister(h) \/ Reset(h) \/ Release(h) \/ Destroy(h)
    /\ UNCHANGED cameraVars

FrameGoesOn ==
    \/ DropFrame \/ ForwardFrame \/ EndForward
    \/ EndRemoteFrame \/ DeliverToSink

CameraNext ==
    \/ OpenDevice \/ Creating
    \/ StopCapture \/ Deregister
    \/ CaptureFrame \/ BeginRemoteFrame \/ FrameGoesOn
    \/ RemoveFromSender
    \/ \E h \in Handles :
          SinkCall(h) \/ ObtainRemote(h) \/ ReleaseTrack(h) \/ AddToSender(h)

CameraSpec == CameraInit /\ [][CameraNext]_allVars

UnregisterSink(h) == Unregister(h) /\ UNCHANGED cameraVars
EndHandle(h) == (Reset(h) \/ Destroy(h)) /\ UNCHANGED cameraVars

(* Threads that can run do, and frames end.  The two locks are free for most of
   a frame's period, so who waits for one gets it between two frames. *)
FairCameraSpec ==
    /\ CameraSpec
    /\ WF_allVars(FrameGoesOn)
    /\ WF_allVars(Creating) /\ SF_allVars(Refuse)
    /\ WF_allVars(StopCapture) /\ WF_allVars(Deregister)
    /\ \A h \in Handles :
          /\ SF_allVars(UnregisterSink(h))
          /\ WF_allVars(EndHandle(h)) /\ WF_allVars(ReleaseTrack(h))

-----------------------------------------------------------------------------
(* Properties *)

(* The capture thread never runs in, and is never left to call, a source or a
   sink that was freed, whichever step of the creation failed and whichever
   thread gave up the last reference; nor is a sink left registered with a
   source that is gone. *)
NoDanglingSource ==
    /\ NoDanglingSink
    /\ callback \/ delivery # "none" => source = "live"
    /\ origin = "camera" /\ (registered # {} \/ locked) => source = "live"

(* "The camera stays open for exactly as long as the track lives"
   (Interop.cc:663-664): as long as a handle or a sender keeps it, and a
   creation that fails leaves no camera open behind the caller's back. *)
CameraOpenWhileHeld ==
    /\ holders \ {"create"} # {} => camera = "capturing" /\ callback
    /\ create = "returned" /\ outcome # "OK" =>
          holders = {} /\ ending = "no" /\ camera = "closed" /\ source # "live"

(* Once nobody holds the track the camera is closed and the source destroyed,
   although frames may be on their way to it (contrast DesktopTrack's
   CaptureEnds). *)
CameraEnds ==
    (source = "live" /\ holders = {}) ~> (source = "freed" /\ camera = "closed")

(* remove_sink and release return although frames keep coming, and so does a
   creation that found its device, at whichever step it fails. *)
CallsReturn ==
    /\ \A h \in Handles : pc[h] \in {"removing", "dying"} ~> pc[h] \in {"idle", "gone"}
    /\ create = "register" ~> create = "returned"
=============================================================================
