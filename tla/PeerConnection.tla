--------------------------- MODULE PeerConnection ---------------------------
(***************************************************************************)
(* A peer connection's life and its asynchronous requests                  *)
(* (WebRtcInterop/src/PeerConnection.cc).                                  *)
(*                                                                         *)
(* Calls hop to WebRTC's signalling thread and wait for it.  That thread   *)
(* alone calls the application: through the connection's InteropObserver   *)
(* for events, through one completion object per request for answers.  It  *)
(* does one thing at a time, and an answer may come before the call that   *)
(* asked for it has returned, or after the connection was released.        *)
(***************************************************************************)
EXTENDS Naturals, Sequences

CONSTANTS
    Connections,    \* the peer connections the application creates
    Requests,       \* the asynchronous requests it makes
    Nobody          \* no connection, no request

(* create_offer and create_answer; set_local_ and set_remote_description;
   get_stats of a connection; get_stats of one of its senders or receivers *)
Kinds == {"create", "apply", "stats", "selected"}
Outcomes == {"success", "failure"}
Asks == [kind : Kinds, conn : Connections, of : Connections, listens : SUBSET Outcomes]

ASSUME NobodyAssumption == Nobody \notin Connections \cup Requests \cup Asks

VARIABLES
    handle,     \* the application's rtc_peer_connection
    observer,   \* its InteropObserver
    native,     \* WebRTC's peer connection
    raising,    \* the connection whose observer is running a callback
    asked,      \* the arguments of each request
    phase,      \* where the call that makes a request is
    status,     \* what that call returned
    refs,       \* who holds a reference on the request's completion object
    due,        \* the requests WebRTC has a completion object to call for
    answering,  \* the request whose completion object is running a callback
    heard       \* the handlers of a request that were called

connVars == <<handle, observer, native>>
requestVars == <<asked, phase, status, refs, due, heard>>
vars == <<connVars, raising, requestVars, answering>>

TypeOK ==
    /\ handle \in [Connections -> {"none", "creating", "held", "dying", "gone"}]
    /\ observer \in [Connections -> {"none", "live", "freed"}]
    /\ native \in [Connections -> {"none", "open", "closed", "destroyed"}]
    /\ raising \in Connections \cup {Nobody}
    /\ asked \in [Requests -> Asks \cup {Nobody}]
    /\ phase \in [Requests -> {"unused", "posting", "posted", "returned"}]
    /\ status \in [Requests -> {"none", "OK", "INVALID_ARG"}]
    /\ refs \in [Requests -> SUBSET {"caller", "webrtc"}]
    /\ due \in SUBSET Requests
    /\ answering \in Requests \cup {Nobody}
    /\ heard \in [Requests -> Seq(Outcomes)]

Init ==
    /\ handle = [c \in Connections |-> "none"]
    /\ observer = [c \in Connections |-> "none"]
    /\ native = [c \in Connections |-> "none"]
    /\ raising = Nobody
    /\ asked = [r \in Requests |-> Nobody]
    /\ phase = [r \in Requests |-> "unused"]
    /\ status = [r \in Requests |-> "none"]
    /\ refs = [r \in Requests |-> {}]
    /\ due = {}
    /\ answering = Nobody
    /\ heard = [r \in Requests |-> <<>>]

(* The signalling thread is between two callbacks and can serve a call. *)
SignallingFree == raising = Nobody /\ answering = Nobody

Alive(c) == native[c] \in {"open", "closed"}
InUse(c) == \E r \in Requests : phase[r] \in {"posting", "posted"} /\ asked[r].conn = c

-----------------------------------------------------------------------------
(* rtc_peer_connection_create, _close and _release *)

(* The handle comes first, then its observer. *)
Create(c) ==
    /\ handle[c] = "none"
    /\ handle' = [handle EXCEPT ![c] = "creating"]
    /\ observer' = [observer EXCEPT ![c] = "live"]
    /\ UNCHANGED <<native, raising, requestVars, answering>>

(* CreatePeerConnectionOrError: when it fails the unique_ptr takes handle and
   observer with it, and the application may try again. *)
CreateNative(c) ==
    /\ handle[c] = "creating" /\ SignallingFree
    /\ \/ /\ native' = [native EXCEPT ![c] = "open"]
          /\ handle' = [handle EXCEPT ![c] = "held"]
          /\ UNCHANGED observer
       \/ /\ handle' = [handle EXCEPT ![c] = "none"]
          /\ observer' = [observer EXCEPT ![c] = "none"]
          /\ UNCHANGED native
    /\ UNCHANGED <<raising, requestVars, answering>>

(* The handle stays valid, "so callbacks already in flight can still land". *)
Close(c) ==
    /\ handle[c] = "held" /\ SignallingFree
    /\ native' = [native EXCEPT ![c] = "closed"]
    /\ UNCHANGED <<handle, observer, raising, requestVars, answering>>

Release(c) ==
    /\ handle[c] = "held" /\ ~InUse(c)
    /\ handle' = [handle EXCEPT ![c] = "dying"]
    /\ UNCHANGED <<observer, native, raising, requestVars, answering>>

(* "Members are destroyed in reverse": the reference on WebRTC's object first,
   which goes on the signalling thread, between two callbacks... *)
DestroyNative(c) ==
    /\ handle[c] = "dying" /\ Alive(c) /\ SignallingFree
    /\ native' = [native EXCEPT ![c] = "destroyed"]
    /\ UNCHANGED <<handle, observer, raising, requestVars, answering>>

(* Mutant: the members are declared the other way round. *)
DestroyObserverFirst(c) ==
    /\ handle[c] = "dying"
    /\ observer' = [observer EXCEPT ![c] = "freed"]
    /\ handle' = [handle EXCEPT ![c] = IF Alive(c) THEN "dying" ELSE "gone"]
    /\ UNCHANGED <<native, raising, requestVars, answering>>

(* ... and the observer it called into last. *)
DestroyObserver(c) ==
    /\ handle[c] = "dying" /\ ~Alive(c)
    /\ observer' = [observer EXCEPT ![c] = "freed"]
    /\ handle' = [handle EXCEPT ![c] = "gone"]
    /\ UNCHANGED <<native, raising, requestVars, answering>>

-----------------------------------------------------------------------------
(* Events.  WebRTC calls into the observer as long as the connection exists,
   a closed one and one that is being released included. *)

Raise(c) ==
    /\ SignallingFree /\ Alive(c)
    /\ raising' = c
    /\ UNCHANGED <<connVars, requestVars, answering>>

EndRaise ==
    /\ raising # Nobody
    /\ raising' = Nobody
    /\ UNCHANGED <<connVars, requestVars, answering>>

-----------------------------------------------------------------------------
(* Requests *)

(* What a call refuses before it asks WebRTC: a description that does not
   parse, statistics that nobody would hear of. *)
Refusable(a) ==
    \/ a.kind = "apply"
    \/ a.kind \in {"stats", "selected"} /\ a.listens = {}
Acceptable(a) == a.kind \in {"stats", "selected"} => a.listens # {}

(* A selector is a sender or receiver of some connection the application has
   had; for the other kinds "of" is the connection itself. *)
MayAsk(a) ==
    /\ handle[a.conn] = "held"
    /\ IF a.kind = "selected" THEN native[a.of] # "none" ELSE a.of = a.conn

Refuse(r, a) ==
    /\ phase[r] = "unused" /\ MayAsk(a) /\ Refusable(a)
    /\ asked' = [asked EXCEPT ![r] = a]
    /\ phase' = [phase EXCEPT ![r] = "returned"]
    /\ status' = [status EXCEPT ![r] = "INVALID_ARG"]
    /\ UNCHANGED <<connVars, raising, refs, due, answering, heard>>

(* The completion object is made, with a reference for the call. *)
Ask(r, a) ==
    /\ phase[r] = "unused" /\ MayAsk(a) /\ Acceptable(a)
    /\ asked' = [asked EXCEPT ![r] = a]
    /\ phase' = [phase EXCEPT ![r] = "posting"]
    /\ refs' = [refs EXCEPT ![r] = {"caller"}]
    /\ UNCHANGED <<connVars, raising, status, due, answering, heard>>

(* The signalling thread takes the request, and a reference of its own. *)
Post(r) ==
    /\ phase[r] = "posting" /\ SignallingFree
    /\ refs' = [refs EXCEPT ![r] = @ \cup {"webrtc"}]
    /\ due' = due \cup {r}
    /\ phase' = [phase EXCEPT ![r] = "posted"]
    /\ UNCHANGED <<connVars, raising, asked, status, answering, heard>>

(* Mutant: the object belongs to the call, not to its references. *)
ReturnDeletes(r) ==
    /\ phase[r] = "posted"
    /\ refs' = [refs EXCEPT ![r] = {}]
    /\ phase' = [phase EXCEPT ![r] = "returned"]
    /\ status' = [status EXCEPT ![r] = "OK"]
    /\ UNCHANGED <<connVars, raising, asked, due, answering, heard>>

(* Mutant: the call never lets go of the object. *)
ReturnLeaks(r) ==
    /\ phase[r] = "posted"
    /\ phase' = [phase EXCEPT ![r] = "returned"]
    /\ status' = [status EXCEPT ![r] = "OK"]
    /\ UNCHANGED <<connVars, raising, asked, refs, due, answering, heard>>

(* The scoped_refptr of the call goes out of scope. *)
Return(r) ==
    /\ phase[r] = "posted"
    /\ refs' = [refs EXCEPT ![r] = @ \ {"caller"}]
    /\ phase' = [phase EXCEPT ![r] = "returned"]
    /\ status' = [status EXCEPT ![r] = "OK"]
    /\ UNCHANGED <<connVars, raising, asked, due, answering, heard>>

(* Mutant: no return after on_failure. *)
FireBoth(r, o) ==
    heard' = [heard EXCEPT ![r] =
                 @ \o (IF o \in asked[r].listens THEN <<o>> ELSE <<>>)
                   \o (IF o = "failure" /\ "success" \in asked[r].listens
                       THEN <<"success">> ELSE <<>>)]

(* OnSuccess and OnFailure, OnSet..DescriptionComplete, OnStatsDelivered: the
   handler for the outcome, if the caller gave one.  A description that does
   not serialise and a report that never was are failures. *)
Fire(r, o) ==
    heard' = IF o \in asked[r].listens THEN [heard EXCEPT ![r] = Append(@, o)] ELSE heard

(* WebRTC answers what it was asked, also when the connection has gone. *)
Answer(r) ==
    /\ SignallingFree /\ r \in due
    /\ answering' = r
    /\ due' = due \ {r}
    /\ \E o \in Outcomes : Fire(r, o)
    /\ UNCHANGED <<connVars, raising, asked, phase, status, refs>>

(* It "drops the last reference once it has fired". *)
EndAnswer(r) ==
    /\ answering = r
    /\ answering' = Nobody
    /\ refs' = [refs EXCEPT ![r] = @ \ {"webrtc"}]
    /\ UNCHANGED <<connVars, raising, asked, phase, status, due, heard>>

-----------------------------------------------------------------------------
Living(c) ==
    \/ Create(c) \/ CreateNative(c) \/ Close(c)
    \/ Release(c) \/ DestroyNative(c) \/ DestroyObserver(c)

Requesting(r) ==
    \/ \E a \in Asks : Refuse(r, a) \/ Ask(r, a)
    \/ Post(r) \/ Return(r) \/ Answer(r) \/ EndAnswer(r)

Next ==
    \/ \E c \in Connections : Living(c) \/ Raise(c)
    \/ EndRaise
    \/ \E r \in Requests : Requesting(r)

Spec == Init /\ [][Next]_vars

(* The signalling thread's queue is in order, so what is posted there has its
   turn between callbacks; callbacks return; a thread that can run does. *)
Fairness ==
    /\ WF_vars(EndRaise)
    /\ \A r \in Requests :
          /\ SF_vars(Post(r)) /\ SF_vars(Answer(r))
          /\ WF_vars(Return(r)) /\ WF_vars(EndAnswer(r))

-----------------------------------------------------------------------------
(* Properties *)

(* "The peer connection calls into its observer right up until it is gone":
   whatever is closed or released meanwhile, the observer is there for every
   callback and as long as WebRTC's connection could make another. *)
NoDanglingObserver == \A c \in Connections : raising = c \/ Alive(c) => observer[c] = "live"

(* Once release has returned, no event of the connection is being delivered
   and none can follow: its user_data may go. *)
QuietAfterRelease == \A c \in Connections : handle[c] = "gone" => raising # c /\ ~Alive(c)

(* The observer is there for every callback there is and can be, and nobody
   calls once the application may take its user_data away. *)
ObserverOutlives == NoDanglingObserver /\ QuietAfterRelease

(* A completion object exists exactly as long as somebody will use it: the call
   that made it, WebRTC with an answer still to give, or the handler it is
   running.  Whatever order the return, the answer and the connection's release
   come in, WebRTC calls no freed object and none is left behind. *)
CompletionLifetime ==
    \A r \in Requests :
        refs[r] # {} <=> phase[r] \in {"posting", "posted"} \/ r \in due \/ answering = r

(* Every request is answered as OneShot says, in whatever order calls return,
   answers arrive and connections close. *)
Stage(r) ==
    IF phase[r] = "unused" THEN "unused"
    ELSE IF status[r] = "INVALID_ARG" THEN "refused"
    ELSE IF phase[r] = "posting" \/ r \in due THEN "open" ELSE "answered"
Listens(r) == IF asked[r] = Nobody THEN {} ELSE asked[r].listens
Abstract == INSTANCE OneShot WITH
    stage <- [r \in Requests |-> Stage(r)],
    listens <- [r \in Requests |-> Listens(r)]
ImplementsOneShot == Abstract!Spec

(* A request that is made returns, is answered, and its completion object is
   given back to the heap, whichever comes first. *)
RequestsComplete ==
    \A r \in Requests : phase[r] = "posting" ~> (phase[r] = "returned" /\ refs[r] = {})

(* "RTC_ERR_INVALID_ARG if the selector does not belong to this peer
   connection" (Interop.h:777). *)
SelectorBelongs ==
    \A r \in Requests : asked[r] # Nobody /\ status[r] = "OK" => asked[r].of = asked[r].conn
=============================================================================
