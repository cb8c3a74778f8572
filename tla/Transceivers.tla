---------------------------- MODULE Transceivers ----------------------------
(***************************************************************************)
(* The transceivers of one peer connection as its callers see them         *)
(* (rtc_peer_connection_add_track, _remove_track, _add_transceiver and     *)
(* _get_transceivers, rtc_rtp_sender_replace_track and the                 *)
(* rtc_rtp_transceiver calls, WebRtcInterop/src/PeerConnection.cc).        *)
(*                                                                         *)
(* The connection owns the transceivers and lists them; negotiation by     *)
(* another thread, or by the remote end, adds to the list and takes from   *)
(* it.  Callers own handles, which are views: any number of them onto one  *)
(* transceiver, each freed once.  A transceiver is its number in the order *)
(* of creation, a handle the transceiver it is a view onto.                *)
(***************************************************************************)
EXTENDS Naturals, Sequences, SequencesExt

CONSTANTS
    Callers,            \* threads of the application
    Tracks,             \* media tracks that may be sent
    NoTrack,            \* a sender without a track
    MaxTransceivers     \* bound: transceivers ever made

ASSUME TransceiverAssumption ==
    /\ NoTrack \notin Tracks
    /\ MaxTransceivers \in Nat

Native == 1..MaxTransceivers
None == 0

VARIABLES
    open,       \* the connection is not closed
    list,       \* what the connection's GetTransceivers returns
    made,       \* how many transceivers were made
    sends,      \* the track of each transceiver's sender
    stopped,    \* transceivers that stop() was called on
    pending,    \* transceivers a remote offer made that is not answered yet
    negotiated, \* transceivers that have a mid and a current direction
    pc,         \* "idle", "handle" (adding) or "wrapping" (listing)
    mine,       \* the transceiver an add has added
    snapshot,   \* the connection's list as get_transceivers got it
    handles,    \* its vector of handles
    told,       \* the caller's count
    buffer,     \* the caller's array of handles
    out,        \* the caller's handle from add_track, add_transceiver, get_sender ...
    heap,       \* how many handles are allocated for the caller
    status,     \* what its last call returned
    short,      \* its last get_transceivers found the buffer too small
    during      \* history: what the list was while get_transceivers ran

natives == <<open, list, made, sends, stopped, pending, negotiated>>
local == <<pc, mine, snapshot, handles>>
caller == <<told, buffer, out, heap, status, short>>
vars == <<natives, local, caller, during>>

Lists == UNION {[1..n -> Native] : n \in 0..MaxTransceivers}

(* The connection lists its transceivers in the order of their creation. *)
InOrder(l) == \A i, j \in DOMAIN l : i < j => l[i] < l[j]

TypeOK ==
    /\ open \in BOOLEAN
    /\ list \in Lists /\ InOrder(list)
    /\ made \in 0..MaxTransceivers
    /\ sends \in [Native -> Tracks \cup {NoTrack}]
    /\ stopped \subseteq Native /\ pending \subseteq Native /\ negotiated \subseteq Native
    /\ pc \in [Callers -> {"idle", "handle", "wrapping"}]
    /\ mine \in [Callers -> Native \cup {None}]
    /\ snapshot \in [Callers -> Lists]
    /\ handles \in [Callers -> Lists]
    /\ told \in [Callers -> 0..MaxTransceivers]
    /\ buffer \in [Callers -> Lists]
    /\ out \in [Callers -> Native \cup {None}]
    /\ heap \in [Callers -> Nat]
    /\ status \in [Callers -> {"OK", "INVALID_ARG", "INVALID_STATE", "NOT_FOUND", "INTERNAL"}]
    /\ short \in [Callers -> BOOLEAN]
    /\ during \in [Callers -> SUBSET Lists]

Init ==
    /\ open = TRUE
    /\ list = <<>> /\ made = 0
    /\ sends = [x \in Native |-> NoTrack]
    /\ stopped = {} /\ pending = {} /\ negotiated = {}
    /\ pc = [t \in Callers |-> "idle"]
    /\ mine = [t \in Callers |-> None]
    /\ snapshot = [t \in Callers |-> <<>>]
    /\ handles = [t \in Callers |-> <<>>]
    /\ told = [t \in Callers |-> 0]
    /\ buffer = [t \in Callers |-> <<>>]
    /\ out = [t \in Callers |-> None]
    /\ heap = [t \in Callers |-> 0]
    /\ status = [t \in Callers |-> "OK"]
    /\ short = [t \in Callers |-> FALSE]
    /\ during = [t \in Callers |-> {}]

Goto(t, p) == pc' = [pc EXCEPT ![t] = p]
Says(t, s) == status' = [status EXCEPT ![t] = s]
Returns(t, s) == Goto(t, "idle") /\ Says(t, s)
Allocates(t) == heap' = [heap EXCEPT ![t] = @ + 1]

(* The list changes under whoever is in get_transceivers. *)
ListBecomes(l) ==
    /\ list' = l
    /\ during' = [t \in Callers |-> IF pc[t] = "wrapping" THEN during[t] \cup {l} ELSE {}]

(* A new transceiver, which may send k. *)
Appended(k) ==
    /\ made < MaxTransceivers
    /\ made' = made + 1
    /\ sends' = [sends EXCEPT ![made + 1] = k]
    /\ ListBecomes(Append(list, made + 1))

InList == ToSet(list)

(* All but the members of S stay, in their order. *)
Leave(S) ==
    \E n \in 0..Len(list) : \E l \in [1..n -> InList \ S] :
        ToSet(l) = InList \ S /\ InOrder(l) /\ ListBecomes(l)

Keeps == UNCHANGED <<list, made, sends>> /\ during' = during

-----------------------------------------------------------------------------
(* Adding: WebRTC's step first, the handle after it *)

Begins(t) == pc[t] = "idle" /\ out[t] = None

(* rtc_peer_connection_add_transceiver up to AddTransceiver(); passable is
   whether the direction is one of the four that can be set and no stream id is
   null.  WebRTC may refuse on an open connection as well, the rids or the
   encodings for one; INVALID_PARAMETER alone is reported as the caller's. *)
AddTransceiver(t, passable, k) ==
    /\ Begins(t)
    /\ \/ ~passable /\ Returns(t, "INVALID_ARG") /\ Keeps /\ UNCHANGED mine
       \/ /\ passable
          /\ \E error \in {"INVALID_PARAMETER", "INVALID_STATE", "UNSUPPORTED_PARAMETER"} :
                Returns(t, IF error = "INVALID_PARAMETER" THEN "INVALID_ARG" ELSE "INVALID_STATE")
          /\ Keeps /\ UNCHANGED mine
       \/ /\ passable /\ open /\ Appended(k)
          /\ mine' = [mine EXCEPT ![t] = made + 1]
          /\ Goto(t, "handle") /\ UNCHANGED status
    /\ UNCHANGED <<open, stopped, pending, negotiated, snapshot, handles,
                   told, buffer, out, heap, short>>

Sent(k) == \E x \in InList : sends[x] = k

(* WebRTC may give the track to a transceiver that sends none. *)
Reused(x, k) ==
    /\ x \in InList \ stopped /\ sends[x] = NoTrack
    /\ sends' = [sends EXCEPT ![x] = k]
    /\ UNCHANGED <<list, made, during>>

(* rtc_peer_connection_add_track up to AddTrack(): any error of WebRTC's is
   reported as the state's fault.  A caller that passes no out_sender is done. *)
AddTrack(t, k, wanted) ==
    /\ Begins(t)
    /\ \/ /\ ~open \/ Sent(k)
          /\ Returns(t, "INVALID_STATE") /\ Keeps /\ UNCHANGED mine
       \/ /\ open /\ ~Sent(k)
          /\ \E x \in Native :
                /\ Reused(x, k) \/ (x = made + 1 /\ Appended(k))
                /\ IF wanted THEN /\ mine' = [mine EXCEPT ![t] = x]
                                  /\ Goto(t, "handle") /\ UNCHANGED status
                   ELSE Returns(t, "OK") /\ UNCHANGED mine
    /\ UNCHANGED <<open, stopped, pending, negotiated, snapshot, handles,
                   told, buffer, out, heap, short>>

(* The end of both: the handle, or RTC_ERR_INTERNAL for what was added. *)
FinishAdd(t) ==
    /\ pc[t] = "handle"
    /\ mine' = [mine EXCEPT ![t] = None]
    /\ \/ Returns(t, "OK") /\ Allocates(t) /\ out' = [out EXCEPT ![t] = mine[t]]
       \/ Returns(t, "INTERNAL") /\ UNCHANGED <<heap, out>>
    /\ UNCHANGED <<natives, snapshot, handles, told, buffer, short, during>>

-----------------------------------------------------------------------------
(* rtc_peer_connection_get_transceivers *)

(* Mutant: out_count is written when the call succeeds only. *)
TellsOfSuccess(t, fits) == told' = [told EXCEPT ![t] = IF fits THEN Len(list) ELSE @]

(* *out_count is written before the capacity is looked at. *)
Tells(t, fits) == told' = [told EXCEPT ![t] = Len(list)]

(* GetTransceivers() and the early returns.  The buffer handed in holds no
   handle that is still to be released. *)
GetTransceivers(t, counting, capacity) ==
    LET fits == counting \/ capacity >= Len(list) IN
    /\ pc[t] = "idle" /\ (counting \/ buffer[t] = <<>>)
    /\ Tells(t, fits)
    /\ short' = [short EXCEPT ![t] = ~fits]
    /\ IF ~fits \/ counting
       THEN Returns(t, IF fits THEN "OK" ELSE "INVALID_ARG") /\ UNCHANGED <<snapshot, during>>
       ELSE /\ snapshot' = [snapshot EXCEPT ![t] = list]
            /\ during' = [during EXCEPT ![t] = {list}]
            /\ Goto(t, "wrapping") /\ UNCHANGED status
    /\ UNCHANGED <<natives, mine, handles, buffer, out, heap>>

(* Mutant: the list is asked for again for every element. *)
ToWrapLive(t) == IF Len(handles[t]) < Len(list) THEN list[Len(handles[t]) + 1] ELSE None

(* The element of the local vector the loop has come to. *)
ToWrap(t) == IF Len(handles[t]) < Len(snapshot[t]) THEN snapshot[t][Len(handles[t]) + 1] ELSE None

Wrap(t) ==
    /\ pc[t] = "wrapping" /\ ToWrap(t) # None
    /\ handles' = [handles EXCEPT ![t] = Append(@, ToWrap(t))]
    /\ Allocates(t)
    /\ UNCHANGED <<natives, pc, mine, snapshot, told, buffer, out, status, short, during>>

ListingEnds(t) ==
    /\ snapshot' = [snapshot EXCEPT ![t] = <<>>]
    /\ handles' = [handles EXCEPT ![t] = <<>>]
    /\ during' = [during EXCEPT ![t] = {}]

(* Mutant: the error return deletes nothing. *)
DeleteNone(t) == 0

(* The loop that deletes what was allocated. *)
Deleted(t) == Len(handles[t])

WrapFails(t) ==
    /\ pc[t] = "wrapping" /\ ToWrap(t) # None
    /\ heap' = [heap EXCEPT ![t] = @ - Deleted(t)]
    /\ Returns(t, "INTERNAL")
    /\ ListingEnds(t)
    /\ UNCHANGED <<natives, mine, told, buffer, out, short>>

CopyOut(t) ==
    /\ pc[t] = "wrapping" /\ ToWrap(t) = None
    /\ buffer' = [buffer EXCEPT ![t] = handles[t]]
    /\ Returns(t, "OK")
    /\ ListingEnds(t)
    /\ UNCHANGED <<natives, mine, told, out, heap, short>>

-----------------------------------------------------------------------------
(* Calls on a transceiver the caller has a handle of *)

Known(t) == ToSet(buffer[t]) \cup ({out[t]} \ {None})

(* rtc_rtp_transceiver_get_sender and _get_receiver, rtc_rtp_receiver_get_track:
   one more handle, onto a part of the transceiver. *)
GetPart(t, x) ==
    /\ Begins(t) /\ x \in Known(t)
    /\ \/ Returns(t, "OK") /\ Allocates(t) /\ out' = [out EXCEPT ![t] = x]
       \/ Returns(t, "INTERNAL") /\ UNCHANGED <<heap, out>>
    /\ UNCHANGED <<natives, mine, snapshot, handles, told, buffer, short, during>>

(* rtc_rtp_transceiver_get_mid: a string of the caller's, or no mid yet. *)
GetMid(t, x) ==
    /\ Begins(t) /\ x \in Known(t)
    /\ \/ /\ x \in negotiated
          /\ Returns(t, "OK") /\ Allocates(t) /\ out' = [out EXCEPT ![t] = x]
       \/ x \in negotiated /\ Returns(t, "INTERNAL") /\ UNCHANGED <<heap, out>>
       \/ x \notin negotiated /\ Returns(t, "NOT_FOUND") /\ UNCHANGED <<heap, out>>
    /\ UNCHANGED <<natives, mine, snapshot, handles, told, buffer, short, during>>

(* rtc_rtp_transceiver_stop: it leaves the list with the next negotiation. *)
Stop(t, x) ==
    /\ pc[t] = "idle" /\ x \in Known(t)
    /\ IF open THEN stopped' = stopped \cup {x} /\ Returns(t, "OK")
       ELSE Returns(t, "INVALID_STATE") /\ UNCHANGED stopped
    /\ Keeps
    /\ UNCHANGED <<open, pending, negotiated, mine, snapshot, handles, told, buffer, out, heap, short>>

(* rtc_rtp_transceiver_set_direction: the direction itself is not kept here. *)
SetDirection(t, x, settable) ==
    /\ pc[t] = "idle" /\ x \in Known(t)
    /\ Returns(t, IF ~settable THEN "INVALID_ARG"
                  ELSE IF ~open \/ x \in stopped THEN "INVALID_STATE" ELSE "OK")
    /\ UNCHANGED <<natives, mine, snapshot, handles, told, buffer, out, heap, short, during>>

(* rtc_peer_connection_remove_track *)
RemoveTrack(t, x) ==
    /\ pc[t] = "idle" /\ x \in Known(t)
    /\ IF open THEN sends' = [sends EXCEPT ![x] = NoTrack] /\ Returns(t, "OK")
       ELSE Returns(t, "INVALID_STATE") /\ UNCHANGED sends
    /\ UNCHANGED <<open, list, made, stopped, pending, negotiated, mine, snapshot, handles,
                   told, buffer, out, heap, short, during>>

(* rtc_rtp_sender_replace_track: null stops sending; a track of the other kind
   and a sender that was stopped are refused alike. *)
ReplaceTrack(t, x, k) ==
    /\ pc[t] = "idle" /\ x \in Known(t)
    /\ \/ /\ open /\ x \notin stopped
          /\ sends' = [sends EXCEPT ![x] = k] /\ Returns(t, "OK")
       \/ /\ ~open \/ x \in stopped \/ k # NoTrack
          /\ Returns(t, "INVALID_ARG") /\ UNCHANGED sends
    /\ UNCHANGED <<open, list, made, stopped, pending, negotiated, mine, snapshot, handles,
                   told, buffer, out, heap, short, during>>

(* rtc_rtp_transceiver_release, rtc_rtp_sender_release, rtc_rtp_receiver_release,
   rtc_string_free: the caller is through with the array, or with the handle. *)
Release(t) ==
    /\ pc[t] = "idle"
    /\ \/ /\ buffer[t] # <<>> /\ buffer' = [buffer EXCEPT ![t] = <<>>]
          /\ heap' = [heap EXCEPT ![t] = @ - Len(buffer[t])] /\ UNCHANGED out
       \/ /\ out[t] # None /\ out' = [out EXCEPT ![t] = None]
          /\ heap' = [heap EXCEPT ![t] = @ - 1] /\ UNCHANGED buffer
    /\ UNCHANGED <<natives, local, told, status, short, during>>

-----------------------------------------------------------------------------
(* The connection, seen from here *)

(* set_remote_description with an offer: a transceiver nobody here asked for. *)
RemoteOffer ==
    /\ open /\ Appended(NoTrack) /\ pending' = pending \cup {made + 1}
    /\ UNCHANGED <<open, stopped, negotiated, local, caller>>

(* An offer is answered, here or there: mids are final, stopped ones go. *)
Answer ==
    /\ open
    /\ negotiated' = negotiated \cup InList
    /\ pending' = {}
    /\ Leave(stopped)
    /\ UNCHANGED <<open, made, sends, stopped, local, caller>>

(* The remote offer is withdrawn, and what it made that sends nothing. *)
Rollback ==
    /\ open /\ pending # {}
    /\ Leave({x \in pending : sends[x] = NoTrack})
    /\ pending' = {}
    /\ UNCHANGED <<open, made, sends, stopped, negotiated, local, caller>>

(* rtc_peer_connection_close: the list stays, its members are stopped. *)
Close ==
    /\ open /\ open' = FALSE
    /\ stopped' = stopped \cup InList
    /\ UNCHANGED <<list, made, sends, pending, negotiated, local, caller, during>>

-----------------------------------------------------------------------------
Adding(t) ==
    \/ \E passable \in BOOLEAN, k \in Tracks \cup {NoTrack} : AddTransceiver(t, passable, k)
    \/ \E k \in Tracks, wanted \in BOOLEAN : AddTrack(t, k, wanted)

Listing(t) ==
    \E counting \in BOOLEAN, capacity \in 0..MaxTransceivers : GetTransceivers(t, counting, capacity)

Using(t) ==
    \/ \E x \in Native :
          \/ GetPart(t, x) \/ GetMid(t, x) \/ Stop(t, x) \/ RemoveTrack(t, x)
          \/ \E settable \in BOOLEAN : SetDirection(t, x, settable)
          \/ \E k \in Tracks \cup {NoTrack} : ReplaceTrack(t, x, k)
    \/ Release(t)

Continue(t) == FinishAdd(t) \/ Wrap(t) \/ WrapFails(t) \/ CopyOut(t)

Next ==
    \/ \E t \in Callers : Adding(t) \/ Listing(t) \/ Using(t) \/ Continue(t)
    \/ RemoteOffer \/ Answer \/ Rollback \/ Close

Spec == Init /\ [][Next]_vars

(* A caller whose buffer was too small asks again, with the count it was told. *)
Retry(t) == short[t] /\ GetTransceivers(t, FALSE, told[t])

FairSpec == Spec /\ \A t \in Callers : WF_vars(Continue(t)) /\ SF_vars(Retry(t))

-----------------------------------------------------------------------------
(* Properties *)

(* "a failure part way through frees what it allocated instead of leaving the
   caller a buffer that is partly handles": between two calls, what is
   allocated for a caller is what its array and its out parameter point to. *)
HandlesAccountedFor ==
    \A t \in Callers : pc[t] = "idle" =>
        heap[t] = Len(buffer[t]) + (IF out[t] = None THEN 0 ELSE 1)

(* A listing that succeeds hands out the list as it was at one moment during
   the call, whatever came in between the elements, and in that length: a
   transceiver that an add failed to make a handle for is found there too. *)
ListingIsExact ==
    [][\A t \in Callers :
          pc[t] = "wrapping" /\ pc'[t] = "idle" /\ status'[t] = "OK" =>
              buffer'[t] \in during[t] /\ Len(buffer'[t]) = told'[t]]_vars

(* Counting and fetching are two calls, and the list may grow in between; a
   caller that asks again with the count a refusal told it gets through. *)
AskingAgainWorks == \A t \in Callers : short[t] ~> ~short[t]
=============================================================================
