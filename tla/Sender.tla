------------------------------- MODULE Sender -------------------------------
(***************************************************************************)
(* One RTP sender's encoding parameters, read and written by several       *)
(* threads, each with a handle of its own onto the sender                  *)
(* (rtc_rtp_sender_get_parameters and _set_parameters,                     *)
(* WebRtcInterop/src/PeerConnection.cc).                                   *)
(*                                                                         *)
(* set_parameters is a get, a change and a set: two hops to the signalling *)
(* thread, between which other calls and negotiations have their turn.     *)
(* WebRTC accepts a set only of what the latest get of the sender gave     *)
(* out; "recent" is the thread that made it.                               *)
(***************************************************************************)
EXTENDS Naturals, Sequences

CONSTANTS
    Callers,        \* threads of the application
    MaxLayers,      \* the most encodings a sender has
    Settings,       \* values of the writable fields, all with a scalability_mode
    Unset,          \* the sentinels and a null scalability_mode
    Refused,        \* a value the sender does not accept
    Nobody          \* no thread

Values == Settings \cup {Unset}
Layers == 1..MaxLayers

ASSUME SenderAssumption ==
    /\ MaxLayers \in Nat \ {0}
    /\ Unset \notin Settings /\ Refused \notin Values
    /\ Nobody \notin Callers

(* An encoding: whether it has a rid, and its writable fields. *)
UpTo(S) == UNION {[1..n -> S] : n \in 0..MaxLayers}
Encodings == UpTo([rid : BOOLEAN, value : Values \cup {Refused}])

(* The two strings of an rtc_rtp_encoding: the caller owns the non-null ones. *)
Strings == Layers \X {"rid", "mode"}

VARIABLES
    open,       \* the peer connection is not closed
    stopped,    \* the sender's transceiver was stopped
    encodings,  \* the sender's encodings
    recent,     \* who made the latest GetParameters, Nobody after a set
    pc,         \* "idle", "setting" or "filling"
    local,      \* a thread's RtpParameters
    want,       \* the encodings the caller of set_parameters passed
    next,       \* the encoding get_parameters copies next
    made,       \* ToInterop's locals rid and scalability_mode, the non-null ones
    buffer,     \* the strings the caller finds in its rtc_rtp_encoding array
    heap,       \* the strings allocated for it and not freed
    status,     \* what a thread's last call returned
    disturbed   \* history: another call, a negotiation, a stop or a close has
                \* come in between a thread's get and its set

connection == <<open, stopped, encodings, recent>>
vars == <<connection, pc, local, want, next, made, buffer, heap, status, disturbed>>

TypeOK ==
    /\ open \in BOOLEAN /\ stopped \in BOOLEAN
    /\ encodings \in Encodings
    /\ recent \in Callers \cup {Nobody}
    /\ pc \in [Callers -> {"idle", "setting", "filling"}]
    /\ local \in [Callers -> Encodings]
    /\ want \in [Callers -> UpTo(Values \cup {Refused})]
    /\ next \in [Callers -> 0..MaxLayers + 1]
    /\ made \in [Callers -> SUBSET Strings]
    /\ buffer \in [Callers -> SUBSET Strings]
    /\ heap \in [Callers -> SUBSET Strings]
    /\ status \in [Callers -> {"OK", "INVALID_ARG", "INVALID_STATE", "INTERNAL"}]
    /\ disturbed \in [Callers -> BOOLEAN]

(* A single encoding without a rid, or simulcast layers with one each. *)
Init ==
    /\ open = TRUE /\ stopped = FALSE
    /\ \E n \in 1..MaxLayers :
          encodings = [i \in 1..n |-> [rid |-> n > 1, value |-> Unset]]
    /\ recent = Nobody
    /\ pc = [t \in Callers |-> "idle"]
    /\ local = [t \in Callers |-> <<>>]
    /\ want = [t \in Callers |-> <<>>]
    /\ next = [t \in Callers |-> 0]
    /\ made = [t \in Callers |-> {}]
    /\ buffer = [t \in Callers |-> {}]
    /\ heap = [t \in Callers |-> {}]
    /\ status = [t \in Callers |-> "OK"]
    /\ disturbed = [t \in Callers |-> FALSE]

Goto(t, p) == pc' = [pc EXCEPT ![t] = p]
Returns(t, s) == Goto(t, "idle") /\ status' = [status EXCEPT ![t] = s]
OutOfScope(t) ==
    /\ local' = [local EXCEPT ![t] = <<>>]
    /\ want' = [want EXCEPT ![t] = <<>>]
    /\ next' = [next EXCEPT ![t] = 0]
    /\ made' = [made EXCEPT ![t] = {}]

(* A get of t comes between the get and the set of every thread that is there. *)
Disturbs(t) == disturbed' = [u \in Callers |-> u # t /\ (disturbed[u] \/ pc[u] = "setting")]

-----------------------------------------------------------------------------
(* rtc_rtp_sender_set_parameters *)

(* Mutant: an unset field is skipped instead of cleared. *)
ApplySet(e, v) == IF v = Unset THEN e ELSE [e EXCEPT !.value = v]

(* ApplyInterop: the writable fields, an unset one included; rid and the rest
   stay as the sender has them. *)
ApplyInterop(e, v) == [e EXCEPT !.value = v]

(* sender->GetParameters(), and the fields the caller passed applied to it. *)
BeginSet(t, w) ==
    /\ pc[t] = "idle"
    /\ recent' = t
    /\ Disturbs(t)
    /\ \/ /\ Len(encodings) # Len(w)
          /\ Returns(t, "INVALID_ARG")
          /\ UNCHANGED <<local, want>>
       \/ /\ Len(encodings) = Len(w)
          /\ local' = [local EXCEPT ![t] =
                          [i \in DOMAIN encodings |-> ApplyInterop(encodings[i], w[i])]]
          /\ want' = [want EXCEPT ![t] = w]
          /\ Goto(t, "setting")
          /\ UNCHANGED status
    /\ UNCHANGED <<open, stopped, encodings, next, made, buffer, heap>>

(* What WebRTC may make of a set.  A sender that has ended, or has given out
   nothing since it was last set, is in no state to be set; parameters that are
   not of the latest get, or no longer fit the sender, are a modification; then
   the values count; and WebRTC may have trouble of its own. *)
Ended == ~open \/ stopped
Stale(t) == recent # t
Fits(t) ==
    /\ DOMAIN local[t] = DOMAIN encodings
    /\ \A i \in DOMAIN encodings : local[t][i].rid = encodings[i].rid
ValueErrors == {"INVALID_PARAMETER", "INVALID_RANGE", "UNSUPPORTED_OPERATION"}
Verdicts(t) ==
    IF Ended \/ recent = Nobody THEN {"INVALID_STATE"}
    ELSE IF Stale(t) \/ ~Fits(t) THEN {"INVALID_MODIFICATION"}
    ELSE IF \E i \in DOMAIN local[t] : local[t][i].value = Refused
         THEN ValueErrors \cup {"INVALID_MODIFICATION"}
    ELSE {"NONE", "INTERNAL_ERROR"}

(* Mutant: a value that WebRTC does not support falls into the default. *)
StatusOfThree(error) ==
    IF error = "NONE" THEN "OK"
    ELSE IF error \in {"INVALID_MODIFICATION", "INVALID_PARAMETER", "INVALID_RANGE"} THEN "INVALID_ARG"
    ELSE "INVALID_STATE"

(* The switch on error.type(); the default takes everything it does not name. *)
StatusOf(error) ==
    IF error = "NONE" THEN "OK"
    ELSE IF error \in {"INVALID_MODIFICATION"} \cup ValueErrors THEN "INVALID_ARG"
    ELSE "INVALID_STATE"

(* sender->SetParameters().  A set that fails may have used the transaction up. *)
EndSet(t) ==
    /\ pc[t] = "setting"
    /\ \E error \in Verdicts(t) :
          /\ Returns(t, StatusOf(error))
          /\ IF error = "NONE"
             THEN encodings' = local[t] /\ recent' = Nobody
             ELSE UNCHANGED encodings /\ recent' \in IF Stale(t) THEN {recent} ELSE {t, Nobody}
    /\ disturbed' = [disturbed EXCEPT ![t] = FALSE]
    /\ OutOfScope(t)
    /\ UNCHANGED <<open, stopped, buffer, heap>>

-----------------------------------------------------------------------------
(* rtc_rtp_sender_get_parameters *)

(* GetParameters() is made before anything is looked at, for a counting call
   and for a buffer that is too small as well.  The buffer handed in is one
   whose strings the caller has freed. *)
BeginGet(t, counting, capacity) ==
    /\ pc[t] = "idle" /\ buffer[t] = {}
    /\ recent' = t
    /\ Disturbs(t)
    /\ \/ counting /\ Returns(t, "OK") /\ UNCHANGED <<local, next>>
       \/ /\ ~counting /\ capacity < Len(encodings)
          /\ Returns(t, "INVALID_ARG")
          /\ UNCHANGED <<local, next>>
       \/ /\ ~counting /\ capacity >= Len(encodings)
          /\ local' = [local EXCEPT ![t] = encodings]
          /\ next' = [next EXCEPT ![t] = 1]
          /\ Goto(t, "filling")
          /\ UNCHANGED status
    /\ UNCHANGED <<open, stopped, encodings, want, made, buffer, heap>>

(* Mutant: every round asks the sender again. *)
RidOfLatest(t, i) ==
    IF i \in DOMAIN encodings /\ encodings[i].rid THEN {<<i, "rid">>} ELSE {}

(* The strings encoding i of t's copy has to have duplicated. *)
RidOf(t, i) == IF local[t][i].rid THEN {<<i, "rid">>} ELSE {}
ModeOf(t, i) == IF local[t][i].value # Unset THEN {<<i, "mode">>} ELSE {}

Needed(t) == RidOf(t, next[t]) \cup ModeOf(t, next[t])

Filling(t) == pc[t] = "filling" /\ next[t] <= Len(local[t])

(* ToInterop asks DuplicateString for the rid first. *)
NextString(t, x) ==
    /\ x \notin made[t]
    /\ x \in ModeOf(t, next[t]) => RidOf(t, next[t]) \subseteq made[t]

Duplicate(t) ==
    /\ Filling(t)
    /\ \E x \in Needed(t) :
          /\ NextString(t, x)
          /\ heap' = [heap EXCEPT ![t] = @ \cup {x}]
          /\ made' = [made EXCEPT ![t] = @ \cup {x}]
    /\ UNCHANGED <<connection, pc, local, want, next, buffer, status, disturbed>>

(* Both strings are there: the assignments to the caller's encoding. *)
CopyEncoding(t) ==
    /\ Filling(t) /\ made[t] = Needed(t)
    /\ buffer' = [buffer EXCEPT ![t] = @ \cup Needed(t)]
    /\ made' = [made EXCEPT ![t] = {}]
    /\ next' = [next EXCEPT ![t] = @ + 1]
    /\ UNCHANGED <<connection, pc, local, want, heap, status, disturbed>>

(* Mutant: ToInterop returns false with the rid still allocated. *)
FreeLocalsNone(t) == {}

(* rtc_string_free(rid) when the scalability_mode cannot be duplicated. *)
FreeLocals(t) == made[t]

(* FreeEncodingStrings for the encodings before the one that failed. *)
FreeEncodingStrings(t) == {x \in buffer[t] : x[1] < next[t]}

(* DuplicateString returns null: ToInterop cleans up after itself, and
   get_parameters after the rounds before. *)
CopyFails(t) ==
    /\ Filling(t)
    /\ \E x \in Needed(t) : NextString(t, x)
    /\ heap' = [heap EXCEPT ![t] = @ \ (FreeLocals(t) \cup FreeEncodingStrings(t))]
    /\ buffer' = [buffer EXCEPT ![t] = @ \ FreeEncodingStrings(t)]
    /\ Returns(t, "INTERNAL")
    /\ OutOfScope(t)
    /\ UNCHANGED <<connection, disturbed>>

EndGet(t) ==
    /\ pc[t] = "filling" /\ next[t] > Len(local[t])
    /\ Returns(t, "OK")
    /\ OutOfScope(t)
    /\ UNCHANGED <<connection, buffer, heap, disturbed>>

(* The caller of a get frees each non-null string it was handed. *)
FreeStrings(t) ==
    /\ pc[t] = "idle" /\ buffer[t] # {}
    /\ heap' = [heap EXCEPT ![t] = @ \ buffer[t]]
    /\ buffer' = [buffer EXCEPT ![t] = {}]
    /\ UNCHANGED <<connection, pc, local, want, next, made, status, disturbed>>

-----------------------------------------------------------------------------
(* The peer connection *)

DisturbsAll == disturbed' = [u \in Callers |-> disturbed[u] \/ pc[u] = "setting"]

(* An answer that rejects simulcast layers. *)
Negotiate ==
    /\ ~Ended
    /\ \E n \in 1..Len(encodings) : encodings' = SubSeq(encodings, 1, n)
    /\ encodings' # encodings
    /\ DisturbsAll
    /\ UNCHANGED <<open, stopped, recent, pc, local, want, next, made, buffer, heap, status>>

(* Whether WebRTC still reports the encodings of a sender that has ended is its
   own affair. *)
Ends == encodings' \in {encodings, <<>>} /\ DisturbsAll

(* rtc_rtp_transceiver_stop, on the sender's transceiver. *)
Stop ==
    /\ ~Ended /\ stopped' = TRUE
    /\ Ends
    /\ UNCHANGED <<open, recent, pc, local, want, next, made, buffer, heap, status>>

Close ==
    /\ open /\ open' = FALSE
    /\ Ends
    /\ UNCHANGED <<stopped, recent, pc, local, want, next, made, buffer, heap, status>>

-----------------------------------------------------------------------------
Setting(t) == EndSet(t) \/ \E w \in UpTo(Values \cup {Refused}) : BeginSet(t, w)

Getting(t) ==
    \/ \E counting \in BOOLEAN, capacity \in 0..MaxLayers : BeginGet(t, counting, capacity)
    \/ Duplicate(t) \/ CopyEncoding(t) \/ CopyFails(t) \/ EndGet(t) \/ FreeStrings(t)

Next == Negotiate \/ Stop \/ Close \/ \E t \in Callers : Setting(t) \/ Getting(t)

Spec == Init /\ [][Next]_vars

-----------------------------------------------------------------------------
(* Properties *)

(* No string is lost and none is freed twice, and "a caller is never handed a
   half-built struct": whenever a thread is between two calls, what is allocated
   for it is what its array points to, and after an INTERNAL that is nothing. *)
StringsAccountedFor ==
    \A t \in Callers : pc[t] = "idle" =>
        /\ heap[t] = buffer[t]
        /\ status[t] = "INTERNAL" => buffer[t] = {}

(* All the strings of an array of encodings. *)
StringsOf(a) ==
    {<<i, "rid">> : i \in {j \in DOMAIN a : a[j].rid}}
    \cup {<<i, "mode">> : i \in {j \in DOMAIN a : a[j].value # Unset}}

(* A get that returns RTC_OK has handed out every string of the encodings the
   sender had when it was asked, and no other: layers that are rejected and
   values that are set while the array is being filled neither lose one nor
   mix into it. *)
GetIsWhole ==
    [][\A t \in Callers :
          pc[t] = "filling" /\ pc'[t] = "idle" /\ status'[t] = "OK" =>
              buffer'[t] = StringsOf(local[t])]_vars

(* A set that succeeds leaves every encoding with exactly the values passed,
   those that were passed as unset included, and with the rid it had. *)
SetIsExact ==
    [][\A t \in Callers :
          pc[t] = "setting" /\ pc'[t] = "idle" /\ status'[t] = "OK" =>
              /\ DOMAIN encodings' = DOMAIN encodings
              /\ \A i \in DOMAIN encodings :
                    encodings'[i] = [encodings[i] EXCEPT !.value = want[t][i]]]_vars

Returned(t) == pc[t] = "setting" /\ pc'[t] = "idle"
HasRefusedValue(t) == \E i \in DOMAIN want[t] : want[t][i] = Refused

(* A set that is refused has changed nothing.  And if nobody came in between
   its get and its set, RTC_ERR_INVALID_ARG says exactly that a sender that is
   alive does not take the values: what is not about them is reported as
   something else, and a value is never reported as a matter of state. *)
RefusalExplained ==
    [][\A t \in Callers : Returned(t) =>
          /\ status'[t] # "OK" => UNCHANGED encodings
          /\ ~disturbed[t] =>
                (status'[t] = "INVALID_ARG" <=> HasRefusedValue(t) /\ ~Ended)]_vars

(* "RTC_ERR_INVALID_ARG if [the count] differs, or if the sender refuses a
   value" (Interop.h:568-569): a caller has nothing else to look for. *)
RefusalIsAboutValues ==
    [][\A t \in Callers : Returned(t) /\ status'[t] = "INVALID_ARG" => HasRefusedValue(t)]_vars
=============================================================================
