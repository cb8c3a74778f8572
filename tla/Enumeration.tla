----------------------------- MODULE Enumeration -----------------------------
(***************************************************************************)
(* Walking a list of devices: rtc_video_device_count and _info             *)
(* (WebRtcInterop/src/Interop.cc), rtc_desktop_source_count and _info      *)
(* (WebRtcInterop/src/DesktopCapture.cc).                                  *)
(*                                                                         *)
(* Nothing is kept between two calls: each asks the system again, and      *)
(* cameras and windows come and go meanwhile.  A desktop call reads the    *)
(* list once; a camera's reads the count and then the name, each afresh.   *)
(* The caller counts, asks for index 0, 1, ... and stops at the first      *)
(* error.                                                                  *)
(***************************************************************************)
EXTENDS Naturals, Sequences

CONSTANT Devices        \* cameras, or screens and windows

VARIABLES
    kind,       \* what is listed: "camera" or "desktop"
    attached,   \* the system's list, in its order
    walk,       \* the caller: "off", "asking", "naming" (camera, between its
                \* two reads) or "copying" (the device's strings)
    count,      \* the number it was told
    shown,      \* the devices it was told of; the next index is their number
    answer,     \* what the last call returned
    taken,      \* what a call in "copying" copies from
    untried,    \* its strings that DuplicateString was not yet asked for
    copies,     \* its locals name_copy, id_copy, copy: those that are not null
    heap,       \* history: the strings that are allocated
    moved       \* history: the list has changed since the count

locals == <<taken, untried, copies>>
walkVars == <<kind, attached, walk, count, shown, answer, locals, heap, moved>>

(* A camera has a name and an id to copy, a source a title: its id is a number. *)
Fields == IF kind = "camera" THEN {"name", "id"} ELSE {"title"}

(* The strings of the n-th device. *)
StringsOf(n, fields) == {<<n, f>> : f \in fields}

DeviceList(l) == \A i, j \in DOMAIN l : l[i] = l[j] => i = j

WalkTypeOK ==
    /\ kind \in {"camera", "desktop"}
    /\ attached \in Seq(Devices) /\ DeviceList(attached)
    /\ walk \in {"off", "asking", "naming", "copying"}
    /\ count \in Nat
    /\ shown \in Seq(Devices) /\ Len(shown) <= count
    /\ answer \in {"OK", "NOT_FOUND", "INTERNAL"}
    /\ taken \in Devices \cup {"none"}
    /\ untried \subseteq Fields /\ copies \subseteq Fields \ untried
    /\ heap \subseteq (1..count) \X Fields
    /\ moved \in BOOLEAN

WalkInit ==
    /\ kind \in {"camera", "desktop"}
    /\ attached = <<>>
    /\ walk = "off" /\ count = 0 /\ shown = <<>> /\ answer = "OK"
    /\ taken = "none" /\ untried = {} /\ copies = {}
    /\ heap = {} /\ moved = FALSE

-----------------------------------------------------------------------------
(* The caller *)

Fails(s) == walk' = "off" /\ answer' = s /\ UNCHANGED <<shown, locals, heap>>

(* The count.  Without a capturer or a DeviceInfo there is nothing to walk. *)
CountDevices ==
    /\ walk = "off" /\ shown = <<>>
    /\ moved' = FALSE
    /\ \/ count' = Len(attached) /\ walk' = "asking" /\ answer' = "OK"
       \/ count' = 0 /\ walk' = "off" /\ answer' = "INTERNAL"
    /\ UNCHANGED <<kind, attached, shown, locals, heap>>

(* Mutant: the last device is taken to be past the end. *)
PastOneEarly == Len(shown) + 1 >= Len(attached)

PastTheEnd == Len(shown) >= Len(attached)

(* The device is there: what there is of it to copy. *)
Take(d) ==
    /\ walk' = "copying"
    /\ taken' = d /\ untried' = Fields /\ copies' = {}
    /\ UNCHANGED <<shown, answer, heap>>

(* rtc_..._info up to the device: the list could not be had, the index is past
   its end, or the device is there. *)
AskDevice ==
    /\ walk = "asking" /\ Len(shown) < count
    /\ \/ Fails("INTERNAL")
       \/ PastTheEnd /\ Fails("NOT_FOUND")
       \/ ~PastTheEnd /\ kind = "desktop" /\ Take(attached[Len(shown) + 1])
       \/ ~PastTheEnd /\ kind = "camera" /\ walk' = "naming" /\ UNCHANGED <<shown, answer, locals, heap>>
    /\ UNCHANGED <<kind, attached, count, moved>>

(* GetDeviceName: a second look at the system. *)
NameDevice ==
    /\ walk = "naming"
    /\ IF Len(shown) < Len(attached)
       THEN Take(attached[Len(shown) + 1]) ELSE Fails("INTERNAL")
    /\ UNCHANGED <<kind, attached, count, moved>>

(* DuplicateString: null when there is no memory.  Every string is tried, the
   id also when the name could not be had. *)
CopyString(f) ==
    /\ walk = "copying" /\ f \in untried
    /\ f = "id" => "name" \notin untried
    /\ untried' = untried \ {f}
    /\ \/ copies' = copies \cup {f} /\ heap' = heap \cup StringsOf(Len(shown) + 1, {f})
       \/ UNCHANGED <<copies, heap>>
    /\ UNCHANGED <<kind, attached, walk, count, shown, answer, taken, moved>>

Returns(s) == walk' = s /\ taken' = "none" /\ copies' = {}

(* Mutant: free(id_copy) is missing. *)
FreedNameOnly == StringsOf(Len(shown) + 1, copies \cap {"name"})

(* free(name_copy), free(id_copy): freeing null does nothing. *)
Freed == StringsOf(Len(shown) + 1, copies)

(* The out parameters are set when every copy was made; otherwise those that
   were made are freed. *)
EndCopies ==
    /\ walk = "copying" /\ untried = {}
    /\ \/ /\ copies = Fields
          /\ shown' = Append(shown, taken)
          /\ answer' = "OK" /\ Returns("asking")
          /\ UNCHANGED heap
       \/ /\ copies # Fields
          /\ heap' = heap \ Freed
          /\ answer' = "INTERNAL" /\ Returns("off")
          /\ UNCHANGED shown
    /\ UNCHANGED <<kind, attached, count, untried, moved>>

EndWalk ==
    /\ walk = "asking" /\ Len(shown) = count
    /\ walk' = "off"
    /\ UNCHANGED <<kind, attached, count, shown, answer, locals, heap, moved>>

(* What the caller has been handed by n successful calls. *)
Named(n) == UNION {StringsOf(i, Fields) : i \in 1..n}

(* rtc_string_free for every string handed out. *)
FreeNames ==
    /\ walk = "off" /\ shown # <<>>
    /\ heap' = heap \ Named(Len(shown)) /\ shown' = <<>>
    /\ UNCHANGED <<kind, attached, walk, count, answer, locals, moved>>

-----------------------------------------------------------------------------
(* The system *)

Plug(d) ==
    /\ \A i \in DOMAIN attached : attached[i] # d
    /\ \E n \in 0..Len(attached) :
          attached' = SubSeq(attached, 1, n) \o <<d>> \o SubSeq(attached, n + 1, Len(attached))
    /\ moved' = TRUE
    /\ UNCHANGED <<kind, walk, count, shown, answer, locals, heap>>

Unplug(i) ==
    /\ i \in DOMAIN attached
    /\ attached' = SubSeq(attached, 1, i - 1) \o SubSeq(attached, i + 1, Len(attached))
    /\ moved' = TRUE
    /\ UNCHANGED <<kind, walk, count, shown, answer, locals, heap>>

CopyStrings == \E f \in Fields : CopyString(f)
Walk == CountDevices \/ AskDevice \/ NameDevice \/ CopyStrings \/ EndCopies \/ EndWalk \/ FreeNames
System == \E d \in Devices : Plug(d) \/ \E i \in DOMAIN attached : Unplug(i)

-----------------------------------------------------------------------------
(* Properties *)

(* "An index taken from one call means nothing in the next" - unless the list
   stayed as it was: then the walk has named its first devices in their order,
   all of them if it got to the end, and no index below the count was past it. *)
WalkIsExact ==
    ~moved =>
        /\ walk # "off" => count = Len(attached)
        /\ shown = SubSeq(attached, 1, Len(shown))
        /\ answer # "NOT_FOUND"

(* Whichever copies fail, what is allocated is what the caller was handed, all
   strings of every device it was told of, and what a call in progress holds in
   its locals: nothing is left behind, and nothing handed out is freed. *)
NamesAccountedFor ==
    heap = Named(Len(shown)) \cup StringsOf(Len(shown) + 1, copies)
=============================================================================
