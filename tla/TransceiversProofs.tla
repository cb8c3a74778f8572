------------------------ MODULE TransceiversProofs ------------------------
(***************************************************************************)
(* The handles of transceivers, for any number of callers, tracks and      *)
(* transceivers: whatever fails, none is lost or freed twice, and a        *)
(* listing is the connection's list as it was at one moment.               *)
(***************************************************************************)
EXTENDS Transceivers, SequenceTheorems, TLAPS

NativeTypes ==
    /\ open \in BOOLEAN
    /\ list \in Lists /\ InOrder(list)
    /\ made \in 0..MaxTransceivers
    /\ sends \in [Native -> Tracks \cup {NoTrack}]
    /\ stopped \subseteq Native /\ pending \subseteq Native /\ negotiated \subseteq Native
    /\ during \in [Callers -> SUBSET Lists]

LocalTypes ==
    /\ pc \in [Callers -> {"idle", "handle", "wrapping"}]
    /\ mine \in [Callers -> Native \cup {None}]
    /\ snapshot \in [Callers -> Lists]
    /\ handles \in [Callers -> Lists]

CallerTypes ==
    /\ told \in [Callers -> 0..MaxTransceivers]
    /\ buffer \in [Callers -> Lists]
    /\ out \in [Callers -> Native \cup {None}]
    /\ heap \in [Callers -> Nat]
    /\ status \in [Callers -> {"OK", "INVALID_ARG", "INVALID_STATE", "NOT_FOUND", "INTERNAL"}]
    /\ short \in [Callers -> BOOLEAN]

(* The list never outgrows what was made. *)
ListInv == Len(list) <= made /\ \A i \in DOMAIN list : list[i] <= made

(* What is allocated for a caller at each point of a call. *)
Single(t) == IF out[t] = None THEN 0 ELSE 1
HeapInv(t) ==
    /\ heap[t] = Len(buffer[t]) + Single(t) + Len(handles[t])
    /\ pc[t] # "wrapping" => Len(handles[t]) = 0
    /\ pc[t] = "wrapping" => Len(buffer[t]) = 0
    /\ pc[t] = "handle" => out[t] = None /\ mine[t] # None

(* How far a listing has come. *)
ListingInv(t) ==
    pc[t] = "wrapping" =>
        /\ snapshot[t] \in during[t] /\ told[t] = Len(snapshot[t])
        /\ Len(handles[t]) <= Len(snapshot[t])
        /\ \A i \in 1..Len(handles[t]) : handles[t][i] = snapshot[t][i]

IndInv ==
    /\ NativeTypes /\ LocalTypes /\ CallerTypes /\ ListInv
    /\ \A t \in Callers : HeapInv(t) /\ ListingInv(t)

LEMMA AtMostOne ==
    ASSUME NEW t
    PROVE  Single(t) \in {0, 1} /\ Single(t)' \in {0, 1}
  BY DEF Single

-----------------------------------------------------------------------------
(* The lists *)

LEMMA ListsAreSequences ==
    ASSUME NEW l
    PROVE  l \in Lists <=> l \in Seq(Native) /\ Len(l) \in 0..MaxTransceivers
<1>1. l \in Lists <=> \E n \in 0..MaxTransceivers : l \in [1..n -> Native]
  BY DEF Lists
<1>2. ASSUME NEW n \in 0..MaxTransceivers, l \in [1..n -> Native]
      PROVE  l \in Seq(Native) /\ Len(l) = n
  BY <1>2, TransceiverAssumption
<1>3. ASSUME l \in Seq(Native), Len(l) \in 0..MaxTransceivers PROVE l \in [1..Len(l) -> Native]
  BY <1>3
<1> QED
  BY <1>1, <1>2, <1>3

LEMMA EmptyList == <<>> \in Lists /\ Len(<<>>) = 0
<1>1. <<>> \in Seq(Native) /\ Len(<<>>) \in 0..MaxTransceivers
  BY TransceiverAssumption
<1> QED
  BY <1>1, ListsAreSequences

(* A new list is good, and whoever is listing has seen it. *)
NewList ==
    /\ list' \in Lists /\ InOrder(list') /\ ListInv'
    /\ during' \in [Callers -> SUBSET Lists]
    /\ \A t \in Callers : pc[t] = "wrapping" => during[t] \subseteq during'[t]

LEMMA ListBecomesGood ==
    ASSUME IndInv, NEW l \in Lists, InOrder(l), ListBecomes(l),
           Len(l) <= made', \A i \in DOMAIN l : l[i] <= made'
    PROVE  NewList
<1>1. list' = l /\ during' = [t \in Callers |-> IF pc[t] = "wrapping" THEN during[t] \cup {l} ELSE {}]
  BY DEF ListBecomes
<1>2. during' \in [Callers -> SUBSET Lists]
  BY <1>1 DEF IndInv, NativeTypes
<1> QED
  BY <1>1, <1>2 DEF NewList, ListInv

LEMMA AppendedGood ==
    ASSUME IndInv, NEW k \in Tracks \cup {NoTrack}, Appended(k)
    PROVE  /\ NewList /\ made' \in 0..MaxTransceivers /\ made + 1 \in Native
           /\ sends' \in [Native -> Tracks \cup {NoTrack}]
<1> DEFINE l == Append(list, made + 1)
<1>1. made \in 0..MaxTransceivers /\ made < MaxTransceivers /\ made' = made + 1 /\ ListBecomes(l)
      /\ sends' = [sends EXCEPT ![made + 1] = k]
  BY DEF Appended, IndInv, NativeTypes
<1>2. made + 1 \in Native /\ made' \in 0..MaxTransceivers /\ MaxTransceivers \in Nat
  BY <1>1, TransceiverAssumption DEF Native
<1>3. list \in Seq(Native) /\ Len(list) <= made /\ Len(list) \in Nat
  BY ListsAreSequences DEF IndInv, NativeTypes, ListInv
<1>4. /\ l \in Seq(Native) /\ Len(l) = Len(list) + 1 /\ l[Len(list) + 1] = made + 1
      /\ \A i \in 1..Len(list) : l[i] = list[i]
      /\ DOMAIN l = 1..Len(list) + 1 /\ DOMAIN list = 1..Len(list)
  BY <1>2, <1>3, AppendProperties
<1> HIDE DEF l
<1>5. \A i \in 1..Len(list) : list[i] \in Nat /\ list[i] <= made
  <2>1. \A i \in 1..Len(list) : list[i] \in Native
    BY <1>3, <1>4
  <2>2. \A i \in 1..Len(list) : list[i] <= made
    BY <1>4 DEF IndInv, ListInv
  <2> QED
    BY <1>2, <2>1, <2>2 DEF Native
<1>6. Len(l) <= made' /\ \A i \in DOMAIN l : l[i] <= made'
  BY <1>1, <1>3, <1>4, <1>5
<1>7. InOrder(l)
  <2> SUFFICES ASSUME NEW i \in DOMAIN l, NEW j \in DOMAIN l, i < j PROVE l[i] < l[j]
    BY DEF InOrder
  <2>1. i \in 1..Len(list)
    BY <1>3, <1>4
  <2>2. CASE j = Len(list) + 1
    BY <1>1, <1>4, <1>5, <2>1, <2>2
  <2>3. CASE j \in 1..Len(list)
    BY <1>4, <2>1, <2>3 DEF IndInv, NativeTypes, InOrder
  <2> QED
    BY <1>3, <1>4, <2>2, <2>3
<1>8. l \in Lists
  BY <1>1, <1>2, <1>3, <1>4, ListsAreSequences
<1>9. NewList
  BY <1>1, <1>6, <1>7, <1>8, ListBecomesGood
<1> QED
  BY <1>1, <1>2, <1>9 DEF IndInv, NativeTypes

LEMMA LeaveGood ==
    ASSUME IndInv, NEW S, Leave(S), UNCHANGED made
    PROVE  NewList
<1>1. PICK n \in 0..Len(list) : \E l \in [1..n -> InList \ S] : InOrder(l) /\ ListBecomes(l)
  BY DEF Leave
<1>2. PICK l \in [1..n -> InList \ S] : InOrder(l) /\ ListBecomes(l)
  BY <1>1
<1>3. list \in Seq(Native) /\ Len(list) \in 0..MaxTransceivers /\ Len(list) <= made
  BY ListsAreSequences DEF IndInv, NativeTypes, ListInv
<1>4. InList \subseteq Native /\ \A x \in InList : x <= made
  BY <1>3 DEF InList, ToSet, IndInv, ListInv
<1>5. n \in 0..MaxTransceivers /\ n <= made /\ made \in Nat
  BY <1>1, <1>3, TransceiverAssumption DEF IndInv, NativeTypes
<1>6. l \in [1..n -> Native] /\ Len(l) = n /\ DOMAIN l = 1..n
  BY <1>4, <1>5
<1>7. l \in Lists
  BY <1>5, <1>6 DEF Lists
<1>8. \A i \in DOMAIN l : l[i] <= made
  BY <1>4, <1>6
<1> QED
  BY <1>2, <1>5, <1>6, <1>7, <1>8, ListBecomesGood

Grows == \A t \in Callers : pc[t] = "wrapping" => during[t] \subseteq during'[t]

-----------------------------------------------------------------------------
(* Every step preserves IndInv. *)

(* The connection's own steps. *)
LEMMA ConnectionPreserves ==
    ASSUME IndInv, RemoteOffer \/ Answer \/ Rollback \/ Close
    PROVE  IndInv'
<1> USE DEF IndInv
<1>1. UNCHANGED <<pc, mine, snapshot, handles, told, buffer, out, heap, status, short>>
  BY DEF RemoteOffer, Answer, Rollback, Close, local, caller
<1>2. NativeTypes' /\ ListInv' /\ Grows
  <2>1. CASE RemoteOffer
    <3>1. Appended(NoTrack) /\ pending' = pending \cup {made + 1} /\ UNCHANGED <<open, stopped, negotiated>>
      BY <2>1 DEF RemoteOffer
    <3>2. NewList /\ made' \in 0..MaxTransceivers /\ made + 1 \in Native
          /\ sends' \in [Native -> Tracks \cup {NoTrack}]
      BY <3>1, AppendedGood
    <3> QED
      BY <3>1, <3>2 DEF NativeTypes, NewList, Grows
  <2>2. CASE Answer \/ Rollback
    <3>1. UNCHANGED <<open, made, sends, stopped>> /\ (\E S : Leave(S))
          /\ pending' = {} /\ negotiated' \in {negotiated, negotiated \cup InList}
      BY <2>2 DEF Answer, Rollback
    <3>2. NewList
      BY <3>1, LeaveGood
    <3>3. InList \subseteq Native
      BY ListsAreSequences DEF NativeTypes, InList, ToSet
    <3> QED
      BY <3>1, <3>2, <3>3 DEF NativeTypes, NewList, Grows
  <2>3. CASE Close
    <3>1. InList \subseteq Native
      BY ListsAreSequences DEF NativeTypes, InList, ToSet
    <3> QED
      BY <2>3, <3>1 DEF Close, NativeTypes, ListInv, Grows
  <2> QED
    BY <2>1, <2>2, <2>3
<1>3. LocalTypes' /\ CallerTypes'
  BY <1>1 DEF LocalTypes, CallerTypes
<1>4. ASSUME NEW t \in Callers PROVE HeapInv(t)' /\ ListingInv(t)'
  <2>1. HeapInv(t)'
    BY <1>1 DEF HeapInv, Single
  <2>2. ListingInv(t)'
    BY <1>1, <1>2 DEF ListingInv, Grows
  <2> QED
    BY <2>1, <2>2
<1> QED
  BY <1>2, <1>3, <1>4

(* What a step of one caller leaves alone. *)
OthersKeep(t) ==
    \A u \in Callers \ {t} :
        /\ pc'[u] = pc[u] /\ mine'[u] = mine[u] /\ snapshot'[u] = snapshot[u] /\ handles'[u] = handles[u]
        /\ told'[u] = told[u] /\ buffer'[u] = buffer[u] /\ out'[u] = out[u] /\ heap'[u] = heap[u]

LEMMA StepOf ==
    ASSUME IndInv, NEW t \in Callers,
           NativeTypes', LocalTypes', CallerTypes', ListInv', HeapInv(t)', ListingInv(t)',
           OthersKeep(t), \A u \in Callers \ {t} : pc[u] = "wrapping" => during[u] \subseteq during'[u]
    PROVE  IndInv'
<1>1. ASSUME NEW u \in Callers \ {t} PROVE HeapInv(u)'
  BY DEF IndInv, HeapInv, OthersKeep, Single
<1>2. ASSUME NEW u \in Callers \ {t} PROVE ListingInv(u)'
  BY DEF IndInv, ListingInv, OthersKeep
<1> QED
  BY <1>1, <1>2 DEF IndInv

(* An add up to WebRTC's part of it. *)
AddsOrFails(t) ==
    /\ NewList \/ UNCHANGED <<list, made, during>>
    /\ made' \in 0..MaxTransceivers /\ sends' \in [Native -> Tracks \cup {NoTrack}]
    /\ \/ (\E s \in {"OK", "INVALID_ARG", "INVALID_STATE"} : Returns(t, s)) /\ UNCHANGED mine
       \/ /\ \E x \in Native : mine' = [mine EXCEPT ![t] = x]
          /\ Goto(t, "handle") /\ UNCHANGED status

LEMMA AddingPreserves ==
    ASSUME IndInv, NEW t \in Callers, Adding(t)
    PROVE  IndInv'
<1>1. /\ pc[t] = "idle" /\ out[t] = None
      /\ UNCHANGED <<open, stopped, pending, negotiated, snapshot, handles, told, buffer, out, heap, short>>
  BY DEF Adding, AddTransceiver, AddTrack, Begins
<1>2. AddsOrFails(t)
  <2>1. ASSUME NEW passable \in BOOLEAN, NEW k \in Tracks \cup {NoTrack}, AddTransceiver(t, passable, k)
        PROVE  AddsOrFails(t)
    <3>1. CASE Keeps /\ UNCHANGED mine /\ \E s \in {"INVALID_ARG", "INVALID_STATE"} : Returns(t, s)
      BY <3>1 DEF Keeps, IndInv, NativeTypes, AddsOrFails
    <3>2. CASE /\ Appended(k) /\ mine' = [mine EXCEPT ![t] = made + 1]
               /\ Goto(t, "handle") /\ UNCHANGED status
      BY <3>2, AppendedGood DEF AddsOrFails
    <3> QED
      BY <2>1, <3>1, <3>2 DEF AddTransceiver
  <2>2. ASSUME NEW k \in Tracks, NEW sent \in BOOLEAN, AddTrack(t, k, sent) PROVE AddsOrFails(t)
    <3>1. CASE Keeps /\ UNCHANGED mine /\ Returns(t, "INVALID_STATE")
      BY <3>1 DEF Keeps, IndInv, NativeTypes, AddsOrFails
    <3>2. ASSUME NEW x \in Native,
                 Reused(x, k) \/ (x = made + 1 /\ Appended(k)),
                 IF sent THEN mine' = [mine EXCEPT ![t] = x] /\ Goto(t, "handle") /\ UNCHANGED status
                 ELSE Returns(t, "OK") /\ UNCHANGED mine
          PROVE  AddsOrFails(t)
      <4>1. /\ NewList \/ UNCHANGED <<list, made, during>>
            /\ made' \in 0..MaxTransceivers /\ sends' \in [Native -> Tracks \cup {NoTrack}]
        BY <3>2, AppendedGood DEF Reused, IndInv, NativeTypes
      <4> QED
        BY <3>2, <4>1 DEF AddsOrFails
    <3> QED
      BY <2>2, <3>1, <3>2 DEF AddTrack
  <2> QED
    BY <2>1, <2>2 DEF Adding
<1>3. NativeTypes' /\ ListInv' /\ Grows
  BY <1>1, <1>2 DEF AddsOrFails, NewList, IndInv, NativeTypes, ListInv, Grows
<1>4. /\ LocalTypes' /\ status' \in [Callers -> {"OK", "INVALID_ARG", "INVALID_STATE", "NOT_FOUND", "INTERNAL"}]
      /\ pc'[t] \in {"idle", "handle"} /\ (pc'[t] = "handle" => mine'[t] # None)
  <2>1. CASE (\E s \in {"OK", "INVALID_ARG", "INVALID_STATE"} : Returns(t, s)) /\ UNCHANGED mine
    BY <1>1, <2>1 DEF IndInv, LocalTypes, CallerTypes, Returns, Goto, Says
  <2>2. CASE /\ \E x \in Native : mine' = [mine EXCEPT ![t] = x]
             /\ Goto(t, "handle") /\ UNCHANGED status
    BY <1>1, <2>2 DEF IndInv, LocalTypes, CallerTypes, Goto, Native, None
  <2> QED
    BY <1>2, <2>1, <2>2 DEF AddsOrFails
<1>5. CallerTypes'
  BY <1>1, <1>4 DEF IndInv, CallerTypes
<1>6. OthersKeep(t)
  BY <1>1, <1>2 DEF AddsOrFails, OthersKeep, Returns, Goto, IndInv, LocalTypes
<1>7. HeapInv(t)' /\ ListingInv(t)'
  BY <1>1, <1>4 DEF IndInv, HeapInv, ListingInv, Single
<1> QED
  BY <1>3, <1>4, <1>5, <1>6, <1>7, StepOf DEF Grows

LEMMA FinishAddPreserves ==
    ASSUME IndInv, NEW t \in Callers, FinishAdd(t)
    PROVE  IndInv'
<1>1. /\ pc[t] = "handle" /\ mine' = [mine EXCEPT ![t] = None] /\ pc' = [pc EXCEPT ![t] = "idle"]
      /\ UNCHANGED <<open, list, made, sends, stopped, pending, negotiated, snapshot, handles, told,
                     buffer, short, during>>
  BY DEF FinishAdd, Returns, Goto, natives
<1>2. /\ heap[t] \in Nat /\ mine[t] \in Native /\ mine[t] # None /\ out[t] = None
      /\ Len(buffer[t]) \in Nat /\ Len(handles[t]) = 0
  BY <1>1, ListsAreSequences DEF IndInv, HeapInv, LocalTypes, CallerTypes, None
<1>0. heap[t] = Len(buffer[t])
  <2>1. HeapInv(t)
    BY DEF IndInv
  <2> QED
    BY <1>1, <1>2, <2>1 DEF HeapInv, Single
<1>3. \/ heap' = [heap EXCEPT ![t] = heap[t] + 1] /\ out' = [out EXCEPT ![t] = mine[t]]
      \/ UNCHANGED <<heap, out>>
  BY DEF FinishAdd, Allocates
<1>4. NativeTypes' /\ ListInv'
  BY <1>1 DEF IndInv, NativeTypes, ListInv
<1>5. LocalTypes'
  BY <1>1 DEF IndInv, LocalTypes
<1>6. CallerTypes'
  <2>1. heap' \in [Callers -> Nat] /\ out' \in [Callers -> Native \cup {None}]
    BY <1>2, <1>3 DEF IndInv, CallerTypes
  <2>2. status' \in [Callers -> {"OK", "INVALID_ARG", "INVALID_STATE", "NOT_FOUND", "INTERNAL"}]
    BY DEF FinishAdd, Returns, Says, IndInv, CallerTypes
  <2> QED
    BY <1>1, <2>1, <2>2 DEF IndInv, CallerTypes
<1>7. OthersKeep(t)
  BY <1>1, <1>3 DEF OthersKeep, IndInv, LocalTypes, CallerTypes
<1>8. pc'[t] = "idle" /\ heap'[t] = Len(buffer[t]) + Single(t)'
  <2>1. pc'[t] = "idle"
    BY <1>1 DEF IndInv, LocalTypes
  <2>2. CASE heap' = [heap EXCEPT ![t] = heap[t] + 1] /\ out' = [out EXCEPT ![t] = mine[t]]
    <3>1. heap'[t] = heap[t] + 1 /\ out'[t] # None
      BY <1>2, <2>2 DEF IndInv, CallerTypes
    <3> QED
      BY <1>0, <2>1, <3>1 DEF Single
  <2>3. CASE UNCHANGED <<heap, out>>
    BY <1>0, <1>2, <2>1, <2>3 DEF Single
  <2> QED
    BY <1>3, <2>2, <2>3
<1>9. HeapInv(t)' /\ ListingInv(t)'
  BY AtMostOne, <1>1, <1>2, <1>8 DEF HeapInv, ListingInv
<1> QED
  BY <1>1, <1>4, <1>5, <1>6, <1>7, <1>9, StepOf

LEMMA GetTransceiversPreserves ==
    ASSUME IndInv, NEW t \in Callers, NEW counting \in BOOLEAN, NEW capacity \in 0..MaxTransceivers,
           GetTransceivers(t, counting, capacity)
    PROVE  IndInv'
<1> DEFINE fits == counting \/ capacity >= Len(list)
<1>1. /\ pc[t] = "idle" /\ (counting \/ buffer[t] = <<>>)
      /\ told' = [told EXCEPT ![t] = Len(list)] /\ short' = [short EXCEPT ![t] = ~fits]
      /\ UNCHANGED <<open, list, made, sends, stopped, pending, negotiated, mine, handles, buffer, out, heap>>
  BY DEF GetTransceivers, Tells, natives
<1>2. \/ /\ \E s \in {"OK", "INVALID_ARG"} : Returns(t, s)
         /\ UNCHANGED <<snapshot, during>>
      \/ /\ snapshot' = [snapshot EXCEPT ![t] = list] /\ during' = [during EXCEPT ![t] = {list}]
         /\ Goto(t, "wrapping") /\ UNCHANGED status /\ buffer[t] = <<>>
  BY <1>1 DEF GetTransceivers
<1>3. list \in Lists /\ Len(list) \in 0..MaxTransceivers
  BY ListsAreSequences DEF IndInv, NativeTypes
<1>4. short' \in [Callers -> BOOLEAN]
  <2>1. PICK b \in BOOLEAN : b = ~(counting \/ capacity >= Len(list))
    BY <1>3
  <2> QED
    BY <1>1, <2>1 DEF IndInv, CallerTypes
<1>5. during' \in [Callers -> SUBSET Lists]
  BY <1>2, <1>3 DEF IndInv, NativeTypes
<1>6. NativeTypes' /\ ListInv'
  BY <1>1, <1>5 DEF IndInv, NativeTypes, ListInv
<1>7. LocalTypes'
  BY <1>1, <1>2, <1>3 DEF Returns, Goto, IndInv, LocalTypes
<1>8. CallerTypes'
  BY <1>1, <1>2, <1>3, <1>4 DEF Returns, Says, IndInv, CallerTypes
<1>9. OthersKeep(t) /\ \A u \in Callers \ {t} : during'[u] = during[u]
  BY <1>1, <1>2 DEF OthersKeep, Returns, Goto, IndInv, LocalTypes, CallerTypes, NativeTypes
<1>10. HeapInv(t)' /\ ListingInv(t)'
  <2>1. Len(handles[t]) = 0
    BY <1>1 DEF IndInv, HeapInv
  <2>2. CASE UNCHANGED snapshot /\ \E s \in {"OK", "INVALID_ARG"} : Returns(t, s)
    <3>1. pc'[t] = "idle"
      BY <2>2 DEF Returns, Goto, IndInv, LocalTypes
    <3> QED
      BY <1>1, <2>1, <3>1 DEF IndInv, HeapInv, ListingInv, Single
  <2>3. CASE /\ snapshot' = [snapshot EXCEPT ![t] = list] /\ during' = [during EXCEPT ![t] = {list}]
             /\ Goto(t, "wrapping") /\ buffer[t] = <<>>
    <3>1. /\ pc'[t] = "wrapping" /\ snapshot'[t] = list /\ during'[t] = {list} /\ told'[t] = Len(list)
          /\ Len(buffer[t]) = 0
      BY <1>1, <2>3, EmptyList DEF Goto, IndInv, LocalTypes, CallerTypes, NativeTypes
    <3>2. HeapInv(t)'
      BY <1>1, <2>1, <3>1 DEF IndInv, HeapInv, Single
    <3>3. ListingInv(t)'
      BY <1>1, <1>3, <2>1, <3>1 DEF ListingInv
    <3> QED
      BY <3>2, <3>3
  <2> QED
    BY <1>2, <2>2, <2>3
<1> QED
  BY <1>6, <1>7, <1>8, <1>9, <1>10, StepOf

LEMMA WrappingPreserves ==
    ASSUME IndInv, NEW t \in Callers, Wrap(t) \/ WrapFails(t) \/ CopyOut(t)
    PROVE  IndInv'
<1>1. /\ pc[t] = "wrapping" /\ UNCHANGED <<told, out, short, mine>>
      /\ UNCHANGED <<open, list, made, sends, stopped, pending, negotiated>>
  BY DEF Wrap, WrapFails, CopyOut, natives
<1>2. /\ handles[t] \in Seq(Native) /\ snapshot[t] \in Seq(Native)
      /\ Len(handles[t]) \in Nat /\ Len(snapshot[t]) \in 0..MaxTransceivers
      /\ handles[t] \in Lists /\ Len(handles[t]) <= Len(snapshot[t])
      /\ Len(buffer[t]) = 0 /\ heap[t] \in Nat /\ Single(t) \in {0, 1}
  BY <1>1, ListsAreSequences DEF IndInv, LocalTypes, CallerTypes, HeapInv, ListingInv, Single
<1>0. heap[t] = Single(t) + Len(handles[t])
  BY <1>1, <1>2 DEF IndInv, HeapInv
<1>3. CASE Wrap(t)
  <2>1. Len(handles[t]) < Len(snapshot[t]) /\ ToWrap(t) = snapshot[t][Len(handles[t]) + 1]
    BY <1>3 DEF Wrap, ToWrap, None
  <2>2. PICK x \in Native : x = ToWrap(t)
    BY <1>2, <2>1
  <2> DEFINE l == Append(handles[t], x)
  <2>3. /\ l \in Seq(Native) /\ Len(l) = Len(handles[t]) + 1 /\ l[Len(handles[t]) + 1] = x
        /\ \A i \in 1..Len(handles[t]) : l[i] = handles[t][i]
    BY <1>2, AppendProperties
  <2> HIDE DEF l
  <2>4. l \in Lists
    <3>1. Len(l) \in 0..MaxTransceivers
      BY <1>2, <2>1, <2>3, TransceiverAssumption
    <3> QED
      BY <2>3, <3>1, ListsAreSequences
  <2>5. handles' = [handles EXCEPT ![t] = l] /\ heap' = [heap EXCEPT ![t] = heap[t] + 1]
        /\ UNCHANGED <<pc, snapshot, buffer, status, during>>
    BY <1>3, <2>2 DEF Wrap, Allocates, l
  <2>6. NativeTypes' /\ ListInv' /\ LocalTypes' /\ CallerTypes'
    <3>1. NativeTypes' /\ ListInv'
      BY <1>1, <2>5 DEF IndInv, NativeTypes, ListInv
    <3>2. LocalTypes'
      BY <1>1, <2>4, <2>5 DEF IndInv, LocalTypes
    <3>3. heap' \in [Callers -> Nat]
      BY <1>2, <2>5 DEF IndInv, CallerTypes
    <3>4. CallerTypes'
      BY <1>1, <2>5, <3>3 DEF IndInv, CallerTypes
    <3> QED
      BY <3>1, <3>2, <3>4
  <2>7. handles'[t] = l /\ heap'[t] = heap[t] + 1
    BY <2>5 DEF IndInv, LocalTypes, CallerTypes
  <2>8. OthersKeep(t)
    BY <1>1, <2>5 DEF OthersKeep, IndInv, LocalTypes, CallerTypes
  <2>9. HeapInv(t)'
    <3>1. pc'[t] = "wrapping" /\ Len(buffer'[t]) = 0 /\ out'[t] = out[t]
      BY <1>1, <1>2, <2>5
    <3>2. heap'[t] = Single(t) + Len(handles'[t]) /\ Len(handles'[t]) \in Nat
      BY <1>0, <1>2, <2>3, <2>7
    <3>3. Single(t)' = Single(t)
      BY <3>1 DEF Single
    <3> QED
      BY <1>2, <3>1, <3>2, <3>3 DEF HeapInv
  <2>10. ListingInv(t)'
    <3>1. \A i \in 1..Len(l) : l[i] = snapshot[t][i]
      BY <1>1, <1>2, <2>1, <2>2, <2>3 DEF IndInv, ListingInv
    <3> QED
      BY <1>1, <1>2, <2>1, <2>3, <2>5, <2>7, <3>1 DEF IndInv, ListingInv
  <2> QED
    BY <2>5, <2>6, <2>8, <2>9, <2>10, StepOf
<1>4. CASE WrapFails(t) \/ CopyOut(t)
  <2>1. ListingEnds(t) /\ (\E s \in {"OK", "INTERNAL"} : Returns(t, s))
        /\ \/ heap' = [heap EXCEPT ![t] = heap[t] - Len(handles[t])] /\ UNCHANGED buffer
           \/ buffer' = [buffer EXCEPT ![t] = handles[t]] /\ UNCHANGED heap
    BY <1>4 DEF WrapFails, CopyOut, Deleted
  <2>2. PICK e \in Lists : e = <<>> /\ Len(e) = 0
    BY EmptyList
  <2>3. /\ snapshot' = [snapshot EXCEPT ![t] = e] /\ handles' = [handles EXCEPT ![t] = e]
        /\ during' = [during EXCEPT ![t] = {}] /\ pc' = [pc EXCEPT ![t] = "idle"]
    BY <2>1, <2>2 DEF ListingEnds, Returns, Goto
  <2>4. NativeTypes' /\ ListInv'
    BY <1>1, <2>3 DEF IndInv, NativeTypes, ListInv
  <2>5. LocalTypes'
    BY <1>1, <2>2, <2>3 DEF IndInv, LocalTypes
  <2>6. CallerTypes'
    <3>0. heap[t] - Len(handles[t]) \in Nat
      BY <1>0, <1>2
    <3>1. heap' \in [Callers -> Nat] /\ buffer' \in [Callers -> Lists]
      BY <1>2, <2>1, <3>0 DEF IndInv, CallerTypes
    <3> QED
      BY <1>1, <2>1, <3>1 DEF Returns, Says, IndInv, CallerTypes
  <2>7. OthersKeep(t) /\ \A u \in Callers \ {t} : during'[u] = during[u]
    BY <1>1, <2>1, <2>3 DEF OthersKeep, IndInv, LocalTypes, CallerTypes, NativeTypes
  <2>8. /\ pc'[t] = "idle" /\ Len(handles'[t]) = 0
        /\ heap'[t] = Len(buffer'[t]) + Single(t)
    <3>1. pc'[t] = "idle" /\ Len(handles'[t]) = 0
      BY <2>2, <2>3 DEF IndInv, LocalTypes
    <3>2. CASE heap' = [heap EXCEPT ![t] = heap[t] - Len(handles[t])] /\ UNCHANGED buffer
      <4>1. heap'[t] = heap[t] - Len(handles[t])
        BY <3>2 DEF IndInv, CallerTypes
      <4>2. heap'[t] = Single(t)
        BY <1>0, <1>2, <4>1
      <4>3. buffer'[t] = buffer[t]
        BY <3>2
      <4> QED
        BY <1>2, <3>1, <4>2, <4>3
    <3>3. CASE buffer' = [buffer EXCEPT ![t] = handles[t]] /\ UNCHANGED heap
      <4>1. buffer'[t] = handles[t]
        BY <3>3 DEF IndInv, CallerTypes
      <4> QED
        BY <1>0, <1>2, <3>1, <3>3, <4>1
    <3> QED
      BY <2>1, <3>1, <3>2, <3>3
  <2>9. HeapInv(t)' /\ ListingInv(t)'
    <3>1. Single(t)' = Single(t) /\ Len(buffer'[t]) \in Nat
      BY <1>1, <1>2, <2>1, <2>6, ListsAreSequences DEF Single, CallerTypes
    <3> QED
      BY <1>2, <2>8, <3>1 DEF HeapInv, ListingInv
  <2> QED
    BY <2>4, <2>5, <2>6, <2>7, <2>9, StepOf
<1> QED
  BY <1>3, <1>4

(* Calls on a transceiver; at most one handle is made or given up. *)
LEMMA UsingPreserves ==
    ASSUME IndInv, NEW t \in Callers, Using(t)
    PROVE  IndInv'
<1>1. /\ pc[t] = "idle" /\ pc' \in {pc, [pc EXCEPT ![t] = "idle"]}
      /\ status' = status \/ \E s \in {"OK", "INVALID_ARG", "INVALID_STATE", "NOT_FOUND", "INTERNAL"} : Says(t, s)
      /\ UNCHANGED <<open, list, made, pending, negotiated, mine, snapshot, handles, told, short, during>>
  BY DEF Using, GetPart, GetMid, Stop, RemoveTrack, SetDirection, ReplaceTrack, Release, Begins, Keeps,
         Returns, Goto, natives, local
<1>2. /\ stopped' \subseteq Native /\ sends' \in [Native -> Tracks \cup {NoTrack}]
  BY DEF Using, GetPart, GetMid, Stop, RemoveTrack, SetDirection, ReplaceTrack, Release, Keeps,
         natives, IndInv, NativeTypes
<1>3. \/ UNCHANGED <<buffer, out, heap>>
      \/ /\ out[t] = None /\ UNCHANGED buffer /\ heap' = [heap EXCEPT ![t] = heap[t] + 1]
         /\ \E x \in Native : out' = [out EXCEPT ![t] = x]
      \/ /\ buffer' = [buffer EXCEPT ![t] = <<>>] /\ UNCHANGED out
         /\ heap' = [heap EXCEPT ![t] = heap[t] - Len(buffer[t])]
      \/ /\ out[t] # None /\ out' = [out EXCEPT ![t] = None] /\ UNCHANGED buffer
         /\ heap' = [heap EXCEPT ![t] = heap[t] - 1]
  BY DEF Using, GetPart, GetMid, Stop, RemoveTrack, SetDirection, ReplaceTrack, Release, Begins,
         Allocates
<1>4. /\ heap[t] \in Nat /\ Len(buffer[t]) \in Nat /\ Len(handles[t]) = 0
      /\ heap[t] = Len(buffer[t]) + Single(t)
  <2>1. Len(handles[t]) = 0 /\ heap[t] \in Nat /\ buffer[t] \in Lists
    BY <1>1 DEF IndInv, HeapInv, CallerTypes
  <2>2. Len(buffer[t]) \in Nat
    BY <2>1, ListsAreSequences
  <2>3. HeapInv(t)
    BY DEF IndInv
  <2> QED
    BY AtMostOne, <2>1, <2>2, <2>3 DEF HeapInv
<1>5. NativeTypes' /\ ListInv'
  BY <1>1, <1>2 DEF IndInv, NativeTypes, ListInv
<1>6. LocalTypes' /\ pc'[t] = "idle" /\ \A u \in Callers \ {t} : pc'[u] = pc[u]
  BY <1>1 DEF IndInv, LocalTypes
<1>7. /\ heap' \in [Callers -> Nat] /\ buffer' \in [Callers -> Lists] /\ out' \in [Callers -> Native \cup {None}]
      /\ heap'[t] = Len(buffer'[t]) + Single(t)'
      /\ \A u \in Callers \ {t} : heap'[u] = heap[u] /\ buffer'[u] = buffer[u] /\ out'[u] = out[u]
  <2>1. CASE UNCHANGED <<buffer, out, heap>>
    BY <1>4, <2>1 DEF IndInv, CallerTypes, Single
  <2>2. CASE /\ out[t] = None /\ UNCHANGED buffer /\ heap' = [heap EXCEPT ![t] = heap[t] + 1]
             /\ \E x \in Native : out' = [out EXCEPT ![t] = x]
    BY <1>4, <2>2 DEF IndInv, CallerTypes, Single, Native, None
  <2>3. CASE /\ buffer' = [buffer EXCEPT ![t] = <<>>] /\ UNCHANGED out
             /\ heap' = [heap EXCEPT ![t] = heap[t] - Len(buffer[t])]
    <3>1. PICK e \in Lists : e = <<>> /\ Len(e) = 0
      BY EmptyList
    <3>2. buffer' = [buffer EXCEPT ![t] = e]
      BY <2>3, <3>1
    <3>3. heap[t] - Len(buffer[t]) \in Nat
      BY AtMostOne, <1>4
    <3> QED
      BY <1>4, <2>3, <3>1, <3>2, <3>3 DEF IndInv, CallerTypes, Single
  <2>4. CASE /\ out[t] # None /\ out' = [out EXCEPT ![t] = None] /\ UNCHANGED buffer
             /\ heap' = [heap EXCEPT ![t] = heap[t] - 1]
    BY <1>4, <2>4 DEF IndInv, CallerTypes, Single
  <2> QED
    BY <1>3, <2>1, <2>2, <2>3, <2>4
<1>8. CallerTypes'
  BY <1>1, <1>7 DEF Says, IndInv, CallerTypes
<1>9. OthersKeep(t)
  BY <1>1, <1>6, <1>7 DEF OthersKeep
<1>10. HeapInv(t)' /\ ListingInv(t)'
  BY <1>1, <1>4, <1>6, <1>7 DEF HeapInv, ListingInv
<1> QED
  BY <1>1, <1>5, <1>6, <1>8, <1>9, <1>10, StepOf

LEMMA Preserved == IndInv /\ [Next]_vars => IndInv'
<1> SUFFICES ASSUME IndInv, [Next]_vars PROVE IndInv'
  OBVIOUS
<1>1. CASE UNCHANGED vars
  BY <1>1 DEF vars, natives, local, caller, IndInv, NativeTypes, LocalTypes, CallerTypes, ListInv,
              HeapInv, ListingInv, Single
<1>2. ASSUME NEW t \in Callers, Continue(t) PROVE IndInv'
  BY <1>2, FinishAddPreserves, WrappingPreserves DEF Continue
<1>3. ASSUME NEW t \in Callers, Listing(t) PROVE IndInv'
  BY <1>3, GetTransceiversPreserves DEF Listing
<1> QED
  BY <1>1, <1>2, <1>3, AddingPreserves, UsingPreserves, ConnectionPreserves DEF Next

-----------------------------------------------------------------------------
(* The theorems *)

(* What is allocated for each caller, and how far its listing has come. *)
THEOREM Invariance == Spec => []IndInv
<1>1. Init => IndInv
  <2> SUFFICES ASSUME Init PROVE IndInv
    OBVIOUS
  <2>1. PICK e \in Lists : e = <<>> /\ Len(e) = 0 /\ DOMAIN e = {}
    BY EmptyList
  <2>2. list = e /\ snapshot = [t \in Callers |-> e] /\ handles = [t \in Callers |-> e]
        /\ buffer = [t \in Callers |-> e]
    BY <2>1 DEF Init
  <2>3. NativeTypes
    BY <2>1, <2>2, TransceiverAssumption DEF Init, NativeTypes, InOrder
  <2>4. LocalTypes
    BY <2>2 DEF Init, LocalTypes
  <2>5. CallerTypes
    BY <2>2, TransceiverAssumption DEF Init, CallerTypes
  <2>6. ListInv
    BY <2>1, <2>2 DEF Init, ListInv
  <2>7. ASSUME NEW t \in Callers PROVE HeapInv(t) /\ ListingInv(t)
    BY <2>1, <2>2 DEF Init, HeapInv, ListingInv, Single
  <2> QED
    BY <2>3, <2>4, <2>5, <2>6, <2>7 DEF IndInv
<1>2. QED
  BY <1>1, Preserved, PTL DEF Spec

(* No count goes below zero, no array outgrows the connection's transceivers,
   and the connection's list stays in order. *)
THEOREM TypeCorrect == Spec => []TypeOK
<1>1. IndInv => TypeOK
  BY DEF IndInv, NativeTypes, LocalTypes, CallerTypes, TypeOK
<1>2. QED
  BY <1>1, Invariance, PTL

(* However often allocations fail, what is allocated for a caller between two
   calls is what it can release. *)
THEOREM NoHandleLost == Spec => []HandlesAccountedFor
<1>1. IndInv => HandlesAccountedFor
  <2> SUFFICES ASSUME IndInv, NEW t \in Callers, pc[t] = "idle"
               PROVE  heap[t] = Len(buffer[t]) + (IF out[t] = None THEN 0 ELSE 1)
    BY DEF HandlesAccountedFor
  <2>1. buffer[t] \in Lists /\ Len(handles[t]) = 0
    BY DEF IndInv, HeapInv, CallerTypes
  <2>2. Len(buffer[t]) \in Nat
    BY <2>1, ListsAreSequences
  <2>3. HeapInv(t)
    BY DEF IndInv
  <2> QED
    BY <2>1, <2>2, <2>3 DEF HeapInv, Single
<1>2. QED
  BY <1>1, Invariance, PTL

(* A listing hands out the list of one moment of the call. *)
THEOREM Listings == Spec => ListingIsExact
<1> DEFINE Exact == \A t \in Callers :
        pc[t] = "wrapping" /\ pc'[t] = "idle" /\ status'[t] = "OK" =>
            buffer'[t] \in during[t] /\ Len(buffer'[t]) = told'[t]
<1>1. IndInv /\ [Next]_vars => [Exact]_vars
  <2> SUFFICES ASSUME IndInv, Next, NEW t \in Callers,
                      pc[t] = "wrapping", pc'[t] = "idle", status'[t] = "OK"
               PROVE  buffer'[t] \in during[t] /\ Len(buffer'[t]) = told'[t]
    OBVIOUS
  <2>1. CopyOut(t)
    <3>1. ASSUME NEW u \in Callers, u # t PROVE ~(Adding(u) \/ Listing(u) \/ Using(u) \/ Continue(u))
      BY <3>1 DEF Adding, Listing, Using, Continue, AddTransceiver, AddTrack, GetTransceivers, GetPart,
                  GetMid, Stop, RemoveTrack, SetDirection, ReplaceTrack, Release, FinishAdd, Wrap,
                  WrapFails, CopyOut, Returns, Goto, Keeps, natives, local, IndInv, LocalTypes
    <3>2. ~(RemoteOffer \/ Answer \/ Rollback \/ Close)
      BY DEF RemoteOffer, Answer, Rollback, Close, local
    <3>3. ~(Adding(t) \/ Listing(t) \/ Using(t) \/ FinishAdd(t))
      BY DEF Adding, Listing, Using, AddTransceiver, AddTrack, GetTransceivers, GetPart, GetMid, Stop,
             RemoveTrack, SetDirection, ReplaceTrack, Release, FinishAdd, Begins
    <3>4. ~Wrap(t)
      BY DEF Wrap
    <3>5. ~WrapFails(t)
      BY DEF WrapFails, Returns, Says, IndInv, CallerTypes
    <3> QED
      BY <3>1, <3>2, <3>3, <3>4, <3>5 DEF Next, Continue
  <2>2. /\ buffer'[t] = handles[t] /\ UNCHANGED told
    BY <2>1 DEF CopyOut, IndInv, CallerTypes
  <2>3. /\ handles[t] \in Seq(Native) /\ snapshot[t] \in Seq(Native)
        /\ Len(handles[t]) \in Nat /\ Len(snapshot[t]) \in Nat
    BY ListsAreSequences DEF IndInv, LocalTypes
  <2>4. /\ snapshot[t] \in during[t] /\ told[t] = Len(snapshot[t])
        /\ Len(handles[t]) <= Len(snapshot[t])
        /\ \A i \in 1..Len(handles[t]) : handles[t][i] = snapshot[t][i]
    BY DEF IndInv, ListingInv
  <2>5. Len(handles[t]) = Len(snapshot[t])
    <3> SUFFICES ASSUME Len(handles[t]) < Len(snapshot[t]) PROVE FALSE
      BY <2>3, <2>4
    <3>1. snapshot[t][Len(handles[t]) + 1] \in Native
      BY <2>3
    <3> QED
      BY <2>1, <3>1 DEF CopyOut, ToWrap, Native, None
  <2>6. handles[t] = snapshot[t]
    BY <2>3, <2>4, <2>5, SeqEqual
  <2> QED
    BY <2>2, <2>4, <2>6
<1>2. QED
  BY <1>1, Invariance, PTL DEF Spec, ListingIsExact
=============================================================================
