---------------------------- MODULE SenderProofs ----------------------------
(***************************************************************************)
(* A sender's parameters, for any number of threads and layers: no string  *)
(* is lost, a get is of one moment, a set that succeeds is exact, and one  *)
(* that is refused changes nothing and says why, if nobody came between.   *)
(***************************************************************************)
EXTENDS Sender, TLAPS

Encoding == [rid : BOOLEAN, value : Values \cup {Refused}]

(* Arrays of at most MaxLayers elements are sequences. *)
LEMMA Arrays ==
    ASSUME NEW S, NEW x
    PROVE  x \in UpTo(S) <=> x \in Seq(S) /\ Len(x) \in 0..MaxLayers
<1>1. x \in UpTo(S) <=> \E n \in 0..MaxLayers : x \in [1..n -> S]
  BY DEF UpTo
<1>2. ASSUME NEW n \in 0..MaxLayers, x \in [1..n -> S] PROVE x \in Seq(S) /\ Len(x) = n
  BY <1>2, SenderAssumption
<1>3. ASSUME x \in Seq(S), Len(x) \in 0..MaxLayers PROVE x \in [1..Len(x) -> S]
  BY <1>3
<1> QED
  BY <1>1, <1>2, <1>3

(* The strings of a caller: those its array points to, while the array is being
   filled only those of the encodings that were copied, and those ToInterop has
   in hand. *)
StringsInv(t) ==
    /\ heap[t] = buffer[t] \cup made[t]
    /\ pc[t] # "filling" => made[t] = {}
    /\ made[t] # {} => next[t] <= Len(local[t])
    /\ pc[t] = "filling" => next[t] > 0 /\ \A x \in buffer[t] : x[1] < next[t]
    /\ pc[t] # "filling" /\ status[t] = "INTERNAL" => buffer[t] = {}

(* A thread between its get and its set has applied what it was passed, and
   undisturbed it still has the sender's latest parameters. *)
Applied(t) ==
    /\ DOMAIN want[t] = DOMAIN local[t]
    /\ \A i \in DOMAIN local[t] : local[t][i].value = want[t][i]
SettingInv(t) ==
    pc[t] = "setting" =>
        /\ Applied(t)
        /\ disturbed[t] \/ (recent = t /\ Fits(t))

IndInv == TypeOK /\ \A t \in Callers : StringsInv(t) /\ SettingInv(t)
-----------------------------------------------------------------------------
(* What the steps of a call do to its own strings and to its own setting. *)

LEMMA DisturbsTypes ==
    ASSUME TypeOK, NEW t \in Callers, Disturbs(t)
    PROVE  /\ disturbed' \in [Callers -> BOOLEAN]
           /\ ~disturbed'[t]
           /\ \A u \in Callers \ {t} : pc[u] = "setting" => disturbed'[u]
  BY DEF Disturbs

LEMMA BeginSetPreserves ==
    ASSUME IndInv, NEW t \in Callers, NEW w \in UpTo(Values \cup {Refused}), BeginSet(t, w)
    PROVE  IndInv'
<1>0. /\ pc[t] = "idle" /\ recent' = t /\ Disturbs(t)
      /\ UNCHANGED <<open, stopped, encodings, next, made, buffer, heap>>
  BY DEF BeginSet
<1>1. TypeOK /\ disturbed' \in [Callers -> BOOLEAN]
      /\ \A u \in Callers \ {t} : pc[u] = "setting" => disturbed'[u]
  BY <1>0, DisturbsTypes DEF IndInv
<1>2. ASSUME NEW u \in Callers, u # t
      PROVE  /\ pc'[u] = pc[u] /\ local'[u] = local[u] /\ want'[u] = want[u] /\ status'[u] = status[u]
  BY <1>1, <1>2 DEF BeginSet, Returns, Goto, TypeOK
<1>3. ASSUME NEW u \in Callers, u # t PROVE StringsInv(u)' /\ SettingInv(u)'
  <2>1. StringsInv(u)'
    BY <1>0, <1>2, <1>3 DEF IndInv, StringsInv
  <2>2. SettingInv(u)'
    BY <1>0, <1>1, <1>2, <1>3 DEF IndInv, SettingInv, Applied
  <2> QED
    BY <2>1, <2>2
<1>4. CASE Len(encodings) # Len(w)
  <2>1. Returns(t, "INVALID_ARG") /\ UNCHANGED <<local, want>>
    BY <1>4 DEF BeginSet
  <2>2. TypeOK'
    BY <1>0, <1>1, <2>1 DEF Returns, Goto, TypeOK
  <2>3. StringsInv(t)' /\ SettingInv(t)'
    BY <1>0, <1>1, <2>1 DEF IndInv, Returns, Goto, TypeOK, StringsInv, SettingInv
  <2> QED
    BY <1>3, <2>2, <2>3 DEF IndInv
<1>5. CASE Len(encodings) = Len(w)
  <2> DEFINE l == [i \in DOMAIN encodings |-> ApplyInterop(encodings[i], w[i])]
  <2>1. encodings \in Seq(Encoding) /\ w \in Seq(Values \cup {Refused}) /\ Len(w) \in 0..MaxLayers
    BY <1>1, Arrays DEF TypeOK, Encodings, Encoding
  <2>2. DOMAIN encodings = 1..Len(w) /\ DOMAIN w = 1..Len(w)
    BY <1>5, <2>1
  <2>3. ASSUME NEW i \in 1..Len(w)
        PROVE  l[i] \in Encoding /\ l[i].value = w[i] /\ l[i].rid = encodings[i].rid
    <3>1. encodings[i] \in Encoding /\ w[i] \in Values \cup {Refused}
      BY <2>1, <2>2
    <3> QED
      BY <2>2, <3>1 DEF ApplyInterop, Encoding
  <2>4. l \in [1..Len(w) -> Encoding]
    BY <2>2, <2>3
  <2>5. l \in Encodings
    BY <2>1, <2>4 DEF Encodings, Encoding, UpTo
  <2>6. local' = [local EXCEPT ![t] = l] /\ want' = [want EXCEPT ![t] = w]
        /\ pc' = [pc EXCEPT ![t] = "setting"] /\ UNCHANGED status
    BY <1>5 DEF BeginSet, Goto
  <2> HIDE DEF l
  <2>7. TypeOK'
    BY <1>0, <1>1, <2>5, <2>6 DEF TypeOK
  <2>8. local'[t] = l /\ want'[t] = w /\ DOMAIN l = 1..Len(w)
    BY <1>1, <2>4, <2>6 DEF TypeOK
  <2>9. Applied(t)' /\ Fits(t)'
    BY <1>0, <2>2, <2>3, <2>8 DEF Applied, Fits
  <2>10. StringsInv(t)'
    BY <1>0, <1>1, <2>6 DEF IndInv, TypeOK, StringsInv
  <2> QED
    BY <1>0, <1>3, <2>7, <2>9, <2>10 DEF IndInv, SettingInv
<1> QED
  BY <1>4, <1>5

LEMMA Empty == <<>> \in Encodings /\ <<>> \in UpTo(Values \cup {Refused})
<1>1. ASSUME NEW S PROVE <<>> \in UpTo(S)
  <2>1. <<>> \in Seq(S) /\ Len(<<>>) \in 0..MaxLayers
    BY SenderAssumption
  <2> QED
    BY <2>1, Arrays
<1> QED
  BY <1>1 DEF Encodings

LEMMA ScopeTypes ==
    ASSUME TypeOK, NEW t \in Callers, OutOfScope(t)
    PROVE  /\ local' \in [Callers -> Encodings]
           /\ want' \in [Callers -> UpTo(Values \cup {Refused})]
           /\ next' \in [Callers -> 0..MaxLayers + 1]
           /\ made' \in [Callers -> SUBSET Strings]
<1>1. 0 \in 0..MaxLayers + 1
  BY SenderAssumption
<1>2. PICK e : e = <<>>
  OBVIOUS
<1>3. e \in Encodings /\ e \in UpTo(Values \cup {Refused})
  BY <1>2, Empty
<1>4. local' = [local EXCEPT ![t] = e] /\ want' = [want EXCEPT ![t] = e] /\ next' = [next EXCEPT ![t] = 0]
      /\ made' = [made EXCEPT ![t] = {}]
  BY <1>2 DEF OutOfScope
<1> QED
  BY <1>1, <1>3, <1>4 DEF TypeOK

LEMMA EndSetPreserves ==
    ASSUME IndInv, NEW t \in Callers, EndSet(t)
    PROVE  IndInv'
<1>0. TypeOK
  BY DEF IndInv
<1>1. PICK error \in Verdicts(t) :
          /\ Returns(t, StatusOf(error))
          /\ IF error = "NONE"
             THEN encodings' = local[t] /\ recent' = Nobody
             ELSE UNCHANGED encodings /\ recent' \in IF Stale(t) THEN {recent} ELSE {t, Nobody}
  BY DEF EndSet
<1>2. StatusOf(error) \in {"OK", "INVALID_ARG", "INVALID_STATE"}
  BY DEF StatusOf
<1>3. encodings' \in Encodings /\ recent' \in Callers \cup {Nobody}
  BY <1>0, <1>1 DEF TypeOK
<1>10. /\ pc[t] = "setting" /\ OutOfScope(t) /\ UNCHANGED <<open, stopped, buffer, heap>>
       /\ disturbed' = [disturbed EXCEPT ![t] = FALSE]
  BY DEF EndSet
<1>4. disturbed' \in [Callers -> BOOLEAN]
  BY <1>0, <1>10 DEF TypeOK
<1>5. TypeOK'
  <2>1. OutOfScope(t)
    BY <1>10
  <2> QED
    BY <1>0, <1>1, <1>10, <1>2, <1>3, <1>4, <2>1, ScopeTypes DEF TypeOK, Returns, Goto
<1>6. /\ pc'[t] = "idle" /\ status'[t] = StatusOf(error) /\ made'[t] = {}
      /\ \A u \in Callers \ {t} :
             /\ pc'[u] = pc[u] /\ local'[u] = local[u] /\ want'[u] = want[u] /\ next'[u] = next[u]
             /\ made'[u] = made[u] /\ status'[u] = status[u] /\ disturbed'[u] = disturbed[u]
  BY <1>0, <1>1, <1>10 DEF Returns, Goto, OutOfScope, TypeOK
<1>7. ASSUME NEW u \in Callers PROVE StringsInv(u)'
  BY <1>2, <1>6, <1>10 DEF IndInv, StringsInv
<1>8. ASSUME NEW u \in Callers \ {t} PROVE SettingInv(u)'
  <2>1. CASE Stale(t)
    <3>1. error # "NONE"
      BY <2>1 DEF Verdicts, ValueErrors
    <3>2. UNCHANGED <<encodings, recent>>
      BY <1>1, <2>1, <3>1
    <3> QED
      BY <1>6, <3>2 DEF IndInv, SettingInv, Applied, Fits
  <2>2. CASE ~Stale(t)
    <3>1. recent = t /\ t # u
      BY <2>2 DEF Stale
    <3> QED
      BY <1>6, <3>1 DEF IndInv, SettingInv, Applied
  <2> QED
    BY <2>1, <2>2
<1>9. SettingInv(t)'
  BY <1>6 DEF SettingInv
<1> QED
  BY <1>5, <1>7, <1>8, <1>9 DEF IndInv

LEMMA BeginGetPreserves ==
    ASSUME IndInv, NEW t \in Callers, NEW counting \in BOOLEAN, NEW capacity \in 0..MaxLayers,
           BeginGet(t, counting, capacity)
    PROVE  IndInv'
<1>0. /\ pc[t] = "idle" /\ buffer[t] = {} /\ recent' = t /\ Disturbs(t)
      /\ UNCHANGED <<open, stopped, encodings, want, made, buffer, heap>>
  BY DEF BeginGet
<1>1. TypeOK /\ disturbed' \in [Callers -> BOOLEAN]
      /\ \A u \in Callers \ {t} : pc[u] = "setting" => disturbed'[u]
  BY <1>0, DisturbsTypes DEF IndInv
<1>2. \/ UNCHANGED <<local, next>> /\ \E s \in {"OK", "INVALID_ARG"} : Returns(t, s)
      \/ /\ local' = [local EXCEPT ![t] = encodings] /\ next' = [next EXCEPT ![t] = 1]
         /\ Goto(t, "filling") /\ UNCHANGED status
  BY DEF BeginGet
<1>3. ASSUME NEW u \in Callers \ {t}
      PROVE  /\ pc'[u] = pc[u] /\ local'[u] = local[u] /\ next'[u] = next[u] /\ status'[u] = status[u]
  BY <1>1, <1>2 DEF Returns, Goto, TypeOK
<1>4. TypeOK'
  <2>1. CASE UNCHANGED <<local, next>> /\ \E s \in {"OK", "INVALID_ARG"} : Returns(t, s)
    BY <1>0, <1>1, <2>1 DEF TypeOK, Returns, Goto
  <2>2. CASE /\ local' = [local EXCEPT ![t] = encodings] /\ next' = [next EXCEPT ![t] = 1]
             /\ Goto(t, "filling") /\ UNCHANGED status
    <3>1. 1 \in 0..MaxLayers + 1
      BY SenderAssumption
    <3>2. local' \in [Callers -> Encodings] /\ next' \in [Callers -> 0..MaxLayers + 1]
      BY <1>1, <2>2, <3>1 DEF TypeOK
    <3>3. pc' \in [Callers -> {"idle", "setting", "filling"}]
      BY <1>1, <2>2 DEF TypeOK, Goto
    <3> QED
      BY <1>0, <1>1, <2>2, <3>2, <3>3 DEF TypeOK
  <2> QED
    BY <1>2, <2>1, <2>2
<1>5. pc'[t] \in {"idle", "filling"} /\ (pc'[t] = "filling" => next'[t] = 1)
      /\ (pc'[t] = "idle" => status'[t] # "INTERNAL")
  BY <1>1, <1>2 DEF Returns, Goto, TypeOK
<1>6. ASSUME NEW u \in Callers \ {t} PROVE StringsInv(u)' /\ SettingInv(u)'
  <2>1. StringsInv(u)'
    BY <1>0, <1>3 DEF IndInv, StringsInv
  <2>2. SettingInv(u)'
    BY <1>0, <1>1, <1>3 DEF IndInv, SettingInv, Applied
  <2> QED
    BY <2>1, <2>2
<1>7. StringsInv(t)' /\ SettingInv(t)'
  BY <1>0, <1>5 DEF IndInv, StringsInv, SettingInv
<1> QED
  BY <1>4, <1>6, <1>7 DEF IndInv

(* What only touches the thread's own call. *)
LEMMA OwnStep ==
    ASSUME IndInv, NEW t \in Callers,
           UNCHANGED <<connection, disturbed>>,
           TypeOK', StringsInv(t)', pc'[t] # "setting",
           \A u \in Callers \ {t} :
               /\ pc'[u] = pc[u] /\ local'[u] = local[u] /\ want'[u] = want[u] /\ next'[u] = next[u]
               /\ made'[u] = made[u] /\ buffer'[u] = buffer[u] /\ heap'[u] = heap[u]
               /\ status'[u] = status[u]
    PROVE  IndInv'
<1>1. ASSUME NEW u \in Callers \ {t} PROVE StringsInv(u)'
  BY DEF IndInv, StringsInv, Filling
<1>2. ASSUME NEW u \in Callers \ {t} PROVE SettingInv(u)'
  BY DEF IndInv, SettingInv, Applied, Fits, connection
<1>3. SettingInv(t)'
  BY DEF SettingInv
<1> QED
  BY <1>1, <1>2, <1>3 DEF IndInv

LEMMA NeededTypes ==
    ASSUME IndInv, NEW t \in Callers, Filling(t)
    PROVE  /\ pc[t] = "filling" /\ next[t] \in 1..MaxLayers
           /\ Needed(t) \in SUBSET Strings /\ \A x \in Needed(t) : x[1] = next[t]
<1>1. local[t] \in Seq(Encoding) /\ Len(local[t]) \in 0..MaxLayers
  BY Arrays DEF IndInv, TypeOK, Encodings, Encoding
<1>2. pc[t] = "filling" /\ next[t] \in 1..MaxLayers
  BY <1>1, SenderAssumption DEF IndInv, Filling, TypeOK, StringsInv
<1> QED
  BY <1>2 DEF Needed, RidOf, ModeOf, Strings, Layers

LEMMA GettingPreserves ==
    ASSUME IndInv, NEW t \in Callers,
           Duplicate(t) \/ CopyEncoding(t) \/ CopyFails(t) \/ EndGet(t) \/ FreeStrings(t)
    PROVE  IndInv'
<1>0. TypeOK /\ StringsInv(t)
  BY DEF IndInv
<1>1. CASE Duplicate(t)
  <2>1. PICK x \in Needed(t) : /\ heap' = [heap EXCEPT ![t] = heap[t] \cup {x}]
                              /\ made' = [made EXCEPT ![t] = made[t] \cup {x}]
    BY <1>1 DEF Duplicate
  <2>2. pc[t] = "filling" /\ next[t] <= Len(local[t]) /\ x \in Strings
        /\ UNCHANGED <<connection, pc, local, want, next, buffer, status, disturbed>>
    BY <1>1, NeededTypes DEF Duplicate, Filling
  <2>3. TypeOK'
    BY <1>0, <2>1, <2>2 DEF TypeOK, connection
  <2>4. StringsInv(t)'
    <3>1. heap'[t] = heap[t] \cup {x} /\ made'[t] = made[t] \cup {x}
      BY <1>0, <2>1 DEF TypeOK
    <3> QED
      BY <1>0, <2>2, <3>1 DEF StringsInv
  <2> QED
    BY <1>0, <2>1, <2>2, <2>3, <2>4, OwnStep DEF TypeOK
<1>2. CASE CopyEncoding(t)
  <2> DEFINE s == Needed(t)
  <2>1. Filling(t) /\ made[t] = s
    BY <1>2 DEF CopyEncoding
  <2>2. /\ pc[t] = "filling" /\ next[t] \in 1..MaxLayers
        /\ s \in SUBSET Strings /\ \A x \in s : x[1] = next[t]
    BY <2>1, NeededTypes
  <2>3. /\ buffer' = [buffer EXCEPT ![t] = buffer[t] \cup s]
        /\ made' = [made EXCEPT ![t] = {}]
        /\ next' = [next EXCEPT ![t] = next[t] + 1]
        /\ UNCHANGED <<connection, pc, local, want, heap, status, disturbed>>
    BY <1>2 DEF CopyEncoding
  <2> HIDE DEF s
  <2>4. next[t] + 1 \in 0..MaxLayers + 1
    BY <2>2, SenderAssumption
  <2>5. TypeOK'
    BY <1>0, <2>2, <2>3, <2>4 DEF TypeOK, connection
  <2>6. next'[t] = next[t] + 1 /\ buffer'[t] = buffer[t] \cup s /\ heap'[t] = heap[t] /\ made'[t] = {}
    BY <1>0, <2>3 DEF TypeOK
  <2>7. ASSUME NEW x \in buffer[t] \cup s PROVE x[1] < next[t] + 1
    <3>1. CASE x \in s
      BY <2>2, <3>1
    <3>2. CASE x \in buffer[t]
      <4>1. x \in Strings /\ x[1] < next[t]
        BY <1>0, <2>2, <3>2 DEF TypeOK, StringsInv
      <4> QED
        BY <2>2, <4>1, SenderAssumption DEF Strings, Layers
    <3> QED
      BY <3>1, <3>2
  <2>8. StringsInv(t)'
    <3>1. next[t] + 1 > 0 /\ heap'[t] = buffer'[t] \cup made'[t]
      BY <1>0, <2>1, <2>2, <2>6, SenderAssumption DEF StringsInv
    <3>2. pc'[t] = "filling" /\ \A x \in buffer'[t] : x[1] < next'[t]
      BY <2>2, <2>3, <2>6, <2>7
    <3> QED
      BY <2>6, <3>1, <3>2 DEF StringsInv
  <2> QED
    BY <1>0, <2>2, <2>3, <2>5, <2>8, OwnStep DEF TypeOK
<1>3. CASE CopyFails(t)
  <2>1. FreeEncodingStrings(t) = buffer[t] /\ heap[t] = buffer[t] \cup FreeLocals(t)
    BY <1>0, <1>3 DEF CopyFails, Filling, FreeEncodingStrings, FreeLocals, StringsInv
  <2>2. heap' = [heap EXCEPT ![t] = {}] /\ buffer' = [buffer EXCEPT ![t] = {}]
    BY <1>3, <2>1 DEF CopyFails
  <2>3. Returns(t, "INTERNAL") /\ OutOfScope(t) /\ UNCHANGED <<connection, disturbed>>
    BY <1>3 DEF CopyFails
  <2>4. TypeOK'
    BY <1>0, <2>2, <2>3, ScopeTypes DEF TypeOK, connection, Returns, Goto
  <2>5. StringsInv(t)' /\ pc'[t] # "setting"
    BY <1>0, <2>2, <2>3 DEF TypeOK, Returns, Goto, OutOfScope, StringsInv
  <2> QED
    BY <1>0, <2>2, <2>3, <2>4, <2>5, OwnStep DEF TypeOK, Returns, Goto, OutOfScope
<1>4. CASE EndGet(t)
  <2>1. /\ pc[t] = "filling" /\ Returns(t, "OK") /\ OutOfScope(t)
        /\ UNCHANGED <<connection, buffer, heap, disturbed>>
    BY <1>4 DEF EndGet
  <2>4. made[t] = {} /\ heap[t] = buffer[t]
    <3>1. local[t] \in Seq(Encoding) /\ next[t] \in 0..MaxLayers + 1
      BY <1>0, Arrays DEF TypeOK, Encodings, Encoding
    <3>2. ~(next[t] <= Len(local[t]))
      BY <1>4, <3>1, SenderAssumption DEF EndGet
    <3> QED
      BY <1>0, <3>2 DEF StringsInv
  <2>2. TypeOK'
    BY <1>0, <2>1, ScopeTypes DEF TypeOK, connection, Returns, Goto
  <2>3. StringsInv(t)' /\ pc'[t] # "setting"
    <3>1. made'[t] = {} /\ pc'[t] = "idle" /\ status'[t] = "OK"
      BY <1>0, <2>1 DEF TypeOK, Returns, Goto, OutOfScope
    <3> QED
      BY <2>1, <2>4, <3>1 DEF StringsInv
  <2> QED
    BY <1>0, <2>1, <2>2, <2>3, OwnStep DEF TypeOK, Returns, Goto, OutOfScope
<1>5. CASE FreeStrings(t)
  <2>1. /\ pc[t] = "idle" /\ heap' = [heap EXCEPT ![t] = {}] /\ buffer' = [buffer EXCEPT ![t] = {}]
        /\ UNCHANGED <<connection, pc, local, want, next, made, status, disturbed>>
    BY <1>0, <1>5 DEF FreeStrings, StringsInv
  <2>2. TypeOK'
    BY <1>0, <2>1 DEF TypeOK, connection
  <2>3. StringsInv(t)' /\ pc'[t] # "setting"
    BY <1>0, <2>1 DEF TypeOK, StringsInv
  <2> QED
    BY <1>0, <2>1, <2>2, <2>3, OwnStep DEF TypeOK
<1> QED
  BY <1>1, <1>2, <1>3, <1>4, <1>5

LEMMA ConnectionPreserves ==
    ASSUME IndInv, Negotiate \/ Stop \/ Close
    PROVE  IndInv'
<1>0. TypeOK
  BY DEF IndInv
<1>1. DisturbsAll /\ UNCHANGED <<recent, pc, local, want, next, made, buffer, heap, status>>
  BY DEF Negotiate, Stop, Close, Ends
<1>2. disturbed' \in [Callers -> BOOLEAN]
  BY <1>0, <1>1 DEF DisturbsAll, TypeOK
<1>3. ASSUME NEW u \in Callers, pc[u] = "setting" PROVE disturbed'[u]
  BY <1>1, <1>3 DEF DisturbsAll
<1>4. encodings' \in Encodings
  <2>1. CASE Negotiate
    <3>1. PICK n \in 1..Len(encodings) : encodings' = SubSeq(encodings, 1, n)
      BY <2>1 DEF Negotiate
    <3>2. encodings \in Seq(Encoding) /\ Len(encodings) \in 0..MaxLayers
      BY <1>0, Arrays DEF TypeOK, Encodings, Encoding
    <3>3. encodings' \in Seq(Encoding) /\ Len(encodings') = n /\ n \in 0..MaxLayers
      BY <3>1, <3>2, SenderAssumption
    <3> QED
      BY <3>3, Arrays DEF Encodings, Encoding
  <2>2. CASE Stop \/ Close
    BY <1>0, <2>2, Empty DEF Stop, Close, Ends, TypeOK
  <2> QED
    BY <2>1, <2>2
<1>5. open' \in BOOLEAN /\ stopped' \in BOOLEAN
  BY <1>0 DEF Negotiate, Stop, Close, TypeOK
<1>6. TypeOK'
  BY <1>0, <1>1, <1>2, <1>4, <1>5 DEF TypeOK
<1>7. ASSUME NEW u \in Callers PROVE StringsInv(u)'
  BY <1>1 DEF IndInv, StringsInv
<1>8. ASSUME NEW u \in Callers PROVE SettingInv(u)'
  BY <1>1, <1>3 DEF IndInv, SettingInv, Applied
<1> QED
  BY <1>6, <1>7, <1>8 DEF IndInv

LEMMA Preserved == IndInv /\ [Next]_vars => IndInv'
<1> SUFFICES ASSUME IndInv, [Next]_vars PROVE IndInv'
  OBVIOUS
<1>1. CASE UNCHANGED vars
  BY <1>1 DEF vars, connection, IndInv, TypeOK, StringsInv, SettingInv, Applied, Fits
<1> QED
  BY <1>1, BeginSetPreserves, EndSetPreserves, BeginGetPreserves, GettingPreserves,
     ConnectionPreserves DEF Next, Setting, Getting

(* A thread that returns from a set has made its second hop. *)
LEMMA OnlyEndSet ==
    ASSUME TypeOK, Next, NEW t \in Callers, Returned(t)
    PROVE  EndSet(t)
<1>1. pc \in [Callers -> {"idle", "setting", "filling"}] /\ pc[t] = "setting" /\ pc'[t] = "idle"
  BY DEF TypeOK, Returned
<1>2. ~Negotiate /\ ~Stop /\ ~Close
  BY <1>1 DEF Negotiate, Stop, Close
<1>3. ASSUME NEW u \in Callers, NEW w \in UpTo(Values \cup {Refused}), BeginSet(u, w) PROVE FALSE
  <2>1. pc[u] = "idle" /\ (pc' = [pc EXCEPT ![u] = "idle"] \/ pc' = [pc EXCEPT ![u] = "setting"])
    BY <1>3 DEF BeginSet, Returns, Goto
  <2> QED
    BY <1>1, <2>1
<1>4. ASSUME NEW u \in Callers, Getting(u) PROVE FALSE
  <2>1. pc[u] # "setting" /\ (UNCHANGED pc \/ \E p : pc' = [pc EXCEPT ![u] = p])
    BY <1>4 DEF Getting, BeginGet, Duplicate, CopyEncoding, CopyFails, EndGet, FreeStrings, Filling,
                Returns, Goto
  <2> QED
    BY <1>1, <2>1
<1>5. ASSUME NEW u \in Callers, u # t, EndSet(u) PROVE FALSE
  <2>1. pc' = [pc EXCEPT ![u] = "idle"]
    BY <1>5 DEF EndSet, Returns, Goto
  <2> QED
    BY <1>1, <1>5, <2>1
<1> QED
  BY <1>2, <1>3, <1>4, <1>5 DEF Next, Setting

-----------------------------------------------------------------------------
(* The theorems *)

(* Where the strings of each caller are, and what a caller between its get and
   its set knows of the sender. *)
THEOREM Invariance == Spec => []IndInv
<1>1. Init => IndInv
  <2> SUFFICES ASSUME Init PROVE IndInv
    OBVIOUS
  <2>1. PICK n \in 1..MaxLayers : encodings = [i \in 1..n |-> [rid |-> n > 1, value |-> Unset]]
    BY DEF Init
  <2>2. encodings \in Seq(Encoding) /\ Len(encodings) = n
    BY <2>1, SenderAssumption DEF Encoding, Values
  <2>3. encodings \in Encodings
    BY <2>2, SenderAssumption, Arrays DEF Encodings, Encoding
  <2>4. <<>> \in Encodings /\ <<>> \in UpTo(Values \cup {Refused})
    BY Empty
  <2>5. PICK e : e = <<>>
    OBVIOUS
  <2>6. 0 \in 0..MaxLayers + 1
    BY SenderAssumption
  <2>7. local \in [Callers -> Encodings] /\ want \in [Callers -> UpTo(Values \cup {Refused})]
    <3>1. local = [t \in Callers |-> e] /\ want = [t \in Callers |-> e]
      BY <2>5 DEF Init
    <3> QED
      BY <2>4, <2>5, <3>1
  <2>8. TypeOK
    BY <2>3, <2>6, <2>7 DEF Init, TypeOK
  <2>9. ASSUME NEW t \in Callers PROVE StringsInv(t) /\ SettingInv(t)
    BY <2>9 DEF Init, StringsInv, SettingInv
  <2> QED
    BY <2>8, <2>9 DEF IndInv
<1>2. QED
  BY <1>1, Preserved, PTL DEF Spec

(* Arrays never outgrow the sender's layers, whatever is negotiated away. *)
THEOREM TypeCorrect == Spec => []TypeOK
  BY Invariance, PTL DEF IndInv

(* However often allocations fail, a thread between two calls owns exactly the
   strings its array points to, and none after an RTC_ERR_INTERNAL. *)
THEOREM NoStringLost == Spec => []StringsAccountedFor
<1>1. IndInv => StringsAccountedFor
  BY DEF IndInv, StringsInv, StringsAccountedFor
<1>2. QED
  BY <1>1, Invariance, PTL

(* What the second hop of a set reports, and does. *)
LEMMA SetEnds ==
    ASSUME TypeOK, NEW t \in Callers, EndSet(t)
    PROVE  \E error \in Verdicts(t) :
               /\ status'[t] = StatusOf(error)
               /\ encodings' = IF error = "NONE" THEN local[t] ELSE encodings
<1>1. PICK error \in Verdicts(t) :
          /\ Returns(t, StatusOf(error))
          /\ IF error = "NONE" THEN encodings' = local[t] ELSE UNCHANGED encodings
  BY DEF EndSet
<1>2. status'[t] = StatusOf(error)
  BY <1>1 DEF Returns, TypeOK
<1> QED
  BY <1>1, <1>2

LEMMA SetExact ==
    ASSUME IndInv, NEW t \in Callers, EndSet(t), status'[t] = "OK"
    PROVE  /\ DOMAIN encodings' = DOMAIN encodings
           /\ \A i \in DOMAIN encodings :
                 encodings'[i] = [encodings[i] EXCEPT !.value = want[t][i]]
<1>1. PICK error \in Verdicts(t) :
          /\ status'[t] = StatusOf(error)
          /\ encodings' = IF error = "NONE" THEN local[t] ELSE encodings
  BY SetEnds DEF IndInv
<1>2. error = "NONE" /\ encodings' = local[t]
  BY <1>1 DEF StatusOf
<1>3. ~Stale(t) /\ Fits(t)
  BY <1>1, <1>2 DEF Verdicts, ValueErrors
<1>4. Applied(t)
  BY DEF EndSet, IndInv, SettingInv
<1>5. local[t] \in Seq(Encoding) /\ encodings \in Seq(Encoding)
  BY Arrays DEF IndInv, TypeOK, Encodings, Encoding
<1>6. ASSUME NEW i \in DOMAIN encodings
      PROVE  local[t][i] = [encodings[i] EXCEPT !.value = want[t][i]]
  <2>1. local[t][i] \in Encoding /\ encodings[i] \in Encoding
    BY <1>3, <1>5 DEF Fits
  <2>2. local[t][i].value = want[t][i] /\ local[t][i].rid = encodings[i].rid
    BY <1>3, <1>4 DEF Fits, Applied
  <2> QED
    BY <2>1, <2>2 DEF Encoding
<1> QED
  BY <1>2, <1>3, <1>6 DEF Fits

LEMMA SetRefused ==
    ASSUME IndInv, NEW t \in Callers, EndSet(t)
    PROVE  /\ status'[t] # "OK" => encodings' = encodings
           /\ ~disturbed[t] => (status'[t] = "INVALID_ARG" <=> HasRefusedValue(t) /\ ~Ended)
<1>1. PICK error \in Verdicts(t) :
          /\ status'[t] = StatusOf(error)
          /\ encodings' = IF error = "NONE" THEN local[t] ELSE encodings
  BY SetEnds DEF IndInv
<1>2. status'[t] # "OK" => encodings' = encodings
  BY <1>1 DEF StatusOf
<1>3. Applied(t) /\ (disturbed[t] \/ (recent = t /\ Fits(t)))
  BY DEF EndSet, IndInv, SettingInv
<1>4. HasRefusedValue(t) <=> \E i \in DOMAIN local[t] : local[t][i].value = Refused
  BY <1>3 DEF HasRefusedValue, Applied
<1>5. ASSUME ~disturbed[t]
      PROVE  status'[t] = "INVALID_ARG" <=> HasRefusedValue(t) /\ ~Ended
  <2>1. ~Stale(t) /\ Fits(t) /\ recent # Nobody
    BY <1>3, <1>5, SenderAssumption DEF Stale
  <2>2. CASE Ended
    BY <1>1, <2>2 DEF Verdicts, StatusOf, ValueErrors
  <2>3. CASE ~Ended /\ HasRefusedValue(t)
    <3>1. error \in ValueErrors \cup {"INVALID_MODIFICATION"}
      BY <1>1, <1>4, <2>1, <2>3 DEF Verdicts
    <3> QED
      BY <1>1, <2>3, <3>1 DEF StatusOf, ValueErrors
  <2>4. CASE ~Ended /\ ~HasRefusedValue(t)
    <3>1. error \in {"NONE", "INTERNAL_ERROR"}
      BY <1>1, <1>4, <2>1, <2>4 DEF Verdicts
    <3> QED
      BY <1>1, <2>4, <3>1 DEF StatusOf, ValueErrors
  <2> QED
    BY <2>2, <2>3, <2>4
<1> QED
  BY <1>2, <1>5

(* A set that returns RTC_OK leaves the values passed and the rids found. *)
THEOREM Exactness == Spec => SetIsExact
<1> DEFINE Exact == \A t \in Callers :
        pc[t] = "setting" /\ pc'[t] = "idle" /\ status'[t] = "OK" =>
            /\ DOMAIN encodings' = DOMAIN encodings
            /\ \A i \in DOMAIN encodings :
                  encodings'[i] = [encodings[i] EXCEPT !.value = want[t][i]]
<1>1. IndInv /\ [Next]_vars => [Exact]_vars
  BY OnlyEndSet, SetExact DEF IndInv, Returned
<1>2. QED
  BY <1>1, Invariance, PTL DEF Spec, SetIsExact

(* A refusal changes nothing, and RTC_ERR_INVALID_ARG says exactly that a live
   sender does not take the values, unless something came in between. *)
THEOREM Refusals == Spec => RefusalExplained
<1> DEFINE Explained == \A t \in Callers : Returned(t) =>
        /\ status'[t] # "OK" => UNCHANGED encodings
        /\ ~disturbed[t] => (status'[t] = "INVALID_ARG" <=> HasRefusedValue(t) /\ ~Ended)
<1>1. IndInv /\ [Next]_vars => [Explained]_vars
  BY OnlyEndSet, SetRefused DEF IndInv
<1>2. QED
  BY <1>1, Invariance, PTL DEF Spec, RefusalExplained

-----------------------------------------------------------------------------
(* A get hands out a snapshot *)

(* While the array is filled it shows the strings of the encodings copied. *)
CopyInv(t) ==
    pc[t] = "filling" => buffer[t] = {x \in StringsOf(local[t]) : x[1] < next[t]}

(* Each round of the loop adds the strings of its encoding. *)
LEMMA CopyOne ==
    ASSUME IndInv, NEW t \in Callers, CopyInv(t), CopyEncoding(t)
    PROVE  CopyInv(t)'
<1> DEFINE i == next[t]
           S == StringsOf(local[t])
<1>1. /\ local[t] \in Seq(Encoding) /\ i \in Nat \ {0} /\ i <= Len(local[t])
      /\ UNCHANGED <<pc, local>> /\ pc[t] = "filling" /\ buffer[t] \subseteq Strings
  <2>1. local[t] \in Seq(Encoding)
    BY Arrays DEF IndInv, TypeOK, Encodings, Encoding
  <2>2. pc[t] = "filling" /\ i <= Len(local[t]) /\ UNCHANGED <<pc, local>>
    BY DEF CopyEncoding, Filling
  <2>3. next[t] \in 0..MaxLayers + 1 /\ next[t] > 0 /\ buffer[t] \subseteq Strings
    BY <2>2 DEF IndInv, TypeOK, StringsInv
  <2> QED
    BY <2>1, <2>2, <2>3, SenderAssumption
<1>2. next'[t] = i + 1 /\ buffer'[t] = buffer[t] \cup RidOf(t, i) \cup ModeOf(t, i)
  BY DEF CopyEncoding, Needed, IndInv, TypeOK
<1>3. \A x \in S : x[1] \in Nat
  BY <1>1 DEF StringsOf
<1>4. RidOf(t, i) \cup ModeOf(t, i) = {x \in S : x[1] = i}
  BY <1>1 DEF RidOf, ModeOf, StringsOf
<1>5. buffer[t] = {x \in S : x[1] < i}
  BY <1>1 DEF CopyInv
<1> HIDE DEF i, S
<1>6. buffer'[t] = {x \in S : x[1] < i + 1}
  <2>1. \A x \in S : x[1] < i + 1 <=> x[1] < i \/ x[1] = i
    BY <1>1, <1>3
  <2> QED
    BY <1>2, <1>4, <1>5, <2>1
<1> QED
  BY <1>1, <1>2, <1>6 DEF CopyInv, S

(* And nothing else touches an array that is being filled. *)
LEMMA CopyStep == IndInv /\ (\A t \in Callers : CopyInv(t)) /\ [Next]_vars
                    => (\A t \in Callers : CopyInv(t))'
<1> SUFFICES ASSUME IndInv, \A t \in Callers : CopyInv(t), [Next]_vars, NEW u \in Callers
             PROVE  CopyInv(u)'
  OBVIOUS
<1> USE DEF IndInv, TypeOK
<1>1. ASSUME NEW t \in Callers, NEW w \in UpTo(Values \cup {Refused}), BeginSet(t, w)
      PROVE  CopyInv(u)'
  BY <1>1 DEF BeginSet, Returns, Goto, CopyInv
<1>2. ASSUME NEW t \in Callers, EndSet(t) PROVE CopyInv(u)'
  BY <1>2 DEF EndSet, Returns, Goto, OutOfScope, CopyInv
<1>3. ASSUME NEW t \in Callers, NEW counting \in BOOLEAN, NEW capacity \in 0..MaxLayers,
             BeginGet(t, counting, capacity)
      PROVE  CopyInv(u)'
  <2>1. CASE u = t /\ pc'[t] = "filling"
    <3>1. local'[t] = encodings /\ next'[t] = 1 /\ buffer'[t] = {}
      BY <1>3, <2>1 DEF BeginGet, Returns, Goto
    <3>2. \A x \in StringsOf(encodings) : ~(x[1] < 1)
      <4>1. encodings \in Seq(Encoding)
        BY Arrays DEF Encodings, Encoding
      <4> QED
        BY <4>1 DEF StringsOf
    <3> QED
      BY <2>1, <3>1, <3>2 DEF CopyInv
  <2>2. CASE ~(u = t /\ pc'[t] = "filling")
    BY <1>3, <2>2 DEF BeginGet, Returns, Goto, CopyInv
  <2> QED
    BY <2>1, <2>2
<1>4. ASSUME NEW t \in Callers, CopyEncoding(t) PROVE CopyInv(u)'
  <2>1. CASE u = t
    BY <1>4, <2>1, CopyOne
  <2>2. CASE u # t
    BY <1>4, <2>2 DEF CopyEncoding, CopyInv
  <2> QED
    BY <2>1, <2>2
<1>5. ASSUME NEW t \in Callers, Duplicate(t) \/ CopyFails(t) \/ EndGet(t) \/ FreeStrings(t)
      PROVE  CopyInv(u)'
  BY <1>5 DEF Duplicate, CopyFails, EndGet, FreeStrings, Returns, Goto, OutOfScope, CopyInv
<1>6. CASE Negotiate \/ Stop \/ Close \/ UNCHANGED vars
  BY <1>6 DEF Negotiate, Stop, Close, vars, CopyInv
<1> QED
  BY ONLY [Next]_vars, <1>1, <1>2, <1>3, <1>4, <1>5, <1>6 DEF Next, Setting, Getting

(* A get that returns RTC_OK hands out the strings of one state of the sender,
   whatever other threads set and negotiations reject while it copies. *)
THEOREM Snapshot == Spec => GetIsWhole
<1> DEFINE Whole == \A t \in Callers :
        pc[t] = "filling" /\ pc'[t] = "idle" /\ status'[t] = "OK" =>
            buffer'[t] = StringsOf(local[t])
<1>1. Init => \A t \in Callers : CopyInv(t)
  BY DEF Init, CopyInv
<1>2. IndInv /\ (\A t \in Callers : CopyInv(t)) /\ [Next]_vars => [Whole]_vars
  <2> SUFFICES ASSUME IndInv, Next, NEW t \in Callers, CopyInv(t),
                      pc[t] = "filling", pc'[t] = "idle", status'[t] = "OK"
               PROVE  buffer'[t] = StringsOf(local[t])
    OBVIOUS
  <2>1. EndGet(t)
    BY DEF Next, Negotiate, Stop, Close, Setting, BeginSet, Getting, BeginGet, Duplicate, CopyEncoding,
           CopyFails, EndGet, FreeStrings, EndSet, Returns, Goto, IndInv, TypeOK
  <2>2. local[t] \in Seq(Encoding) /\ next[t] \in Nat /\ next[t] > Len(local[t])
    <3>1. local[t] \in Seq(Encoding)
      BY Arrays DEF IndInv, TypeOK, Encodings, Encoding
    <3>2. next[t] \in 0..MaxLayers + 1 /\ next[t] > Len(local[t])
      BY <2>1 DEF EndGet, IndInv, TypeOK
    <3> QED
      BY <3>1, <3>2, SenderAssumption
  <2>3. \A x \in StringsOf(local[t]) : x[1] < next[t]
    BY <2>2 DEF StringsOf
  <2> QED
    BY <2>1, <2>3 DEF CopyInv, EndGet
<1> QED
  BY <1>1, <1>2, CopyStep, Invariance, PTL DEF Spec, GetIsWhole
=============================================================================
