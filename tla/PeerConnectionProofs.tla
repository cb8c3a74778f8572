------------------------ MODULE PeerConnectionProofs ------------------------
(***************************************************************************)
(* The safety of PeerConnection for any number of connections and          *)
(* requests: observers and completion objects are alive whenever WebRTC    *)
(* may call them, and every request is answered as OneShot says.  Then the *)
(* creation in front of it: lists of URLs of any length are split exactly. *)
(***************************************************************************)
EXTENDS IceServers, FiniteSetTheorems, SequenceTheorems, TLAPS

(* What exists at each point of a handle's life. *)
ConnInv(c) ==
    /\ handle[c] = "none" => observer[c] = "none" /\ native[c] = "none"
    /\ handle[c] = "creating" => observer[c] = "live" /\ native[c] = "none"
    /\ handle[c] = "held" => observer[c] = "live" /\ Alive(c)
    /\ handle[c] = "dying" => observer[c] = "live" /\ native[c] # "none"
    /\ handle[c] = "gone" => observer[c] = "freed" /\ native[c] = "destroyed"
    /\ raising = c => Alive(c)

(* What a request's call and WebRTC hold of its completion object. *)
RequestInv(r) ==
    /\ phase[r] = "unused" => asked[r] = Nobody /\ status[r] = "none" /\ refs[r] = {}
    /\ phase[r] # "unused" => asked[r] \in Asks
    /\ phase[r] \in {"posting", "posted"} => status[r] = "none" /\ "caller" \in refs[r]
    /\ phase[r] = "posting" => "webrtc" \notin refs[r]
    /\ phase[r] = "returned" => status[r] # "none" /\ "caller" \notin refs[r]
    /\ status[r] = "INVALID_ARG" => phase[r] = "returned" /\ refs[r] = {}
    /\ r \in due \/ answering = r <=> "webrtc" \in refs[r]
    /\ r \in due => answering # r
    /\ phase[r] \in {"unused", "posting"} \/ r \in due => heard[r] = <<>>

IndInv ==
    /\ TypeOK
    /\ \A c \in Connections : ConnInv(c)
    /\ \A r \in Requests : RequestInv(r)

-----------------------------------------------------------------------------
(* Every step preserves IndInv. *)

LEMMA LivingPreserves ==
    ASSUME IndInv, NEW c \in Connections, Living(c) \/ Raise(c)
    PROVE  IndInv'
<1> USE NobodyAssumption DEF IndInv, TypeOK, ConnInv, Alive, SignallingFree
<1>1. UNCHANGED <<requestVars, answering>>
  BY DEF Living, Create, CreateNative, Close, Release, DestroyNative, DestroyObserver, Raise
<1>2. (\A r \in Requests : RequestInv(r))'
  BY <1>1 DEF requestVars, RequestInv
<1>3. TypeOK' /\ (\A x \in Connections : ConnInv(x))'
  <2>1. CASE Create(c)
    BY <2>1, <1>1 DEF Create, requestVars
  <2>2. CASE CreateNative(c)
    <3>1. handle[c] = "creating" /\ UNCHANGED raising
      BY <2>2 DEF CreateNative
    <3>2. CASE native' = [native EXCEPT ![c] = "open"]
               /\ handle' = [handle EXCEPT ![c] = "held"] /\ UNCHANGED observer
      BY <3>1, <3>2, <1>1 DEF requestVars
    <3>3. CASE handle' = [handle EXCEPT ![c] = "none"]
               /\ observer' = [observer EXCEPT ![c] = "none"] /\ UNCHANGED native
      BY <3>1, <3>3, <1>1 DEF requestVars
    <3> QED
      BY ONLY <2>2, <3>2, <3>3 DEF CreateNative
  <2>3. CASE Close(c)
    BY <2>3, <1>1 DEF Close, requestVars
  <2>4. CASE Release(c)
    BY <2>4, <1>1 DEF Release, requestVars
  <2>5. CASE DestroyNative(c)
    BY <2>5, <1>1 DEF DestroyNative, requestVars
  <2>6. CASE DestroyObserver(c)
    BY <2>6, <1>1 DEF DestroyObserver, requestVars
  <2>7. CASE Raise(c)
    BY <2>7, <1>1 DEF Raise, requestVars, connVars
  <2> QED
    BY <2>1, <2>2, <2>3, <2>4, <2>5, <2>6, <2>7 DEF Living
<1> QED
  BY <1>2, <1>3

LEMMA RequestingPreserves ==
    ASSUME IndInv, NEW r \in Requests, Requesting(r)
    PROVE  IndInv'
<1> USE NobodyAssumption DEF IndInv, TypeOK, RequestInv, SignallingFree
<1>1. UNCHANGED <<connVars, raising>>
  BY DEF Requesting, Refuse, Ask, Post, Return, Answer, EndAnswer
<1>2. (\A c \in Connections : ConnInv(c))'
  BY <1>1 DEF connVars, ConnInv, Alive
<1>3. TypeOK' /\ (\A x \in Requests : RequestInv(x))'
  <2>1. ASSUME NEW a \in Asks, Refuse(r, a) PROVE TypeOK' /\ (\A x \in Requests : RequestInv(x))'
    BY <2>1, <1>1 DEF Refuse, connVars
  <2>2. ASSUME NEW a \in Asks, Ask(r, a) PROVE TypeOK' /\ (\A x \in Requests : RequestInv(x))'
    BY <2>2, <1>1 DEF Ask, connVars
  <2>3. CASE Post(r)
    BY <2>3, <1>1 DEF Post, connVars
  <2>4. CASE Return(r)
    BY <2>4, <1>1 DEF Return, connVars
  <2>5. CASE Answer(r)
    <3>1. heard' \in [Requests -> Seq(Outcomes)] /\ \A x \in Requests \ {r} : heard'[x] = heard[x]
      BY <2>5 DEF Answer, Fire
    <3> QED
      BY <2>5, <3>1, <1>1 DEF Answer, connVars
  <2>6. CASE EndAnswer(r)
    BY <2>6, <1>1 DEF EndAnswer, connVars
  <2> QED
    BY <2>1, <2>2, <2>3, <2>4, <2>5, <2>6 DEF Requesting
<1> QED
  BY <1>2, <1>3

LEMMA Preserved == IndInv /\ [Next]_vars => IndInv'
<1> SUFFICES ASSUME IndInv, [Next]_vars PROVE IndInv'
  OBVIOUS
<1>1. CASE EndRaise
  BY <1>1, NobodyAssumption
     DEF EndRaise, IndInv, TypeOK, ConnInv, Alive, RequestInv, connVars, requestVars
<1>2. CASE UNCHANGED vars
  BY <1>2 DEF vars, connVars, requestVars, IndInv, TypeOK, ConnInv, Alive, RequestInv
<1> QED
  BY <1>1, <1>2, LivingPreserves, RequestingPreserves DEF Next

-----------------------------------------------------------------------------
(* The theorems *)

(* What each position of a handle and of a request says of the objects behind
   them. *)
THEOREM Invariance == Spec => []IndInv
<1>1. Init => IndInv
  BY NobodyAssumption DEF Init, IndInv, TypeOK, ConnInv, Alive, RequestInv
<1>2. QED
  BY <1>1, Preserved, PTL DEF Spec

(* The variables of the model keep their types. *)
THEOREM TypeCorrect == Spec => []TypeOK
  BY Invariance, PTL DEF IndInv

(* The observer is there for every callback WebRTC may make, because the
   native connection is destroyed before it; and nothing is raised on behalf
   of a connection whose release has returned. *)
THEOREM ObserverSafety == Spec => []ObserverOutlives
<1>1. IndInv => NoDanglingObserver
  BY DEF IndInv, TypeOK, ConnInv, Alive, NoDanglingObserver
<1>2. IndInv => QuietAfterRelease
  BY DEF IndInv, ConnInv, Alive, QuietAfterRelease
<1>3. QED
  BY <1>1, <1>2, Invariance, PTL DEF ObserverOutlives

(* A completion object exists exactly as long as a call, a pending answer or a
   running handler needs it: never freed too early, never left behind. *)
THEOREM CompletionSafety == Spec => []CompletionLifetime
<1>1. IndInv => CompletionLifetime
  <2> SUFFICES ASSUME IndInv, NEW r \in Requests
               PROVE  refs[r] # {} <=>
                          phase[r] \in {"posting", "posted"} \/ r \in due \/ answering = r
    BY DEF CompletionLifetime
  <2>1. /\ refs[r] \subseteq {"caller", "webrtc"}
        /\ "caller" \in refs[r] <=> phase[r] \in {"posting", "posted"}
        /\ "webrtc" \in refs[r] <=> r \in due \/ answering = r
    BY DEF IndInv, TypeOK, RequestInv
  <2> QED
    BY <2>1
<1>2. QED
  BY <1>1, Invariance, PTL

-----------------------------------------------------------------------------
(* Refinement *)

LEMMA StepRefines ==
    ASSUME IndInv, NEW r \in Requests, Requesting(r)
    PROVE  [Abstract!Next]_Abstract!vars
<1> DEFINE S == [x \in Requests |-> Stage(x)]
           L == [x \in Requests |-> Listens(x)]
<1> USE NobodyAssumption DEF Stage, Listens
<1>0. \A x \in Requests : RequestInv(x)
  BY DEF IndInv
<1>1. ASSUME NEW a \in Asks, Refuse(r, a) PROVE Abstract!Refuse(r)
  <2>1. S' = [S EXCEPT ![r] = "refused"] /\ S[r] = "unused"
    BY <1>1 DEF Refuse, IndInv, TypeOK
  <2>2. a.listens \in SUBSET {"success", "failure"}
    BY DEF Asks, Outcomes
  <2>3. L' = [L EXCEPT ![r] = a.listens]
    BY <1>1 DEF Refuse, IndInv, TypeOK
  <2>4. UNCHANGED heard
    BY <1>1 DEF Refuse
  <2> QED
    BY <2>1, <2>2, <2>3, <2>4 DEF Abstract!Refuse, Abstract!Enter, Abstract!Hands, Abstract!Outcomes
<1>2. ASSUME NEW a \in Asks, Ask(r, a) PROVE Abstract!Accept(r)
  <2>1. S' = [S EXCEPT ![r] = "open"] /\ S[r] = "unused"
    BY <1>0, <1>2 DEF Ask, IndInv, TypeOK, RequestInv
  <2>2. a.listens \in SUBSET {"success", "failure"}
    BY DEF Asks, Outcomes
  <2>3. L' = [L EXCEPT ![r] = a.listens]
    BY <1>2 DEF Ask, IndInv, TypeOK
  <2>4. UNCHANGED heard
    BY <1>2 DEF Ask
  <2> QED
    BY <2>1, <2>2, <2>3, <2>4 DEF Abstract!Accept, Abstract!Enter, Abstract!Hands, Abstract!Outcomes
<1>3. CASE Post(r) \/ Return(r) \/ EndAnswer(r)
  <2>1. UNCHANGED <<asked, heard>>
    BY <1>3 DEF Post, Return, EndAnswer
  <2>2. \A x \in Requests : Stage(x)' = Stage(x)
    <3>1. CASE Post(r)
      BY <1>0, <3>1 DEF Post, IndInv, TypeOK, RequestInv
    <3>2. CASE Return(r)
      BY <1>0, <3>2 DEF Return, IndInv, TypeOK, RequestInv
    <3>3. CASE EndAnswer(r)
      BY <3>3 DEF EndAnswer
    <3> QED
      BY <1>3, <3>1, <3>2, <3>3
  <2>3. S' = S /\ L' = L
    BY <2>1, <2>2
  <2> QED
    BY <2>1, <2>3 DEF Abstract!vars
<1>4. CASE Answer(r)
  <2>1. r \in due /\ phase[r] \in {"posted", "returned"} /\ status[r] # "INVALID_ARG"
        /\ heard[r] = <<>> /\ asked[r] \in Asks
    BY <1>0, <1>4 DEF Answer, IndInv, TypeOK, RequestInv
  <2>2. S[r] = "open" /\ S' = [S EXCEPT ![r] = "answered"]
    BY <2>1, <1>4 DEF Answer, IndInv, TypeOK
  <2>3. L' = L /\ L[r] = asked[r].listens
    BY <2>1, <1>4 DEF Answer
  <2>4. PICK o \in Outcomes : Fire(r, o)
    BY <1>4 DEF Answer
  <2>5. heard' = IF o \in L[r] THEN [heard EXCEPT ![r] = <<o>>] ELSE heard
    BY <2>1, <2>3, <2>4 DEF Fire, IndInv, TypeOK
  <2>6. Abstract!Answer(r)
    BY <2>2, <2>3, <2>5 DEF Abstract!Answer, Abstract!Outcomes, Outcomes
  <2> QED
    BY <2>6 DEF Abstract!Next
<1> QED
  BY <1>1, <1>2, <1>3, <1>4 DEF Requesting, Abstract!Next

(* Every request is answered at most once, by one of the handlers it was given,
   and a refused one never: the model implements OneShot. *)
THEOREM Refinement == Spec => ImplementsOneShot
<1>1. Init => Abstract!Init
  BY NobodyAssumption DEF Init, Abstract!Init, Stage, Listens
<1>2. IndInv /\ [Next]_vars => [Abstract!Next]_Abstract!vars
  <2> SUFFICES ASSUME IndInv, [Next]_vars PROVE [Abstract!Next]_Abstract!vars
    OBVIOUS
  <2>1. ASSUME UNCHANGED requestVars PROVE UNCHANGED Abstract!vars
    BY <2>1 DEF requestVars, Abstract!vars, Stage, Listens
  <2>2. CASE EndRaise \/ (\E c \in Connections : Living(c) \/ Raise(c)) \/ UNCHANGED vars
    BY <2>1, <2>2 DEF EndRaise, Living, Create, CreateNative, Close, Release, DestroyNative,
                      DestroyObserver, Raise, vars
  <2> QED
    BY <2>2, StepRefines DEF Next
<1>3. QED
  BY <1>1, <1>2, Invariance, PTL DEF Spec, ImplementsOneShot, Abstract!Spec

-----------------------------------------------------------------------------
(* IceServers: the splitting of the URLs, for lists of any length *)

(* Where the URLs that start before place n do, and those of them up to place i. *)
Begun(n) == {i \in DOMAIN list : i < n /\ Begins(i)}
UpToPlace(B, i) == {j \in B : j <= i}

(* The loop is at the beginning, behind a comma or behind the end, and has found
   what lies before that place. *)
UrlsInv ==
    /\ list \in Seq(Characters \cup {Comma})
    /\ start \in 0..Finished
    /\ start \in 2..Len(list) + 1 => list[start - 1] = Comma
    /\ urls \in Seq(Seq(Characters \cup {Comma}))
    /\ UrlsExact

(* UrlsExact in these words. *)
LEMMA ExactOf ==
    UrlsExact <=> /\ Len(urls) = Cardinality(Begun(start))
                  /\ \A i \in Begun(start) : urls[Cardinality(UpToPlace(Begun(start), i))] = Run(i)
  BY DEF UrlsExact, Begun, UpToPlace

(* A list of the model is a sequence. *)
LEMMA ListIsSequence ==
    ASSUME NEW l \in Lists
    PROVE  l \in Seq(Characters \cup {Comma})
<1>1. PICK n \in 0..MaxUrls : l \in [1..n -> Characters \cup {Comma}]
  BY DEF Lists
<1> QED
  BY <1>1, CharactersAssumption

(* A set of places has a first one. *)
LEMMA FirstOf ==
    ASSUME NEW S, S \subseteq Nat, S # {}
    PROVE  \E i \in S : \A j \in S : i <= j
<1>1. PICK x \in S : \A y \in S : ~ (<<y, x>> \in OpToRel(<, Nat))
  BY NatLessThanWellFounded, WFMin
<1>2. \A y \in S : ~ (y < x)
  BY <1>1 DEF OpToRel
<1> QED
  BY <1>2

(* list.find: the first comma at start or behind it. *)
LEMMA FindFinds ==
    ASSUME UrlsInv, start \in 1..Len(list) + 1
    PROVE  \/ Find = Npos /\ \A i \in start..Len(list) : list[i] # Comma
           \/ /\ Find \in start..Len(list) /\ list[Find] = Comma
              /\ \A i \in start..Find - 1 : list[i] # Comma
<1> DEFINE commas == {i \in start..Len(list) : list[i] = Comma}
<1>0. Len(list) \in Nat /\ start \in Nat
  BY DEF UrlsInv
<1>1. CASE commas = {}
  BY <1>1 DEF Find
<1>2. CASE commas # {}
  <2>1. \E i \in commas : \A j \in commas : i <= j
    <3>1. commas \subseteq Nat
      BY <1>0
    <3> HIDE DEF commas
    <3> QED
      BY <3>1, <1>2, FirstOf
  <2>2. Find \in commas /\ \A j \in commas : Find <= j
    BY <2>1, <1>2 DEF Find
  <2> QED
    BY <2>2, <1>0
<1> QED
  BY <1>1, <1>2

(* A run of characters up to a comma or the end is what Run chooses. *)
LEMMA RunIs ==
    ASSUME NEW S, list \in Seq(S), NEW s \in 1..Len(list), NEW e \in s..Len(list),
           \A i \in s..e : list[i] # Comma,
           e = Len(list) \/ list[e + 1] = Comma
    PROVE  Run(s) = SubSeq(list, s, e)
<1> DEFINE Good(u) == /\ \A k \in DOMAIN u : u[k] # Comma
                      /\ s + Len(u) > Len(list) \/ list[s + Len(u)] = Comma
           U == {SubSeq(list, s, j) : j \in s..Len(list)}
<1>0. Len(list) \in Nat /\ s \in Nat /\ e \in Nat
  OBVIOUS
<1>1. ASSUME NEW j \in s..Len(list)
      PROVE  /\ Len(SubSeq(list, s, j)) = j - s + 1
             /\ DOMAIN SubSeq(list, s, j) = 1..(j - s + 1)
             /\ \A k \in 1..(j - s + 1) : SubSeq(list, s, j)[k] = list[s + k - 1]
  <2>1. \A i \in s..j : list[i] \in S
    BY <1>0
  <2> QED
    BY <2>1, <1>0, SubSeqProperties, LenProperties
<1>2. Good(SubSeq(list, s, e)) /\ SubSeq(list, s, e) \in U
  <2>1. \A k \in 1..(e - s + 1) : s + k - 1 \in s..e
    BY <1>0
  <2>2. s + (e - s + 1) = e + 1
    BY <1>0
  <2> QED
    BY <1>0, <1>1, <2>1, <2>2
<1>3. ASSUME NEW u \in U, Good(u) PROVE u = SubSeq(list, s, e)
  <2>1. PICK j \in s..Len(list) : u = SubSeq(list, s, j)
    BY <1>3
  <2>2. CASE j < e
    <3>1. s + Len(u) = j + 1 /\ j + 1 \in s..e
      BY <1>0, <1>1, <2>1, <2>2
    <3> QED
      BY <1>0, <1>3, <3>1
  <2>3. CASE j > e
    <3>1. e + 1 \in s..j /\ list[e + 1] = Comma
      BY <1>0, <2>3
    <3>2. e + 1 - s + 1 \in 1..(j - s + 1) /\ s + (e + 1 - s + 1) - 1 = e + 1
      BY <1>0, <3>1
    <3>3. u[e + 1 - s + 1] = Comma /\ e + 1 - s + 1 \in DOMAIN u
      BY <1>1, <2>1, <3>1, <3>2
    <3> QED
      BY <1>3, <3>3
  <2> QED
    BY <1>0, <2>1, <2>2, <2>3
<1>4. Run(s) = CHOOSE u \in U : Good(u)
  BY DEF Run
<1> HIDE DEF U, Good
<1> QED
  BY <1>2, <1>3, <1>4

(* Counting up to a member, when one that is behind all others is added. *)
LEMMA OneMore ==
    ASSUME NEW B, IsFiniteSet(B), B \subseteq Nat, NEW x \in Nat, \A b \in B : b < x
    PROVE  /\ Cardinality(B \cup {x}) = Cardinality(B) + 1
           /\ UpToPlace(B \cup {x}, x) = B \cup {x}
           /\ \A i \in B : UpToPlace(B \cup {x}, i) = UpToPlace(B, i)
<1>1. x \notin B
  OBVIOUS
<1>2. Cardinality(B \cup {x}) = Cardinality(B) + 1
  BY <1>1, FS_AddElement
<1>3. UpToPlace(B \cup {x}, x) = B \cup {x}
  <2>1. \A j \in B \cup {x} : j <= x
    OBVIOUS
  <2> QED
    BY <2>1 DEF UpToPlace
<1>4. ASSUME NEW i \in B PROVE UpToPlace(B \cup {x}, i) = UpToPlace(B, i)
  BY DEF UpToPlace
<1> QED
  BY <1>2, <1>3, <1>4

(* The number of places up to a member is an index into what was found. *)
LEMMA CountIsIndex ==
    ASSUME NEW B, IsFiniteSet(B), NEW i \in B, B \subseteq Nat
    PROVE  Cardinality(UpToPlace(B, i)) \in 1..Cardinality(B)
<1>1. UpToPlace(B, i) \in SUBSET B /\ i \in UpToPlace(B, i)
  BY DEF UpToPlace
<1>2. /\ IsFiniteSet(UpToPlace(B, i))
      /\ Cardinality(UpToPlace(B, i)) <= Cardinality(B)
  BY <1>1, FS_Subset
<1>3. Cardinality(UpToPlace(B, i)) # 0
  BY <1>1, <1>2, FS_EmptySet
<1> QED
  BY <1>2, <1>3, FS_CardinalityType

(* A list has finitely many places. *)
LEMMA BegunIsFinite ==
    ASSUME UrlsInv, NEW n
    PROVE  IsFiniteSet(Begun(n)) /\ Begun(n) \subseteq Nat
<1>1. Begun(n) \in SUBSET (1..Len(list)) /\ Len(list) \in Nat
  BY DEF UrlsInv, Begun
<1>2. IsFiniteSet(1..Len(list))
  BY <1>1, FS_Interval
<1> QED
  BY <1>1, <1>2, FS_Subset

(* One round of the loop: up to the next comma there is one URL, which began at
   start, or nothing between two commas, and then none began there. *)
LEMMA SplitKeeps ==
    ASSUME UrlsInv, SplitOne
    PROVE  UrlsInv'
<1> DEFINE L == Len(list)
           S == Characters \cup {Comma}
           end == IF Find = Npos THEN L ELSE Find - 1
           url == SubSeq(list, start, end)
           B == Begun(start)
<1>0. /\ list \in Seq(S) /\ L \in Nat /\ start \in 1..L + 1
      /\ urls \in Seq(Seq(S)) /\ UNCHANGED list
      /\ start > 1 => list[start - 1] = Comma
  BY DEF UrlsInv, SplitOne
<1>1. /\ urls' = IF url = <<>> THEN urls ELSE Append(urls, url)
      /\ start' = IF Find = Npos THEN Finished ELSE Find + 1
  BY DEF SplitOne
<1>2. /\ end \in start - 1..L
      /\ \A i \in start..end : list[i] # Comma
      /\ end = L \/ list[end + 1] = Comma
      /\ start' = end + 2
      /\ start' \in 2..L + 1 => list[start' - 1] = Comma
      /\ start' \in 0..L + 2
  <2>1. CASE Find = Npos
    <3>1. \A i \in start..L : list[i] # Comma
      BY <1>0, <2>1, FindFinds DEF Npos
    <3>2. end = L /\ start' = L + 2
      BY <1>1, <2>1 DEF Finished
    <3> QED
      BY <1>0, <3>1, <3>2
  <2>2. CASE Find # Npos
    <3>1. Find \in start..L /\ list[Find] = Comma /\ \A i \in start..Find - 1 : list[i] # Comma
      BY <1>0, <2>2, FindFinds
    <3>2. end = Find - 1 /\ start' = Find + 1
      BY <1>1, <2>2
    <3>3. end + 1 = Find /\ start' - 1 = Find /\ start' = end + 2 /\ end \in start - 1..L
      BY <1>0, <3>1, <3>2
    <3> HIDE DEF end
    <3> QED
      BY <1>0, <3>1, <3>2, <3>3
  <2> QED
    BY <2>1, <2>2
<1>3. IsFiniteSet(B) /\ B \subseteq Nat /\ \A b \in B : b < start
  BY BegunIsFinite DEF Begun
<1>4. Begun(start)' = {i \in DOMAIN list : i < start' /\ Begins(i)}
  BY <1>0 DEF Begun, Begins
<1>5. \A i : Run(i)' = Run(i)
  BY <1>0 DEF Run
<1>6. Len(urls) = Cardinality(B)
      /\ \A i \in B : urls[Cardinality(UpToPlace(B, i))] = Run(i)
  BY ExactOf DEF UrlsInv
<1>7. CASE end < start
  <2>1. end = start - 1
    BY <1>0, <1>2, <1>7
  <2>2. url = <<>>
    BY <1>0, <1>7, <2>1, SubSeqEmpty
  <2>3. Begun(start)' = B
    <3>1. start \in DOMAIN list => ~Begins(start)
      BY <1>0, <1>2, <2>1 DEF Begins
    <3> QED
      BY <1>0, <1>2, <1>4, <2>1, <3>1 DEF Begun
  <2>4. UrlsExact'
    BY <1>1, <1>5, <1>6, <2>2, <2>3, ExactOf DEF UpToPlace, UrlsExact, Begun
  <2> QED
    BY <1>0, <1>1, <1>2, <2>2, <2>4 DEF UrlsInv, Finished
<1>8. CASE end >= start
  <2>1. start \in 1..L /\ end \in start..L
    BY <1>0, <1>2, <1>8
  <2>2. /\ url \in Seq(S) /\ Len(url) = end - start + 1
    <3>1. \A i \in start..end : list[i] \in S
      BY <1>0, <2>1
    <3> QED
      BY <1>0, <2>1, <3>1, SubSeqProperties
  <2>3. url # <<>>
    <3>1. Len(url) >= 1
      BY <1>0, <2>1, <2>2
    <3> HIDE DEF url
    <3> QED
      BY <3>1
  <2>4. urls' = Append(urls, url) /\ Len(urls') = Len(urls) + 1 /\ urls' \in Seq(Seq(S))
        /\ urls'[Len(urls) + 1] = url /\ \A k \in 1..Len(urls) : urls'[k] = urls[k]
    BY <1>0, <1>1, <2>2, <2>3, AppendProperties
  <2>5. Begun(start)' = B \cup {start}
    <3>1. Begins(start)
      BY <1>0, <1>2, <2>1 DEF Begins
    <3>2. ASSUME NEW i \in DOMAIN list, i > start, i < end + 2 PROVE ~Begins(i)
      <4>0. i \in 1..L /\ i - 1 \in start..end
        BY <1>0, <1>2, <2>1, <3>2
      <4>1. CASE i <= end
        <5>1. list[i - 1] # Comma /\ i # 1
          BY <1>0, <1>2, <2>1, <4>0
        <5> QED
          BY <5>1 DEF Begins
      <4>2. CASE i = end + 1
        <5>1. list[i] = Comma
          <6>1. end # L
            BY <1>0, <2>1, <4>0, <4>2
          <6> QED
            BY <1>2, <4>2, <6>1
        <5> QED
          BY <5>1 DEF Begins
      <4> QED
        BY <1>0, <2>1, <3>2, <4>0, <4>1, <4>2
    <3>3. DOMAIN list = 1..L
      BY <1>0
    <3> QED
      BY <1>0, <1>2, <1>4, <2>1, <3>1, <3>2, <3>3 DEF Begun
  <2>6. /\ Cardinality(B \cup {start}) = Cardinality(B) + 1
        /\ UpToPlace(B \cup {start}, start) = B \cup {start}
        /\ \A i \in B : UpToPlace(B \cup {start}, i) = UpToPlace(B, i)
    <3>1. start \in Nat
      BY <1>0
    <3> HIDE DEF B
    <3> QED
      BY <1>3, <3>1, OneMore
  <2>7. Run(start) = url
    BY <1>0, <1>2, <2>1, RunIs
  <2>8. ASSUME NEW i \in B \cup {start}
        PROVE  urls'[Cardinality(UpToPlace(B \cup {start}, i))] = Run(i)
    <3>1. CASE i = start
      BY <1>6, <2>4, <2>6, <2>7, <3>1
    <3>2. CASE i \in B
      <4>1. Cardinality(UpToPlace(B, i)) \in 1..Len(urls)
        BY <1>3, <1>6, <3>2, CountIsIndex
      <4> QED
        BY <1>6, <2>4, <2>6, <3>2, <4>1
    <3> QED
      BY <3>1, <3>2
  <2>9. UrlsExact'
    <3>1. Len(urls)' = Cardinality(Begun(start)')
      BY <1>6, <2>4, <2>5, <2>6
    <3>2. \A i \in Begun(start)' : urls'[Cardinality(UpToPlace(Begun(start)', i))] = Run(i)'
      BY <1>5, <2>5, <2>8
    <3> QED
      BY <3>1, <3>2 DEF UrlsExact, Begun, UpToPlace
  <2> QED
    BY <1>0, <1>2, <2>4, <2>9 DEF UrlsInv, Finished
<1> QED
  BY <1>0, <1>2, <1>7, <1>8

(* Before the first round no URL has begun and none was found. *)
LEMMA NothingBegun ==
    ASSUME list \in Seq(Characters \cup {Comma}), start \in {0, 1}, urls = <<>>
    PROVE  UrlsInv
<1>1. Len(list) \in Nat /\ DOMAIN list = 1..Len(list)
  OBVIOUS
<1>2. Begun(start) = {}
  BY <1>1 DEF Begun
<1>3. UrlsExact
  BY <1>2, ExactOf, FS_EmptySet
<1> QED
  BY <1>1, <1>3 DEF UrlsInv, Finished

(* BeginServer and Blank make this true. *)
NotBegun == list \in Seq(Characters \cup {Comma}) /\ start \in {0, 1} /\ urls = <<>>

LEMMA NothingBegunNext == NotBegun' => UrlsInv'
<1>1. NotBegun => UrlsInv
  BY NothingBegun DEF NotBegun
<1> QED
  BY <1>1, PTL
(* Every step of IceNext keeps the loop's invariant. *)
LEMMA UrlsInvStep ==
    ASSUME UrlsInv, [IceNext]_iceVars
    PROVE  UrlsInv'
<1>1. CASE BeginServer
  <2>1. list' \in Seq(Characters \cup {Comma}) /\ start' = 1 /\ urls' = <<>>
    BY <1>1, ListIsSequence DEF BeginServer
  <2> QED
    BY <2>1, NothingBegunNext DEF NotBegun
<1>2. CASE SplitOne
  BY <1>2, SplitKeeps
<1>3. CASE Blank
  <2>1. list' \in Seq(Characters \cup {Comma}) /\ start' = 0 /\ urls' = <<>>
    BY <1>3 DEF Blank
  <2> QED
    BY <2>1, NothingBegunNext DEF NotBegun
<1>4. CASE UNCHANGED config
  <2>1. list' = list /\ start' = start /\ urls' = urls
    BY <1>4 DEF config
  <2>2. \A i : Begins(i)' <=> Begins(i)
    BY <2>1 DEF Begins
  <2>3. \A i : Run(i)' = Run(i)
    BY <2>1 DEF Run
  <2>4. UrlsExact' <=> UrlsExact
    BY <2>1, <2>2, <2>3 DEF UrlsExact
  <2> QED
    BY <2>1, <2>4 DEF UrlsInv, Finished
<1> QED
  BY <1>1, <1>2, <1>3, <1>4 DEF IceNext, CreateConfigured, GiveUp, iceVars

(* However long the list and wherever its commas are, WebRTC is given its URLs,
   each whole, once and in order: the loop of rtc_peer_connection_create. *)
THEOREM UrlsSplit == IceSpec => []UrlsExact
<1>1. IceInit => UrlsInv
  <2> SUFFICES ASSUME IceInit PROVE UrlsInv
    OBVIOUS
  <2>1. list \in Seq(Characters \cup {Comma}) /\ start = 0 /\ urls = <<>>
    BY DEF IceInit
  <2> QED
    BY <2>1, NothingBegun
<1>2. UrlsInv /\ [IceNext]_iceVars => UrlsInv'
  BY UrlsInvStep
<1>3. UrlsInv => UrlsExact
  BY DEF UrlsInv
<1> QED
  BY <1>1, <1>2, <1>3, PTL DEF IceSpec

(* A step of IceNext is a step of the connections or leaves them alone. *)
LEMMA ConfiguredStep ==
    ASSUME [IceNext]_iceVars
    PROVE  [Next]_vars
<1>1. CASE BeginServer \/ SplitOne \/ GiveUp \/ UNCHANGED iceVars
  BY <1>1 DEF BeginServer, SplitOne, GiveUp, iceVars
<1>2. ASSUME NEW c \in Connections, CreateConfigured(c)
      PROVE  Next
  BY <1>2 DEF CreateConfigured, Next, Living
<1>3. CASE Connected
  BY <1>3 DEF Connected, Next, Living
<1> QED
  BY <1>1, <1>2, <1>3 DEF IceNext

(* Splitting the URLs of a configuration never touches a connection, a request
   or an observer: with it, PeerConnection is what it is without. *)
THEOREM ConfiguredRefinement == IceSpec => Spec
<1>1. IceInit => Init
  BY DEF IceInit
<1>2. [IceNext]_iceVars => [Next]_vars
  BY ConfiguredStep
<1> QED
  BY <1>1, <1>2, PTL DEF IceSpec, Spec

(* So what was proved of PeerConnection holds of connections that are created
   with servers, which is the specification TLC runs. *)
THEOREM ConfiguredSafety ==
    IceSpec => [](ObserverOutlives /\ CompletionLifetime) /\ ImplementsOneShot
  BY ConfiguredRefinement, ObserverSafety, CompletionSafety, Refinement, PTL
=============================================================================
