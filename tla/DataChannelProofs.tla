------------------------- MODULE DataChannelProofs -------------------------
(***************************************************************************)
(* The observers of a data channel, for any number of them and any length  *)
(* of queue: none is called or left to be called after it was freed, none  *)
(* is lost, none misses the state the channel is in, and registering one   *)
(* keeps Subscription's promise.                                           *)
(***************************************************************************)
EXTENDS DataChannel, SequenceTheorems, TLAPS

(* Where the handle's observer is at each point of a call, and which one the
   channel knows. *)
PlaceInv ==
    /\ pc \in {"unregister", "reset", "dying", "dead"} => slot # NoObserver
    /\ pc \in {"none", "install", "register", "store", "gone"} => slot = NoObserver
    /\ fresh # NoObserver <=> pc \in {"register", "store"}
    /\ registered = IF pc = "store" THEN fresh
                    ELSE IF pc \in {"reset", "dead", "install", "register"} THEN NoObserver
                    ELSE slot
    /\ \A o \in Observers : memory[o] = "live" <=> o \in {slot, fresh}

(* A callback is one of the registered observer, and none runs inside
   on_data_channel. *)
CallInv == called # NoObserver => called = registered /\ ~inside

IndInv == TypeOK /\ PlaceInv /\ CallInv /\ NothingMissed

-----------------------------------------------------------------------------
(* Every step preserves IndInv. *)

LEMMA QueueUnchanged ==
    ASSUME IndInv, UNCHANGED <<registered, queue, state, known>>
    PROVE  NothingMissed'
  BY DEF IndInv, NothingMissed

(* The steps of a call that leave the channel as it is. *)
HandleStep ==
    \/ CreateDataChannel \/ OnDataChannel \/ EndOnDataChannel \/ Release \/ Destroy
    \/ (\E w \in {"null", "new"} : SetObserver(w))
    \/ Reset \/ Install \/ Store \/ Send

LEMMA HandlePreserves ==
    ASSUME IndInv, HandleStep
    PROVE  IndInv'
<1> USE ChannelAssumption
    DEF IndInv, TypeOK, PlaceInv, CallInv, Positions, Returns,
        FreeObserver, Connecting, Open, Closing, Closed, HandleStep, CreateDataChannel,
        OnDataChannel, EndOnDataChannel, Release, Destroy, SetObserver, Reset, Install,
        Store, Send, channelVars
<1>1. UNCHANGED channelVars
  OBVIOUS
<1>2. NothingMissed'
  BY <1>1, QueueUnchanged
<1>3. TypeOK'
  <2>1. inside' \in BOOLEAN
    OBVIOUS
  <2>2. pc' \in Positions /\ want' \in {"null", "new"}
        /\ status' \in {"OK", "INVALID_STATE", "INTERNAL"}
    OBVIOUS
  <2>3. /\ slot' \in Observers \cup {NoObserver} /\ fresh' \in Observers \cup {NoObserver}
        /\ memory' \in [Observers -> {"unborn", "live", "freed"}]
    OBVIOUS
  <2> QED
    BY <1>1, <2>1, <2>2, <2>3
<1>4. PlaceInv'
  BY <1>1
<1>5. CallInv'
  BY <1>1
<1> QED
  BY ONLY <1>2, <1>3, <1>4, <1>5 DEF IndInv

(* A change of state is on its way to whoever is registered, anything else
   leaves those changes in the queue. *)
LEMMA Notified ==
    ASSUME IndInv, NEW kind \in {"state", "message", "amount"}, Notify(kind),
           UNCHANGED <<registered, known>>, kind = "state" \/ UNCHANGED state
    PROVE  NothingMissed' /\ queue' \in Seq(Events)
<1> USE DEF IndInv, TypeOK
<1>1. CASE registered = NoObserver
  BY <1>1 DEF Notify, NothingMissed
<1>2. CASE registered # NoObserver
  <2> DEFINE e == [to |-> registered, kind |-> kind]
  <2>1. e \in Events /\ queue' = Append(queue, e)
    BY <1>2 DEF Events, Notify
  <2>2. /\ queue' \in Seq(Events) /\ DOMAIN queue' = 1..Len(queue) + 1
        /\ queue'[Len(queue) + 1] = e /\ \A i \in DOMAIN queue : queue'[i] = queue[i]
        /\ DOMAIN queue = 1..Len(queue) /\ Len(queue) \in Nat
    <3> HIDE DEF e
    <3>1. queue \in Seq(Events)
      OBVIOUS
    <3> QED
      BY ONLY <2>1, <3>1, AppendProperties
  <2>3. CASE kind = "state"
    <3>1. Len(queue) + 1 \in DOMAIN queue' /\ e.to = registered' /\ e.kind = "state"
      BY <2>2, <2>3
    <3> HIDE DEF e
    <3> QED
      BY <2>2, <3>1 DEF NothingMissed
  <2>4. CASE kind # "state"
    <3>1. e.kind # "state" /\ UNCHANGED <<registered, known, state>>
      BY <2>4
    <3>2. \A i \in DOMAIN queue : i \in DOMAIN queue' /\ queue'[i] = queue[i]
      BY <2>2
    <3> HIDE DEF e
    <3> QED
      BY <2>2, <3>1, <3>2 DEF NothingMissed
  <2> QED
    BY <2>2, <2>3, <2>4
<1> QED
  BY <1>1, <1>2

(* What the handle's observers are does not change when the channel does. *)
LEMMA ChannelPreserves ==
    ASSUME IndInv, SendAsync \/ Close \/ Transition \/ Receive \/ Drain
    PROVE  IndInv'
<1> USE ChannelAssumption
    DEF IndInv, TypeOK, PlaceInv, CallInv, Positions, Returns,
        Connecting, Open, Closing, Closed, handleVars, channelVars
<1>1. CASE SendAsync
  <2>1. NothingMissed'
    BY <1>1, QueueUnchanged DEF SendAsync
  <2> QED
    BY <1>1, <2>1 DEF SendAsync
<1>2. CASE Close
  <2>1. CASE state < Closing
    <3>1. NothingMissed' /\ queue' \in Seq(Events)
      BY <1>2, <2>1, Notified DEF Close, Becomes
    <3> QED
      BY <1>2, <2>1, <3>1 DEF Close, Becomes
  <2>2. CASE ~(state < Closing)
    <3>1. NothingMissed'
      BY <1>2, <2>2, QueueUnchanged DEF Close
    <3> QED
      BY <1>2, <2>2, <3>1 DEF Close
  <2> QED
    BY <2>1, <2>2
<1>3. CASE Transition
  <2>1. PICK s \in Connecting..Closed : s > state /\ Becomes(s)
    BY <1>3 DEF Transition
  <2>2. NothingMissed' /\ queue' \in Seq(Events)
    BY <2>1, Notified DEF Becomes
  <2> QED
    BY <1>3, <2>1, <2>2 DEF Transition, Becomes
<1>4. CASE Receive
  <2>1. NothingMissed' /\ queue' \in Seq(Events)
    BY <1>4, Notified DEF Receive
  <2> QED
    BY <1>4, <2>1 DEF Receive
<1>5. CASE Drain
  <2>1. NothingMissed' /\ queue' \in Seq(Events)
    BY <1>5, Notified DEF Drain
  <2> QED
    BY <1>5, <2>1 DEF Drain
<1> QED
  BY <1>1, <1>2, <1>3, <1>4, <1>5

(* The steps that change which observer the channel knows or is calling. *)
LEMMA CallbackPreserves ==
    ASSUME IndInv, Unregister \/ Register \/ Deliver \/ EndCallback
    PROVE  IndInv'
<1> USE ChannelAssumption
    DEF IndInv, TypeOK, PlaceInv, CallInv, Positions,
        Connecting, Open, Closing, Closed, handleVars, channelVars
<1>1. CASE Unregister
  <2>1. called = NoObserver
    BY <1>1 DEF Unregister, SignallingThreadFree
  <2>2. NothingMissed'
    BY <1>1 DEF Unregister, NothingMissed
  <2> QED
    BY <1>1, <2>1, <2>2 DEF Unregister
<1>2. CASE Register
  <2>1. called = NoObserver /\ fresh \in Observers
    BY <1>2 DEF Register, SignallingThreadFree
  <2>2. NothingMissed'
    BY <1>2, <2>1 DEF Register, NothingMissed
  <2> QED
    BY <1>2, <2>1, <2>2 DEF Register
<1>3. CASE Deliver
  <2> DEFINE e == Head(queue)
  <2>1. queue \in Seq(Events) /\ queue # <<>> /\ called = NoObserver /\ ~inside
    BY <1>3 DEF Deliver
  <2>2. /\ e \in Events /\ Tail(queue) \in Seq(Events)
        /\ e = queue[1] /\ DOMAIN queue = 1..Len(queue)
        /\ \A i \in DOMAIN queue : i # 1 =>
              i - 1 \in DOMAIN Tail(queue) /\ Tail(queue)[i - 1] = queue[i]
    BY ONLY <2>1
  <2>3. queue' = Tail(queue) /\ UNCHANGED <<handleVars, memory, registered, state, buffered>>
    BY <1>3 DEF Deliver
  <2>4. CASE e.to = registered
    <3>1. called' = registered /\ registered \in Observers
          /\ known' = IF e.kind = "state" THEN [known EXCEPT ![registered] = state] ELSE known
      BY <1>3, <2>2, <2>4 DEF Deliver, Callback, Events
    <3> HIDE DEF e
    <3>2. NothingMissed'
      <4>1. CASE e.kind = "state"
        BY <2>3, <3>1, <4>1 DEF NothingMissed
      <4>2. CASE e.kind # "state"
        <5> SUFFICES ASSUME \A i \in DOMAIN Tail(queue) :
                                Tail(queue)[i].to = registered => Tail(queue)[i].kind # "state"
                     PROVE  known[registered] = state
          BY <2>3, <3>1, <4>2 DEF NothingMissed
        <5>1. ASSUME NEW i \in DOMAIN queue, queue[i].to = registered
              PROVE  queue[i].kind # "state"
          <6>1. CASE i = 1
            BY <2>2, <4>2, <6>1
          <6>2. CASE i # 1
            <7>1. i - 1 \in DOMAIN Tail(queue) /\ Tail(queue)[i - 1] = queue[i]
              BY ONLY <2>2, <5>1, <6>2
            <7> QED
              BY <5>1, <7>1
          <6> QED
            BY <6>1, <6>2
        <5> QED
          BY <3>1, <5>1 DEF NothingMissed
      <4> QED
        BY <4>1, <4>2
    <3> QED
      BY <2>1, <2>2, <2>3, <3>1, <3>2
  <2>5. CASE e.to # registered
    <3>1. UNCHANGED <<called, known>>
      BY <1>3, <2>5 DEF Deliver
    <3> HIDE DEF e
    <3>2. NothingMissed'
      <4> SUFFICES ASSUME \A i \in DOMAIN Tail(queue) :
                              Tail(queue)[i].to = registered => Tail(queue)[i].kind # "state",
                          registered # NoObserver
                   PROVE  known[registered] = state
        BY <2>3, <3>1 DEF NothingMissed
      <4>1. \A i \in DOMAIN queue : queue[i].to = registered => queue[i].kind # "state"
        BY <2>2, <2>5
      <4> QED
        BY <4>1 DEF NothingMissed
    <3> QED
      BY <2>1, <2>2, <2>3, <3>1, <3>2
  <2> QED
    BY <2>4, <2>5
<1>4. CASE EndCallback
  <2>1. NothingMissed'
    BY <1>4, QueueUnchanged DEF EndCallback
  <2> QED
    BY <1>4, <2>1 DEF EndCallback
<1> QED
  BY <1>1, <1>2, <1>3, <1>4

LEMMA Preserved == IndInv /\ [Next]_vars => IndInv'
<1> SUFFICES ASSUME IndInv, [Next]_vars PROVE IndInv'
  OBVIOUS
<1>1. CASE UNCHANGED vars
  BY <1>1 DEF vars, handleVars, channelVars, IndInv, TypeOK, PlaceInv, CallInv,
              NothingMissed
<1> QED
  BY <1>1, HandlePreserves, ChannelPreserves, CallbackPreserves DEF Next, Calling, HandleStep

-----------------------------------------------------------------------------
(* The theorems *)

(* Where the handle's observers are at each point of its calls, and what they
   know of the channel. *)
THEOREM Invariance == Spec => []IndInv
<1>1. Init => IndInv
  <2> USE ChannelAssumption DEF Init, Connecting, Open, Closing, Closed
  <2>1. Init => TypeOK
    <3>1. <<>> \in Seq(Events) /\ [o \in Observers |-> 0] \in [Observers -> 0..3]
      OBVIOUS
    <3>2. Init => inside \in BOOLEAN
      OBVIOUS
    <3>3. Init => /\ pc \in Positions /\ want \in {"null", "new"}
                  /\ status \in {"OK", "INVALID_STATE", "INTERNAL"}
                  /\ memory \in [Observers -> {"unborn", "live", "freed"}]
      BY DEF Positions
    <3> QED
      BY <3>1, <3>2, <3>3 DEF TypeOK
  <2>2. Init => PlaceInv /\ CallInv /\ NothingMissed
    BY DEF PlaceInv, CallInv, NothingMissed
  <2> QED
    BY <2>1, <2>2 DEF IndInv
<1>2. QED
  BY <1>1, Preserved, PTL DEF Spec

(* The variables keep their types; the state never leaves the four there are. *)
THEOREM TypeCorrect == Spec => []TypeOK
  BY Invariance, PTL DEF IndInv

(* Replacing, clearing and releasing, and set_observer calls that fail, leave
   no observer behind that is freed and called or live and forgotten. *)
THEOREM ObserverSafety == Spec => []ObserverLifetime
<1>1. IndInv => NoDanglingObserver
  BY DEF IndInv, TypeOK, PlaceInv, CallInv, NoDanglingObserver
<1>2. IndInv => ObserverOwned
  BY DEF IndInv, PlaceInv, ObserverOwned
<1>3. QED
  BY <1>1, <1>2, Invariance, PTL DEF ObserverLifetime

(* Once its notifications have arrived, a registered observer knows the state
   the channel is in, however long the queue was. *)
THEOREM UpToDate == Spec => []NothingMissed
  BY Invariance, PTL DEF IndInv

(* Observers are called only between registration and removal, and removal
   waits for the call in progress: the model implements Subscription. *)
THEOREM Refinement == Spec => ImplementsSubscription
<1> DEFINE Over == {o \in Observers : o # registered /\
                      (memory[o] = "freed" \/ (slot = o /\ pc \in {"reset", "dead"}))}
<1>1. Init => Abstract!Init
  BY ChannelAssumption DEF Init, Abstract!Init
<1>2. IndInv /\ [Next]_vars => [Abstract!Next]_Abstract!vars
  <2> SUFFICES ASSUME IndInv, [Next]_vars PROVE [Abstract!Next]_Abstract!vars
    OBVIOUS
  <2> USE ChannelAssumption DEF IndInv, TypeOK, PlaceInv, CallInv
  <2>1. CASE Unregister
    <3>1. called = NoObserver /\ slot \in Observers /\ registered = slot /\ registered' = NoObserver
          /\ pc' = (IF pc = "unregister" THEN "reset" ELSE "dead") /\ pc \in {"unregister", "dying"}
          /\ UNCHANGED <<slot, memory, called>>
      BY <2>1 DEF Unregister, SignallingThreadFree
    <3>2. PICK k \in Observers : k = slot
      BY <3>1
    <3>3. Over' = Over \cup {k}
      BY <3>1, <3>2
    <3>4. /\ {registered} \ {NoObserver} = {k} /\ {registered'} \ {NoObserver} = {}
          /\ {called} \ {NoObserver} = {} /\ {called'} \ {NoObserver} = {}
      BY <3>1, <3>2
    <3>5. Abstract!Unsubscribe(k)
      BY <3>3, <3>4 DEF Abstract!Unsubscribe
    <3> QED
      BY <3>5 DEF Abstract!Next
  <2>2. CASE Register
    <3>1. fresh \in Observers /\ memory[fresh] = "live" /\ slot = NoObserver
          /\ registered = NoObserver /\ registered' = fresh /\ UNCHANGED <<slot, memory, called>>
      BY <2>2 DEF Register
    <3>2. Over' = Over /\ fresh \notin Over
      BY <3>1
    <3>3. Abstract!Subscribe(fresh)
      BY <3>1, <3>2 DEF Abstract!Subscribe
    <3> QED
      BY <3>1, <3>3 DEF Abstract!Next
  <2>3. CASE Deliver
    <3>1. called = NoObserver /\ UNCHANGED <<registered, slot, pc, memory>>
          /\ called' \in {registered, NoObserver}
      BY <2>3 DEF Deliver, Callback, handleVars
    <3>2. CASE called' = NoObserver
      BY <3>1, <3>2 DEF Abstract!vars
    <3>3. CASE called' = registered /\ registered # NoObserver
      <4>1. Abstract!Notify(registered) /\ registered \in Observers
        BY <3>1, <3>3 DEF Abstract!Notify
      <4> QED
        BY <4>1 DEF Abstract!Next
    <3> QED
      BY <3>1, <3>2, <3>3
  <2>4. CASE EndCallback
    <3>1. Abstract!Done(called) /\ called \in Observers
      BY <2>4 DEF EndCallback, handleVars, Abstract!Done
    <3> QED
      BY <3>1 DEF Abstract!Next
  <2>5. CASE HandleStep
    <3>1. UNCHANGED <<registered, called>>
      BY <2>5 DEF HandleStep, CreateDataChannel, OnDataChannel, EndOnDataChannel, Release, Destroy,
                  SetObserver, Reset, Install, Store, Send, channelVars
    <3>2. Over' = Over
      BY <2>5, <3>1
         DEF HandleStep, CreateDataChannel, OnDataChannel, EndOnDataChannel, Release, Destroy,
             SetObserver, Reset, Install, Store, Send, Returns, FreeObserver
    <3> QED
      BY <3>1, <3>2 DEF Abstract!vars
  <2>6. CASE SendAsync \/ Close \/ Transition \/ Receive \/ Drain \/ UNCHANGED vars
    <3>1. UNCHANGED <<registered, called, slot, memory>>
          /\ (pc' \in {"reset", "dead"} <=> pc \in {"reset", "dead"})
      BY <2>6 DEF SendAsync, Close, Transition, Receive, Drain, Becomes, Returns, vars,
                  handleVars, channelVars
    <3> QED
      BY <3>1 DEF Abstract!vars
  <2> QED
    BY <2>1, <2>2, <2>3, <2>4, <2>5, <2>6 DEF Next, Calling, HandleStep
<1>3. QED
  BY <1>1, <1>2, Invariance, PTL DEF Spec, ImplementsSubscription, Abstract!Spec
=============================================================================
