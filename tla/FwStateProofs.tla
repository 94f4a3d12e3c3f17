--------------------------- MODULE FwStateProofs ---------------------------
(***************************************************************************)
(* Proofs about what the driver believes the firmware holds (FwState.tla), *)
(* for any number of stations, flows and entries: the table of agreements  *)
(* and its count are what the stations' flows add up to, what the driver   *)
(* has on record the firmware does, and the interface of a radar report is *)
(* not freed before it.                                                    *)
(***************************************************************************)
EXTENDS FwState, FiniteSetTheorems, TLAPS

-----------------------------------------------------------------------------
(* Types. *)

LEMMA InitType == Init => RecordType
<1> SUFFICES ASSUME Init PROVE RecordType
  OBVIOUS
<1>1. TwtType
  <2>1. flows \in [Flows -> Entries \cup {None}]
    BY DEF Init
  <2>2. /\ table \subseteq Entries /\ leaked \subseteq Entries
        /\ agreed \subseteq Entries /\ present \subseteq Stas
    BY DEF Init
  <2>3. stale \subseteq Flows /\ unsure \subseteq Flows
    BY DEF Init
  <2>4. nAgrt \in 0..255
    BY DEF Init
  <2>5. crossed \in BOOLEAN
    BY DEF Init
  <2> QED
    BY <2>1, <2>2, <2>3, <2>4, <2>5 DEF TwtType
<1>2. RddType
  BY DEF Init, RddType
<1>3. call \in Calls
  BY DEF Init, Calls
<1> QED
  BY <1>1, <1>2, <1>3 DEF Init, RecordType

LEMMA NoCallCalls == NoCall \in Calls /\ [op |-> "disarm"] \in Calls
  BY DEF Calls

LEMMA DeleteCalls ==
  ASSUME NEW x \in Flows, NEW l \in BOOLEAN
  PROVE  Delete(x, l) \in Calls
  BY DEF Delete, Calls

LEMMA AddCalls ==
  ASSUME NEW x \in Flows, NEW e \in Entries
  PROVE  [op |-> "add", flow |-> x, entry |-> e] \in Calls
  BY DEF Calls

LEMMA ArmCalls ==
  ASSUME NEW v \in BOOLEAN
  PROVE  [op |-> "arm", vif |-> v] \in Calls
  BY DEF Calls

(* Only a command in flight has a flow. *)
LEMMA CallFlow ==
  ASSUME call \in Calls
  PROVE  /\ call.op \in {"add", "delete"} => call.flow \in Flows
         /\ call.op = "add" => call.entry \in Entries
         /\ call.op = "delete" => call.leaving \in BOOLEAN
         /\ call.op = "arm" => call.vif \in BOOLEAN
  BY DEF Calls, NoCall

LEMMA SameTwt == TwtType /\ UNCHANGED twt => TwtType'
  BY DEF TwtType, twt

LEMMA SameRdd == RddType /\ UNCHANGED rdd => RddType'
  BY DEF RddType, rdd

LEMMA EvalType ==
  ASSUME RddType, call \in Calls, NEW c, NEW v \in BOOLEAN, Eval(c, v)
  PROVE  RddType' /\ call' \in Calls
  BY NoCallCalls, ArmCalls, SameRdd DEF Eval, Disarm, RddType, rdd

LEMMA DeletedType ==
  ASSUME TwtType, NEW x \in Flows, NEW ok \in BOOLEAN, NEW did \in BOOLEAN
  PROVE  /\ Cleared(ok, x) => table' \subseteq Entries /\ nAgrt' \in 0..255
         /\ FirmwareDeleted(did, x) => agreed' \subseteq Entries /\ crossed' \in BOOLEAN
         /\ FlowDeleted(ok, x) => /\ flows' \in [Flows -> Entries \cup {None}]
                                  /\ stale' \subseteq Flows /\ unsure' \subseteq Flows
  <1>1. (nAgrt + 255) % 256 \in 0..255
    BY DEF TwtType
  <1>2. Cleared(ok, x) => table' \subseteq Entries /\ nAgrt' \in 0..255
    BY <1>1 DEF TwtType, Cleared
  <1>3. FirmwareDeleted(did, x) => agreed' \subseteq Entries /\ crossed' \in BOOLEAN
    BY DEF TwtType, FirmwareDeleted
  <1>4. FlowDeleted(ok, x) => /\ flows' \in [Flows -> Entries \cup {None}]
                              /\ stale' \subseteq Flows /\ unsure' \subseteq Flows
    BY DEF TwtType, FlowDeleted
  <1> QED
    BY <1>2, <1>3, <1>4

LEMMA TypeStep == RecordType /\ [Next]_vars => RecordType'
<1> SUFFICES ASSUME RecordType, [Next]_vars PROVE RecordType'
  OBVIOUS
<1>0. part' = part
  BY DEF Next, vars
<1>1. ASSUME NEW s \in Stas, Setup(s) PROVE RecordType'
  <2>1. call' \in Calls
    BY <1>1, AddCalls DEF Setup, Flows
  <2> QED
    BY <1>0, <1>1, <2>1, SameTwt, SameRdd DEF Setup, RecordType
<1>2. ASSUME NEW s \in Stas, StaAdd(s) PROVE RecordType'
  <2>1. TwtType'
    BY <1>2 DEF StaAdd, RecordType, TwtType
  <2> QED
    BY <1>0, <1>2, <2>1, SameRdd DEF StaAdd, RecordType
<1>3. ASSUME NEW s \in Stas, StaRemove(s) PROVE RecordType'
  <2>1. call' \in Calls
    BY <1>3, DeleteCalls DEF StaRemove, Flows, RecordType
  <2>2. TwtType'
    BY <1>3 DEF StaRemove, RecordType, TwtType
  <2> QED
    BY <1>0, <1>3, <2>1, <2>2, SameRdd DEF StaRemove, RecordType
<1>4. ASSUME NEW x \in Flows, Teardown(x) PROVE RecordType'
  BY <1>0, <1>4, DeleteCalls, SameTwt, SameRdd DEF Teardown, RecordType
<1>5. ASSUME NEW c \in Channels, AddChanctx(c) \/ ApChanged(c) PROVE RecordType'
  BY <1>0, <1>5, EvalType, SameTwt DEF AddChanctx, ApChanged, RecordType
<1>6. ASSUME Radar \/ ApAdd \/ ApRemove \/ VifFreed PROVE RecordType'
  <2>1. RddType'
    BY <1>6 DEF Radar, RadarSeen, RadarReport, RadarClear, ApAdd, ApRemove, VifFreed, RecordType, RddType, rdd
  <2> QED
    BY <1>0, <1>6, <2>1, SameTwt DEF Radar, RadarSeen, RadarReport, RadarClear, ApAdd, ApRemove, VifFreed, RecordType
<1>7. ASSUME NEW ok \in BOOLEAN, NEW did \in BOOLEAN, SetupAnswered(ok, did)
      PROVE  RecordType'
  <2>1. (nAgrt + 1) % 256 \in 0..255
    BY DEF RecordType, TwtType
  <2>2. call.flow \in Flows /\ call.entry \in Entries
    BY <1>7, CallFlow DEF SetupAnswered, RecordType
  <2>3. TwtType'
    BY <1>7, <2>1, <2>2 DEF SetupAnswered, RecordType, TwtType
  <2> QED
    BY <1>0, <1>7, <2>3, NoCallCalls, SameRdd DEF SetupAnswered, RecordType
<1>8. ASSUME NEW ok \in BOOLEAN, NEW did \in BOOLEAN, TeardownAnswered(ok, did)
      PROVE  RecordType'
  <2>1. call.flow \in Flows
    BY <1>8, CallFlow DEF TeardownAnswered, RecordType
  <2>2. TwtType'
    BY <1>8, <2>1, DeletedType DEF TeardownAnswered, RecordType, TwtType
  <2> QED
    BY <1>0, <1>8, <2>2, NoCallCalls, SameRdd DEF TeardownAnswered, RecordType
<1>9. ASSUME NEW ok \in BOOLEAN, NEW did \in BOOLEAN, RemoveAnswered(ok, did)
      PROVE  RecordType'
  <2> DEFINE x == call.flow
             left == FlowsOf(x[1]) \ (IF ok THEN {x} ELSE {})
             todo == {y[2] : y \in {z \in left : z[2] > x[2]}}
  <2>1. x \in Flows
    BY <1>9, CallFlow DEF RemoveAnswered, RecordType
  <2>2. Cleared(ok, x) /\ FirmwareDeleted(did, x)
    BY <1>9 DEF RemoveAnswered
  <2>3. table' \subseteq Entries /\ nAgrt' \in 0..255 /\ agreed' \subseteq Entries
        /\ crossed' \in BOOLEAN
    BY <2>1, <2>2, DeletedType DEF RecordType
  <2>4. CASE /\ \E f \in todo : call' = Delete(<<x[1], f>>, TRUE)
             /\ FlowDeleted(ok, x)
             /\ UNCHANGED <<present, leaked>>
    <3>1. ASSUME NEW f \in todo PROVE <<x[1], f>> \in Flows
      BY <2>1, <3>1 DEF FlowsOf, Flows
    <3>2. call' \in Calls
      BY <2>4, <3>1, DeleteCalls
    <3>3. TwtType'
      BY <2>1, <2>3, <2>4, DeletedType DEF RecordType, TwtType
    <3> QED
      BY <1>0, <1>9, <3>2, <3>3, SameRdd DEF RemoveAnswered, RecordType
  <2>5. CASE /\ call' = NoCall
             /\ present' = present \ {x[1]}
             /\ flows' = [y \in Flows |->
                            IF y \in {z \in Flows : z[1] = x[1]} THEN None ELSE flows[y]]
             /\ leaked' = leaked \cup {flows[y] : y \in left \ stale}
             /\ stale' = stale \ {z \in Flows : z[1] = x[1]}
             /\ unsure' = unsure \ {z \in Flows : z[1] = x[1]}
    <3>1. {flows[y] : y \in left \ stale} \subseteq Entries
      BY DEF FlowsOf, RecordType, TwtType
    <3>2. TwtType'
      BY <2>3, <2>5, <3>1 DEF RecordType, TwtType
    <3> QED
      BY <1>0, <1>9, <2>5, <3>2, NoCallCalls, SameRdd DEF RemoveAnswered, RecordType
  <2> QED
    BY <1>9, <2>4, <2>5 DEF RemoveAnswered
<1>10. ASSUME NEW ok \in BOOLEAN, NEW did \in BOOLEAN,
              ArmAnswered(ok, did) \/ DisarmAnswered(did)
       PROVE  RecordType'
  <2>1. RddType'
    BY <1>10, CallFlow DEF ArmAnswered, DisarmAnswered, RecordType, RddType
  <2> QED
    BY <1>0, <1>10, <2>1, NoCallCalls, SameTwt
    DEF ArmAnswered, DisarmAnswered, RddDone, RecordType
<1>11. ASSUME ResetClear PROVE RecordType'
  <2>1. TwtType'
    <3>1. table' \in {{}, table} /\ nAgrt' \in {0, nAgrt} /\ crossed' \in BOOLEAN
      BY <1>11 DEF ResetClear
    <3>2. stale' \subseteq Flows /\ unsure' = {} /\ leaked' = {}
      BY <1>11 DEF ResetClear
    <3>3. UNCHANGED <<flows, present, agreed>>
      BY <1>11 DEF ResetClear
    <3> QED
      BY <3>1, <3>2, <3>3 DEF RecordType, TwtType
  <2>2. RddType'
    BY <1>11 DEF ResetClear, RecordType, RddType
  <2> QED
    BY <1>0, <1>11, <2>1, <2>2 DEF ResetClear, RecordType
<1>12. ASSUME ResetWorks \/ ResetFails PROVE RecordType'
  <2>1. TwtType'
    BY <1>12 DEF ResetWorks, ResetFails, FirmwareForgets, RecordType, TwtType
  <2>2. RddType'
    BY <1>12 DEF ResetWorks, ResetFails, FirmwareForgets, RecordType, RddType
  <2> QED
    BY <1>0, <1>12, <2>1, <2>2 DEF ResetWorks, ResetFails, RecordType
<1>13. ASSUME NEW c \in Channels, ResetTail(c) PROVE RecordType'
  <2>1. RddType' /\ call' \in Calls
    BY <1>13, EvalType DEF ResetTail, RecordType
  <2>2. TwtType'
    BY <1>13, SameTwt DEF ResetTail, RecordType
  <2> QED
    BY <1>0, <1>13, <2>1, <2>2 DEF ResetTail, RecordType
<1>14. CASE UNCHANGED vars
  BY <1>14, SameTwt, SameRdd DEF RecordType, vars
<1> QED
  BY <1>1, <1>2, <1>3, <1>4, <1>5, <1>6, <1>7, <1>8, <1>9, <1>10, <1>11, <1>12,
     <1>13, <1>14 DEF Next, Record, TwtNext, RddNext, Answer

-----------------------------------------------------------------------------
(* Radar detection.                                                         *)

(* A disarm waits for its answer after the driver forgot; between the       *)
(* clearing and the chip reset all that is armed may be forgotten.          *)
RddOk ==
  /\ call.op = "disarm" => ~rddEnabled
  /\ reset = "cleared" /\ rddEnabled => early

RddInv == RddOk /\ ArmedIsWatching /\ VifOnRecord

LEMMA InitRdd == Init => RddInv
  BY DEF Init, NoCall, RddInv, RddOk, ArmedIsWatching, VifOnRecord

LEMMA SameRddInv ==
  ASSUME RddInv, UNCHANGED <<rdd, ap, reset>>, call'.op \notin {"arm", "disarm"}
  PROVE  RddInv'
  BY DEF RddInv, RddOk, ArmedIsWatching, VifOnRecord, rdd

LEMMA EvalRdd ==
  ASSUME RecordType, RddInv, call = NoCall, NEW c, NEW v \in BOOLEAN, Eval(c, v),
         c # "none" /\ v => ap, ap' = ap, reset' # "cleared" \/ reset' = reset
  PROVE  RddInv'
<1>1. CASE UNCHANGED <<rdd, call>>
  BY <1>1 DEF RddInv, RddOk, ArmedIsWatching, VifOnRecord, rdd, NoCall
<1>2. CASE Disarm
  BY <1>2 DEF Disarm, RddInv, RddOk, ArmedIsWatching, VifOnRecord
<1>3. CASE /\ c = "radar" /\ rddEnabled /\ cacVif' = (cacVif \/ v)
           /\ UNCHANGED <<rddEnabled, fwRdd, early, call>>
  BY <1>3 DEF RddInv, RddOk, ArmedIsWatching, VifOnRecord, NoCall, RecordType, RddType
<1>4. CASE /\ c = "radar" /\ ~rddEnabled
           /\ call' = [op |-> "arm", vif |-> v] /\ UNCHANGED rdd
  BY <1>4 DEF RddInv, RddOk, ArmedIsWatching, VifOnRecord, rdd
<1> QED
  BY <1>1, <1>2, <1>3, <1>4 DEF Eval

LEMMA RddStep == RecordType /\ RddInv /\ [Next]_vars => RddInv'
<1> SUFFICES ASSUME RecordType, RddInv, [Next]_vars PROVE RddInv'
  OBVIOUS
<1>1. ASSUME NEW s \in Stas, Setup(s) \/ StaAdd(s) \/ StaRemove(s) PROVE RddInv'
  <2>1. Setup(s) => call'.op = "add"
    BY DEF Setup
  <2>2. StaAdd(s) => call'.op = "none"
    BY DEF StaAdd, NoCall
  <2>3. ASSUME StaRemove(s) PROVE call'.op \in {"none", "delete"}
    <3>1. CASE FlowsOf(s) = {}
      BY <2>3, <3>1 DEF StaRemove, NoCall
    <3>2. CASE FlowsOf(s) # {}
      <4>1. PICK f \in FlowIds : call' = Delete(<<s, f>>, TRUE)
        BY <2>3, <3>2 DEF StaRemove
      <4> QED
        BY <4>1 DEF Delete
    <3> QED
      BY <3>1, <3>2
  <2> QED
    BY <1>1, <2>1, <2>2, <2>3, SameRddInv DEF Setup, StaAdd, StaRemove
<1>2. ASSUME NEW x \in Flows, Teardown(x) PROVE RddInv'
  BY <1>2, SameRddInv DEF Teardown, Delete
<1>3. ASSUME NEW c \in Channels, AddChanctx(c) \/ ApChanged(c) PROVE RddInv'
  BY <1>3, EvalRdd DEF AddChanctx, ApChanged
<1>4. ASSUME Radar \/ VifFreed PROVE RddInv'
  BY <1>4 DEF Radar, RadarSeen, RadarReport, RadarClear, VifFreed, rdd, RddInv, RddOk, ArmedIsWatching, VifOnRecord
<1>5. ASSUME ApAdd PROVE RddInv'
  BY <1>5 DEF ApAdd, rdd, RddInv, RddOk, ArmedIsWatching, VifOnRecord
<1>6. ASSUME ApRemove PROVE RddInv'
  BY <1>6 DEF ApRemove, NoCall, RddInv, RddOk, ArmedIsWatching, VifOnRecord
<1>7. ASSUME NEW ok \in BOOLEAN, NEW did \in BOOLEAN,
             \/ SetupAnswered(ok, did) \/ TeardownAnswered(ok, did)
             \/ RemoveAnswered(ok, did)
      PROVE  RddInv'
  <2>1. SetupAnswered(ok, did) \/ TeardownAnswered(ok, did) => call'.op = "none"
    BY DEF SetupAnswered, TeardownAnswered, NoCall
  <2>2. ASSUME RemoveAnswered(ok, did) PROVE call'.op \in {"none", "delete"}
    <3>1. call' = NoCall \/ \E f : call' = Delete(<<call.flow[1], f>>, TRUE)
      BY <2>2 DEF RemoveAnswered
    <3> QED
      BY <3>1 DEF Delete, NoCall
  <2> QED
    BY <1>7, <2>1, <2>2, SameRddInv DEF SetupAnswered, TeardownAnswered, RemoveAnswered
<1>8. ASSUME NEW ok \in BOOLEAN, NEW did \in BOOLEAN, ok => did, ArmAnswered(ok, did)
      PROVE  RddInv'
  <2>1. call.vif \in BOOLEAN
    BY <1>8, CallFlow DEF ArmAnswered, RecordType
  <2> QED
    BY <1>8, <2>1
    DEF ArmAnswered, RddDone, NoCall, RddInv, RddOk, ArmedIsWatching,
        VifOnRecord, RecordType, RddType
<1>9. ASSUME NEW did \in BOOLEAN, DisarmAnswered(did) PROVE RddInv'
  BY <1>9 DEF DisarmAnswered, RddDone, NoCall, RddInv, RddOk, ArmedIsWatching,
     VifOnRecord
<1>10. ASSUME ResetClear PROVE RddInv'
  BY <1>10 DEF ResetClear, RddInv, RddOk, ArmedIsWatching, VifOnRecord
<1>11. ASSUME ResetWorks \/ ResetFails PROVE RddInv'
  BY <1>11 DEF ResetWorks, ResetFails, FirmwareForgets, NoCall, RddInv, RddOk,
     ArmedIsWatching, VifOnRecord
<1>12. ASSUME NEW c \in Channels, ResetTail(c) PROVE RddInv'
  BY <1>12, EvalRdd DEF ResetTail
<1>13. CASE UNCHANGED vars
  BY <1>13 DEF vars, rdd, RddInv, RddOk, ArmedIsWatching, VifOnRecord
<1> QED
  BY <1>1, <1>2, <1>3, <1>4, <1>5, <1>6, <1>7, <1>8, <1>9, <1>10, <1>11, <1>12, <1>13
  DEF Next, Record, TwtNext, RddNext, Answer

(* What the radar event's handler has in hand: an interface that is there,  *)
(* or one whose memory waits for the handler.                               *)
EventOk ==
  /\ radar = "seen" => ap \/ waits
  /\ freed => ~ap /\ ~waits

LEMMA EventStep == EventType /\ EventOk /\ VifOnRecord /\ [Next]_vars => (EventType /\ EventOk)'
<1> SUFFICES ASSUME EventType, EventOk, VifOnRecord, [Next]_vars PROVE (EventType /\ EventOk)'
  OBVIOUS
<1> USE DEF EventType, EventOk
<1>1. CASE UNCHANGED <<event, ap>>
  BY <1>1 DEF event
<1>2. Record => ap' = ap
  <2>1. TwtNext \/ RddNext => ap' = ap
    BY DEF TwtNext, RddNext, Setup, StaAdd, StaRemove, Teardown, AddChanctx, ApChanged
  <2>2. Answer => ap' = ap
    BY DEF Answer, SetupAnswered, TeardownAnswered, RemoveAnswered, ArmAnswered,
       DisarmAnswered, RddDone
  <2>3. ResetClear \/ ResetWorks \/ ResetFails \/ (\E c \in Channels : ResetTail(c))
        => ap' = ap
    BY DEF ResetClear, ResetWorks, ResetFails, ResetTail
  <2> QED
    BY <2>1, <2>2, <2>3 DEF Record
<1>3. CASE ApAdd
  <2>1. ap' = TRUE /\ waits' = FALSE /\ freed' = FALSE /\ radar' = radar
    BY <1>3 DEF ApAdd
  <2> QED
    BY <2>1
<1>4. CASE ApRemove
  <2>1. ap /\ ~ap' /\ waits' = (radar # "idle") /\ freed' = freed /\ radar' = radar
    BY <1>4 DEF ApRemove
  <2>2. ~freed
    BY <2>1
  <2>3. radar = "seen" => waits'
    BY <2>1
  <2>4. waits' \in BOOLEAN
    BY <2>1
  <2> QED
    BY <2>1, <2>2, <2>3, <2>4
<1>5. CASE VifFreed
  BY <1>5, Zenon DEF VifFreed
<1>6. CASE RadarSeen
  BY <1>6 DEF RadarSeen, VifOnRecord
<1>7. CASE RadarReport \/ RadarClear
  <2>1. /\ radar' \in {"told", "idle"} /\ UNCHANGED <<ap, freed>>
        /\ waits' = waits \/ waits' = FALSE
    BY <1>7 DEF RadarReport, RadarClear
  <2>2. radar' # "seen" /\ radar' \in {"idle", "seen", "told"}
    BY <2>1
  <2>3. waits' \in BOOLEAN /\ freed' \in BOOLEAN
    BY <2>1, Zenon
  <2>4. freed' => ~ap'
    BY <2>1, Zenon
  <2>5. freed' => ~waits'
    BY <2>1, Zenon
  <2> QED
    BY <2>2, <2>3, <2>4, <2>5, Zenon
<1>8. CASE Record /\ UNCHANGED event
  BY <1>1, <1>2, <1>8
<1>9. CASE UNCHANGED vars
  BY <1>1, <1>9 DEF vars
<1> HIDE DEF EventType, EventOk
<1>10. \/ Record /\ UNCHANGED event
       \/ ApAdd \/ ApRemove \/ VifFreed \/ RadarSeen \/ RadarReport \/ RadarClear
       \/ UNCHANGED vars
  BY Zenon DEF Next, Radar
<1> QED
  BY <1>3, <1>4, <1>5, <1>6, <1>7, <1>8, <1>9, <1>10

(* The interface on record for a radar event exists, and the one that the   *)
(* handler has found, without a lock, is not freed before it is reported.   *)
THEOREM ReportedVif == Spec => []ReportedVifIsThere
<1>1. Init => RecordType /\ RddInv /\ EventType /\ EventOk
  BY InitType, InitRdd DEF Init, EventType, EventOk
<1>2. RecordType /\ RddInv /\ EventType /\ EventOk /\ [Next]_vars
      => (RecordType /\ RddInv /\ EventType /\ EventOk)'
  BY TypeStep, RddStep, EventStep DEF RddInv
<1>3. RddInv /\ EventOk => ReportedVifIsThere
  BY DEF RddInv, EventOk, ReportedVifIsThere
<1> QED
  BY <1>1, <1>2, <1>3, PTL DEF Spec

(* Every variable keeps its range. *)
THEOREM TypeCorrect == Spec => []TypeOK
<1>1. Init => RecordType /\ RddInv /\ EventType /\ EventOk
  BY InitType, InitRdd DEF Init, EventType, EventOk
<1>2. RecordType /\ RddInv /\ EventType /\ EventOk /\ [Next]_vars
      => (RecordType /\ RddInv /\ EventType /\ EventOk)'
  BY TypeStep, RddStep, EventStep DEF RddInv
<1>3. RecordType /\ EventType => TypeOK
  BY DEF TypeOK
<1> QED
  BY <1>1, <1>2, <1>3, PTL DEF Spec

-----------------------------------------------------------------------------
(* TWT agreements.                                                          *)

(* A stale flow is still in its station's mask.                             *)
StaleOk == \A x \in stale : flows[x] # None

(* What a command waits for is still as it was when it was sent.            *)
CallOk ==
  /\ call.op = "add" => flows[call.flow] = None /\ call.entry \notin table
  /\ call.op = "delete" => flows[call.flow] # None

(* Between the clearing and the chip reset all that is new may be forgotten.*)
ClearedOk == reset = "cleared" => Fresh \subseteq unsure

TableOk ==
  ~crossed =>
    /\ \A x, y \in Fresh : flows[x] = flows[y] => x = y
    /\ Held \cap leaked = {}
    /\ table = Held \cup leaked
    /\ nAgrt = Cardinality(table)

TwtInv == StaleOk /\ CallOk /\ ClearedOk /\ TableOk /\ AcceptedIsScheduled

LEMMA NoneIsNoEntry == None \notin Entries
  BY FwConstants DEF Entries

LEMMA SubsetFinite ==
  ASSUME NEW T \in SUBSET Entries
  PROVE  IsFiniteSet(T) /\ Cardinality(T) \in 0..NEntries
<1>1. 0 \in Int /\ NEntries - 1 \in Int
  BY FwConstants
<1>2. IsFiniteSet(Entries) /\ Cardinality(Entries) = NEntries
  BY <1>1, FS_Interval, FwConstants DEF Entries
<1>3. IsFiniteSet(T) /\ Cardinality(T) <= NEntries
  BY <1>2, FS_Subset
<1> QED
  BY <1>3, FS_CardinalityType, FwConstants

LEMMA InitTwt == Init => TwtInv
<1> SUFFICES ASSUME Init PROVE TwtInv
  OBVIOUS
<1>1. Fresh = {} /\ Held = {}
  BY DEF Init, Fresh, Held
<1>2. TableOk
  BY <1>1, FS_EmptySet DEF Init, TableOk
<1>3. AcceptedIsScheduled
  BY <1>1 DEF AcceptedIsScheduled
<1>4. StaleOk /\ CallOk /\ ClearedOk
  BY DEF Init, StaleOk, CallOk, ClearedOk, NoCall
<1> QED
  BY <1>2, <1>3, <1>4 DEF TwtInv

(* The parts that a command about something else leaves alone.              *)
LEMMA SameTable ==
  ASSUME TwtInv, UNCHANGED <<table, nAgrt, flows, agreed, stale, unsure, leaked, crossed>>,
         reset' = "cleared" => reset = "cleared"
  PROVE  StaleOk' /\ ClearedOk' /\ TableOk' /\ AcceptedIsScheduled'
<1>1. Fresh' = Fresh /\ Held' = Held
  BY DEF Fresh, Held
<1>2. TableOk'
  BY <1>1 DEF TwtInv, TableOk
<1>3. AcceptedIsScheduled'
  BY <1>1 DEF TwtInv, AcceptedIsScheduled
<1>4. StaleOk' /\ ClearedOk'
  BY <1>1 DEF TwtInv, StaleOk, ClearedOk
<1> QED
  BY <1>2, <1>3, <1>4

LEMMA SameCall ==
  ASSUME TwtInv, UNCHANGED <<table, flows>>,
         call' = call \/ call'.op \notin {"add", "delete"}
  PROVE  CallOk'
  BY DEF TwtInv, CallOk

(* The ADD was answered.                                                    *)
LEMMA AddKeeps ==
  ASSUME RecordType, TwtInv, NEW ok \in BOOLEAN, NEW did \in BOOLEAN, ok => did,
         SetupAnswered(ok, did)
  PROVE  TwtInv'
<1> DEFINE f == call.flow
           e == call.entry
<1>1. f \in Flows /\ e \in Entries /\ e # None
  BY CallFlow, NoneIsNoEntry DEF SetupAnswered, RecordType
<1>2. flows[f] = None /\ e \notin table /\ f \notin stale
  BY DEF SetupAnswered, TwtInv, CallOk, StaleOk
<1>3. CallOk'
  BY DEF SetupAnswered, NoCall, CallOk
<1>4. CASE ~ok
  <2>1. UNCHANGED <<table, nAgrt, flows, stale, unsure, leaked, crossed, reset>>
    BY <1>4 DEF SetupAnswered
  <2>2. Fresh' = Fresh /\ Held' = Held
    BY <2>1 DEF Fresh, Held
  <2>3. TableOk'
    BY <2>1, <2>2 DEF TwtInv, TableOk
  <2>4. agreed \subseteq agreed'
    BY DEF SetupAnswered
  <2>5. AcceptedIsScheduled'
    BY <2>1, <2>2, <2>4 DEF TwtInv, AcceptedIsScheduled
  <2>6. StaleOk' /\ ClearedOk'
    BY <2>1, <2>2 DEF TwtInv, StaleOk, ClearedOk
  <2> QED
    BY <1>3, <2>3, <2>5, <2>6 DEF TwtInv
<1>5. CASE ok
  <2>1. /\ table' = table \cup {e} /\ nAgrt' = (nAgrt + 1) % 256
        /\ flows' = [flows EXCEPT ![f] = e]
        /\ unsure' = IF reset = "cleared" THEN unsure \cup {f} ELSE unsure
        /\ agreed' = agreed \cup {e}
        /\ UNCHANGED <<stale, leaked, crossed, reset>>
    BY <1>5 DEF SetupAnswered
  <2>2. /\ flows'[f] = e
        /\ \A x \in Flows : x # f => flows'[x] = flows[x]
    BY <1>1, <2>1 DEF RecordType, TwtType
  <2>3. Fresh' = Fresh \cup {f} /\ f \notin Fresh
    BY <1>1, <1>2, <2>1, <2>2 DEF Fresh
  <2>4. \A x \in Fresh : flows'[x] = flows[x]
    BY <2>2, <2>3 DEF Fresh
  <2>5. Held' = Held \cup {e}
    BY <2>2, <2>3, <2>4 DEF Held
  <2>6. TableOk'
    <3> SUFFICES ASSUME ~crossed PROVE TableOk'
      BY <2>1 DEF TableOk
    <3>1. /\ \A x, y \in Fresh : flows[x] = flows[y] => x = y
          /\ Held \cap leaked = {} /\ table = Held \cup leaked
          /\ nAgrt = Cardinality(table)
      BY DEF TwtInv, TableOk
    <3>2. e \notin Held /\ e \notin leaked
      BY <1>2, <3>1
    <3>3. \A x \in Fresh : flows[x] # e
      BY <3>2 DEF Held
    <3>4. \A x, y \in Fresh' : flows'[x] = flows'[y] => x = y
      BY <2>2, <2>3, <2>4, <3>1, <3>3
    <3>5. IsFiniteSet(table) /\ Cardinality(table) \in 0..NEntries
      BY SubsetFinite DEF RecordType, TwtType
    <3>6. Cardinality(table') = Cardinality(table) + 1
      BY <1>2, <2>1, <3>5, FS_AddElement
    <3>7. Cardinality(table') <= NEntries
      <4>1. table' \in SUBSET Entries
        BY <1>1, <2>1 DEF RecordType, TwtType
      <4> QED
        BY <4>1, SubsetFinite, FwConstants
    <3>8. nAgrt' = Cardinality(table')
      BY <2>1, <3>1, <3>5, <3>6, <3>7, FwConstants
    <3> QED
      BY <2>1, <2>5, <3>1, <3>2, <3>4, <3>8 DEF TableOk
  <2>7. AcceptedIsScheduled'
    BY <2>1, <2>2, <2>3, <2>4 DEF TwtInv, AcceptedIsScheduled
  <2>8. ClearedOk'
    BY <2>1, <2>3 DEF TwtInv, ClearedOk
  <2>9. StaleOk'
    BY <1>1, <2>1, <2>2 DEF TwtInv, StaleOk, RecordType, TwtType
  <2> QED
    BY <1>3, <2>6, <2>7, <2>8, <2>9 DEF TwtInv
<1> QED
  BY <1>4, <1>5

(* What a DELETE that was answered leaves of the table.                     *)
LEMMA ClearedTable ==
  ASSUME RecordType, TwtInv, ~crossed, NEW x \in Fresh, NEW ok \in BOOLEAN, Cleared(ok, x)
  PROVE  /\ ok => table' = table \ {flows[x]}
         /\ ~ok => table' = table
         /\ nAgrt' = Cardinality(table')
<1>1. table = Held \cup leaked /\ nAgrt = Cardinality(table)
  BY DEF TwtInv, TableOk
<1>2. flows[x] \in table
  BY <1>1 DEF Held
<1>3. IsFiniteSet(table) /\ Cardinality(table) \in 0..NEntries
  BY SubsetFinite DEF RecordType, TwtType
<1>4. CASE ok
  <2>1. table' = table \ {flows[x]} /\ nAgrt' = (nAgrt + 255) % 256
    BY <1>4 DEF Cleared
  <2>2. IsFiniteSet(table') /\ Cardinality(table') = Cardinality(table) - 1
    BY <1>2, <1>3, <2>1, FS_RemoveElement
  <2>3. Cardinality(table') \in Nat
    BY <2>2, FS_CardinalityType
  <2> QED
    BY <1>1, <1>3, <1>4, <2>1, <2>2, <2>3, FwConstants
<1>5. CASE ~ok
  BY <1>1, <1>5 DEF Cleared
<1> QED
  BY <1>4, <1>5

(* One flow's DELETE was answered and its station stays.                    *)
LEMMA DeleteKeeps ==
  ASSUME RecordType, TwtInv, NEW ok \in BOOLEAN, NEW did \in BOOLEAN, NEW x \in Flows,
         flows[x] # None, Cleared(ok, x), FirmwareDeleted(did, x), FlowDeleted(ok, x),
         UNCHANGED <<leaked, reset>>
  PROVE  StaleOk' /\ ClearedOk' /\ TableOk' /\ AcceptedIsScheduled'
<1>1. /\ \A y \in Flows : y # x => flows'[y] = flows[y]
      /\ ok => flows'[x] = None
      /\ ~ok => flows' = flows
  BY DEF FlowDeleted, RecordType, TwtType
<1>2. stale' = IF ok THEN stale \ {x} ELSE stale
  BY DEF FlowDeleted
<1>3. unsure' = IF ok THEN unsure \ {x} ELSE unsure \cup {x}
  BY DEF FlowDeleted
<1>4. Fresh' = IF ok THEN Fresh \ {x} ELSE Fresh
  BY <1>1, <1>2 DEF Fresh
<1>5. \A y \in Fresh' : y \in Fresh /\ flows'[y] = flows[y]
  BY <1>1, <1>4 DEF Fresh
<1>6. StaleOk'
  BY <1>1, <1>2 DEF TwtInv, StaleOk, RecordType, TwtType
<1>7. ClearedOk'
  BY <1>3, <1>4 DEF TwtInv, ClearedOk
<1>8. TableOk' /\ AcceptedIsScheduled'
  <2>1. CASE crossed'
    BY <2>1 DEF TableOk, AcceptedIsScheduled
  <2>2. CASE ~crossed'
    <3>1. ~crossed /\ x \in Fresh
      BY <2>2 DEF FirmwareDeleted, Fresh
    <3>2. /\ \A y, z \in Fresh : flows[y] = flows[z] => y = z
          /\ Held \cap leaked = {} /\ table = Held \cup leaked
          /\ \A y \in Fresh \ unsure : flows[y] \in agreed
      BY <3>1 DEF TwtInv, TableOk, AcceptedIsScheduled
    <3>3. /\ ok => table' = table \ {flows[x]}
          /\ ~ok => table' = table
          /\ nAgrt' = Cardinality(table')
      BY <3>1, ClearedTable
    <3>4. Held' = IF ok THEN Held \ {flows[x]} ELSE Held
      <4>1. \A y \in Fresh' : flows'[y] \in Held
        BY <1>5 DEF Held
      <4>2. ok => \A y \in Fresh' : flows'[y] # flows[x]
        BY <1>4, <1>5, <3>1, <3>2
      <4>3. \A y \in Fresh : (ok => flows[y] # flows[x]) => y \in Fresh' /\ flows'[y] = flows[y]
        BY <1>1, <1>4 DEF Fresh
      <4> QED
        BY <4>1, <4>2, <4>3 DEF Held
    <3>5. flows[x] \notin leaked
      BY <3>1, <3>2 DEF Held
    <3>6. \A y, z \in Fresh' : flows'[y] = flows'[z] => y = z
      BY <1>5, <3>2
    <3>7. TableOk'
      BY <3>2, <3>3, <3>4, <3>5, <3>6 DEF TableOk
    <3>8. ASSUME NEW y \in Fresh' \ unsure' PROVE flows'[y] \in agreed'
      <4>1. y \in Fresh \ unsure /\ y # x /\ flows'[y] = flows[y]
        BY <1>3, <1>4, <1>5, <3>8
      <4>2. flows[y] # flows[x]
        BY <3>1, <3>2, <4>1
      <4> QED
        BY <3>2, <4>1, <4>2 DEF FirmwareDeleted
    <3> QED
      BY <3>7, <3>8 DEF AcceptedIsScheduled
  <2> QED
    BY <2>1, <2>2
<1> QED
  BY <1>6, <1>7, <1>8

(* The last DELETE of a station that leaves was answered.                   *)
LEMMA LeaveKeeps ==
  ASSUME RecordType, TwtInv, NEW ok \in BOOLEAN, NEW did \in BOOLEAN, NEW x \in Flows,
         flows[x] # None, Cleared(ok, x), FirmwareDeleted(did, x),
         flows' = [y \in Flows |-> IF y \in {z \in Flows : z[1] = x[1]}
                                   THEN None ELSE flows[y]],
         leaked' = leaked \cup
                   {flows[y] : y \in (FlowsOf(x[1]) \ (IF ok THEN {x} ELSE {})) \ stale},
         stale' = stale \ {z \in Flows : z[1] = x[1]},
         unsure' = unsure \ {z \in Flows : z[1] = x[1]}, reset' = reset
  PROVE  StaleOk' /\ ClearedOk' /\ TableOk' /\ AcceptedIsScheduled'
<1> DEFINE mine == {z \in Flows : z[1] = x[1]}
           left == FlowsOf(x[1]) \ (IF ok THEN {x} ELSE {})
<1>1. /\ \A y \in Flows \ mine : flows'[y] = flows[y]
      /\ \A y \in mine : flows'[y] = None
  OBVIOUS
<1>2. Fresh' = Fresh \ mine
  BY <1>1 DEF Fresh
<1>3. \A y \in Fresh' : y \in Fresh /\ flows'[y] = flows[y]
  BY <1>1, <1>2 DEF Fresh
<1>4. StaleOk'
  BY <1>1 DEF TwtInv, StaleOk, RecordType, TwtType
<1>5. ClearedOk'
  BY <1>2 DEF TwtInv, ClearedOk
<1>6. left \ stale = (Fresh \cap mine) \ (IF ok THEN {x} ELSE {})
  BY DEF FlowsOf, Fresh
<1>7. TableOk' /\ AcceptedIsScheduled'
  <2>1. CASE crossed'
    BY <2>1 DEF TableOk, AcceptedIsScheduled
  <2>2. CASE ~crossed'
    <3>1. ~crossed /\ x \in Fresh /\ x \in mine
      BY <2>2 DEF FirmwareDeleted, Fresh
    <3>2. /\ \A y, z \in Fresh : flows[y] = flows[z] => y = z
          /\ Held \cap leaked = {} /\ table = Held \cup leaked
          /\ \A y \in Fresh \ unsure : flows[y] \in agreed
      BY <3>1 DEF TwtInv, TableOk, AcceptedIsScheduled
    <3>3. /\ ok => table' = table \ {flows[x]}
          /\ ~ok => table' = table
          /\ nAgrt' = Cardinality(table')
      BY <3>1, ClearedTable
    <3>4. \A y, z \in Fresh' : flows'[y] = flows'[z] => y = z
      BY <1>3, <3>2
    <3>5. \A y \in Fresh' : flows'[y] # flows[x] /\ flows'[y] \in table
      BY <1>2, <1>3, <3>1, <3>2 DEF Held
    <3>6. Held' \cap leaked' = {}
      <4>1. ASSUME NEW y \in Fresh' PROVE flows'[y] \notin leaked'
        BY <1>2, <1>3, <1>6, <3>2 DEF Held
      <4> QED
        BY <4>1 DEF Held
    <3>7. table' \subseteq Held' \cup leaked'
      <4> SUFFICES ASSUME NEW e \in table' PROVE e \in Held' \cup leaked'
        OBVIOUS
      <4>1. e \in table /\ (ok => e # flows[x])
        BY <3>3
      <4>2. CASE e \in leaked
        BY <4>2
      <4>3. CASE e \in Held
        <5>1. PICK y \in Fresh : e = flows[y]
          BY <4>3 DEF Held
        <5>2. CASE y \in mine
          BY <1>6, <4>1, <5>1, <5>2
        <5>3. CASE y \notin mine
          BY <1>1, <1>2, <5>1, <5>3 DEF Held, Fresh
        <5> QED
          BY <5>2, <5>3
      <4> QED
        BY <3>2, <4>1, <4>2, <4>3
    <3>8. Held' \cup leaked' \subseteq table'
      <4>1. Held' \subseteq table'
        BY <3>3, <3>5 DEF Held
      <4>2. \A y \in left \ stale : flows[y] \in table /\ (ok => flows[y] # flows[x])
        BY <1>6, <3>1, <3>2 DEF Held
      <4>3. leaked \subseteq table /\ flows[x] \notin leaked
        BY <3>1, <3>2 DEF Held
      <4> QED
        BY <3>3, <4>1, <4>2, <4>3
    <3>9. TableOk'
      BY <3>3, <3>4, <3>6, <3>7, <3>8 DEF TableOk
    <3>10. ASSUME NEW y \in Fresh' \ unsure' PROVE flows'[y] \in agreed'
      <4>1. y \in Fresh \ unsure /\ flows'[y] = flows[y] /\ flows[y] # flows[x]
        BY <1>2, <1>3, <3>5, <3>10
      <4> QED
        BY <3>2, <4>1 DEF FirmwareDeleted
    <3> QED
      BY <3>9, <3>10 DEF AcceptedIsScheduled
  <2> QED
    BY <2>1, <2>2
<1> QED
  BY <1>4, <1>5, <1>7

LEMMA TwtStep == RecordType /\ TwtInv /\ [Next]_vars => TwtInv'
<1> SUFFICES ASSUME RecordType, TwtInv, [Next]_vars PROVE TwtInv'
  OBVIOUS
<1>1. ASSUME NEW s \in Stas, Setup(s) PROVE TwtInv'
  <2>1. UNCHANGED <<twt, reset>>
    BY <1>1 DEF Setup
  <2>2. StaleOk' /\ ClearedOk' /\ TableOk' /\ AcceptedIsScheduled'
    BY <2>1, SameTable DEF twt
  <2>3. PICK f \in FlowIds, e \in Entries :
          /\ flows[<<s, f>>] = None /\ e \notin table
          /\ call' = [op |-> "add", flow |-> <<s, f>>, entry |-> e]
    BY <1>1 DEF Setup, Lowest
  <2>4. CallOk'
    BY <2>1, <2>3 DEF CallOk, twt
  <2> QED
    BY <2>2, <2>4 DEF TwtInv
<1>2. ASSUME NEW s \in Stas, StaAdd(s) PROVE TwtInv'
  BY <1>2, SameTable, SameCall DEF StaAdd, TwtInv
<1>3. ASSUME NEW s \in Stas, StaRemove(s) PROVE TwtInv'
  <2>1. UNCHANGED <<table, nAgrt, flows, agreed, stale, unsure, leaked, crossed, reset>>
    BY <1>3 DEF StaRemove
  <2>2. StaleOk' /\ ClearedOk' /\ TableOk' /\ AcceptedIsScheduled'
    BY <2>1, SameTable
  <2>3. CASE FlowsOf(s) = {}
    BY <1>3, <2>1, <2>2, <2>3, SameCall DEF StaRemove, TwtInv
  <2>4. CASE FlowsOf(s) # {}
    <3>1. PICK f \in FlowIds : /\ f \in {x[2] : x \in FlowsOf(s)}
                              /\ call' = Delete(<<s, f>>, TRUE)
      BY <1>3, <2>4 DEF StaRemove, Lowest
    <3>2. flows[<<s, f>>] # None
      BY <3>1 DEF FlowsOf, Flows
    <3>3. CallOk'
      BY <2>1, <3>1, <3>2 DEF CallOk, Delete
    <3> QED
      BY <2>2, <3>3 DEF TwtInv
  <2> QED
    BY <2>3, <2>4
<1>4. ASSUME NEW x \in Flows, Teardown(x) PROVE TwtInv'
  <2>1. UNCHANGED <<twt, reset>> /\ flows[x] # None /\ call' = Delete(x, FALSE)
    BY <1>4 DEF Teardown
  <2>2. StaleOk' /\ ClearedOk' /\ TableOk' /\ AcceptedIsScheduled'
    BY <2>1, SameTable DEF twt
  <2>3. CallOk'
    BY <2>1 DEF CallOk, Delete, twt
  <2> QED
    BY <2>2, <2>3 DEF TwtInv
<1>5. ASSUME NEW ok \in BOOLEAN, NEW did \in BOOLEAN, ok => did, SetupAnswered(ok, did)
      PROVE  TwtInv'
  BY <1>5, AddKeeps
<1>6. ASSUME NEW ok \in BOOLEAN, NEW did \in BOOLEAN, TeardownAnswered(ok, did)
      PROVE  TwtInv'
  <2>1. PICK x \in Flows : x = call.flow
    BY <1>6, CallFlow DEF TeardownAnswered, RecordType
  <2>2. flows[x] # None
    BY <1>6, <2>1 DEF TeardownAnswered, TwtInv, CallOk
  <2>3. /\ Cleared(ok, x) /\ FirmwareDeleted(did, x) /\ FlowDeleted(ok, x)
        /\ UNCHANGED <<leaked, reset>>
    BY <1>6, <2>1 DEF TeardownAnswered
  <2>4. CallOk'
    BY <1>6 DEF TeardownAnswered, CallOk, NoCall
  <2> QED
    BY <2>2, <2>3, <2>4, DeleteKeeps DEF TwtInv
<1>7. ASSUME NEW ok \in BOOLEAN, NEW did \in BOOLEAN, RemoveAnswered(ok, did)
      PROVE  TwtInv'
  <2>1. PICK x \in Flows : x = call.flow
    BY <1>7, CallFlow DEF RemoveAnswered, RecordType
  <2>2. flows[x] # None
    BY <1>7, <2>1 DEF RemoveAnswered, TwtInv, CallOk
  <2>3. Cleared(ok, x) /\ FirmwareDeleted(did, x) /\ reset' = reset
    BY <1>7, <2>1 DEF RemoveAnswered
  <2> DEFINE left == FlowsOf(x[1]) \ (IF ok THEN {x} ELSE {})
             todo == {y[2] : y \in {z \in left : z[2] > x[2]}}
  <2>4. CASE /\ \E f \in todo : call' = Delete(<<x[1], f>>, TRUE)
             /\ FlowDeleted(ok, x)
             /\ UNCHANGED <<present, leaked>>
    <3>1. PICK f \in todo : call' = Delete(<<x[1], f>>, TRUE)
      BY <2>4
    <3>2. PICK z \in Flows : /\ z[1] = x[1] /\ flows[z] # None
                             /\ z[2] = f /\ z[2] > x[2]
      BY <3>1 DEF FlowsOf
    <3>3. z = <<x[1], f>> /\ z # x
      BY <3>2 DEF Flows, FlowIds
    <3>4. flows'[z] # None
      BY <2>4, <3>2, <3>3 DEF FlowDeleted, RecordType, TwtType
    <3>5. CallOk'
      BY <3>1, <3>3, <3>4 DEF CallOk, Delete
    <3> QED
      BY <2>2, <2>3, <2>4, <3>5, DeleteKeeps DEF TwtInv
  <2>5. CASE /\ call' = NoCall
             /\ flows' = [y \in Flows |-> IF y \in {z \in Flows : z[1] = x[1]}
                                         THEN None ELSE flows[y]]
             /\ leaked' = leaked \cup {flows[y] : y \in left \ stale}
             /\ stale' = stale \ {z \in Flows : z[1] = x[1]}
             /\ unsure' = unsure \ {z \in Flows : z[1] = x[1]}
    <3>1. CallOk'
      BY <2>5 DEF CallOk, NoCall
    <3> QED
      BY <2>2, <2>3, <2>5, <3>1, LeaveKeeps DEF TwtInv
  <2> QED
    BY <1>7, <2>1, <2>4, <2>5 DEF RemoveAnswered
<1>8. ASSUME UNCHANGED twt, reset' = "cleared" => reset = "cleared",
             call' = call \/ call'.op \in {"none", "arm", "disarm"}
      PROVE  TwtInv'
  BY <1>8, SameTable, SameCall DEF twt, TwtInv
<1>9. ASSUME NEW c \in Channels, NEW v \in BOOLEAN, Eval(c, v)
      PROVE  call' = call \/ call'.op \in {"none", "arm", "disarm"}
  BY <1>9 DEF Eval, Disarm
<1>10. ASSUME NEW c \in Channels, AddChanctx(c) \/ ApChanged(c) PROVE TwtInv'
  BY <1>8, <1>9, <1>10 DEF AddChanctx, ApChanged
<1>11. ASSUME NEW c \in Channels, ResetTail(c) PROVE TwtInv'
  BY <1>8, <1>9, <1>11 DEF ResetTail
<1>12. ASSUME NEW ok \in BOOLEAN, NEW did \in BOOLEAN,
              ArmAnswered(ok, did) \/ DisarmAnswered(did)
       PROVE  TwtInv'
  <2>1. call' = NoCall /\ UNCHANGED twt /\ reset' \in {"idle", reset}
    BY <1>12 DEF ArmAnswered, DisarmAnswered, RddDone
  <2> QED
    BY <1>8, <2>1 DEF NoCall
<1>13. ASSUME Radar \/ ApAdd \/ ApRemove \/ VifFreed PROVE TwtInv'
  BY <1>8, <1>13 DEF Radar, RadarSeen, RadarReport, RadarClear, ApAdd, ApRemove, VifFreed
<1>14. ASSUME ResetClear PROVE TwtInv'
  <2>1. Fresh' = {} /\ Held' = {}
    BY <1>14 DEF ResetClear, Fresh, Held
  <2>2. TableOk'
    BY <1>14, <2>1, FS_EmptySet DEF ResetClear, TableOk
  <2>3. AcceptedIsScheduled' /\ ClearedOk'
    BY <2>1 DEF AcceptedIsScheduled, ClearedOk
  <2>4. StaleOk'
    BY <1>14 DEF ResetClear, StaleOk
  <2>5. CallOk'
    BY <1>14 DEF ResetClear, CallOk, TwtInv
  <2> QED
    BY <2>2, <2>3, <2>4, <2>5 DEF TwtInv
<1>15. ASSUME ResetWorks \/ ResetFails PROVE TwtInv'
  <2>1. /\ UNCHANGED <<table, nAgrt, flows, stale, unsure, leaked, crossed, call>>
        /\ reset = "cleared"
    BY <1>15 DEF ResetWorks, ResetFails
  <2>2. Fresh' = Fresh /\ Held' = Held /\ Fresh \ unsure = {}
    BY <2>1 DEF Fresh, Held, TwtInv, ClearedOk
  <2>3. AcceptedIsScheduled'
    BY <2>1, <2>2 DEF AcceptedIsScheduled
  <2>4. TableOk'
    BY <2>1, <2>2 DEF TwtInv, TableOk
  <2>5. StaleOk' /\ ClearedOk'
    BY <2>1, <2>2 DEF TwtInv, StaleOk, ClearedOk
  <2>6. CallOk'
    BY <2>1, SameCall
  <2> QED
    BY <2>3, <2>4, <2>5, <2>6 DEF TwtInv
<1>16. CASE UNCHANGED vars
  BY <1>8, <1>16 DEF vars
<1> QED
  BY <1>1, <1>2, <1>3, <1>4, <1>5, <1>6, <1>7, <1>10, <1>11, <1>12, <1>13, <1>14,
     <1>15, <1>16 DEF Next, Record, TwtNext, RddNext, Answer

-----------------------------------------------------------------------------
LEMMA Inductive ==
  RecordType /\ RddInv /\ TwtInv /\ [Next]_vars => (RecordType /\ RddInv /\ TwtInv)'
  BY TypeStep, RddStep, TwtStep

(* The table of agreements and its count are what the flows set up since    *)
(* the last reset, and the entries of stations that left unanswered, add up *)
(* to.                                                                      *)
THEOREM TableMatches == Spec => []TableMatchesFlows
<1>1. TypeOK /\ TwtInv => TableMatchesFlows
  BY DEF TwtInv, TableOk, TableMatchesFlows
<1> QED
  BY InitType, InitRdd, InitTwt, Inductive, TypeCorrect, <1>1, PTL DEF Spec

(* What the driver has on record the firmware does.                         *)
THEOREM FirmwareDoes == Spec => []FirmwareKnows
<1>1. RddInv /\ TwtInv => FirmwareKnows
  BY DEF RddInv, TwtInv, FirmwareKnows
<1> QED
  BY InitType, InitRdd, InitTwt, Inductive, <1>1, PTL DEF Spec
=============================================================================
