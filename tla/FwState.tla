------------------------------ MODULE FwState ------------------------------
(***************************************************************************)
(* What the driver believes the firmware holds: the table of TWT           *)
(* agreements and the radar detection (RDD) of an access point, across     *)
(* lost answers and chip resets. A callback of mac80211 holds dev->mutex   *)
(* while it waits for the answer to its command (call); reset_work clears  *)
(* the same state without the mutex before it takes it for the chip reset. *)
(* The kernel is one without .start_radar_detection (main.c:2037).         *)
(***************************************************************************)
EXTENDS Naturals, FiniteSets, TLC

CONSTANTS
  Stas,      \* the stations of the access point
  NFlows,    \* MT7921_MAX_STA_TWT_AGRT (8)
  NEntries,  \* MT7921_MAX_TWT_AGRT (16)
  None,      \* no agreement
  Parts      \* the parts in use: "twt", "rdd"; a behaviour uses one

ASSUME FwConstants ==
  /\ IsFiniteSet(Stas)
  /\ NFlows \in Nat \ {0}
  /\ NEntries \in 1..255
  /\ None \notin Nat
  /\ Parts \subseteq {"twt", "rdd"}

VARIABLES
  table,    \* dev->twt.table_mask
  nAgrt,    \* dev->twt.n_agrt, a u8
  flows,    \* per flow in a station's flowid_mask its table_id, or None
  present,  \* the stations mac80211 has added
  agreed,   \* the entries at which the firmware has an agreement
  rddEnabled, cacVif, \* struct mt7921_dfs_state (cac_vif: is there one)
  fwRdd,    \* the firmware looks for radar
  fwUp,     \* the firmware runs
  ap,       \* mac80211 has an AP interface
  radar,    \* mt7921_radar_detected_event: "idle", "seen" (it has found a
            \* cac_vif and is about to report it) or "told" (and to clear it)
  waits,    \* the interface was removed, its memory waits for that handler
  freed,    \* the interface that was removed is freed
  part,     \* the part whose callbacks run: the two share but mutex and reset
  call,     \* the command a callback waits for with dev->mutex held
  reset,    \* reset_work: "idle", "cleared", "tail" or "eval" (its last lines)
  stale,    \* flows that were there when a reset cleared the table (history)
  unsure,   \* flows the firmware may have forgotten since (history)
  leaked,   \* entries of stations that left unanswered (history)
  crossed,  \* a stale flow's DELETE was answered, or a clearing lost (history)
  early     \* RDD was armed between the clearing and the reset (history)

twt  == <<table, nAgrt, flows, present, agreed, stale, unsure, leaked, crossed>>
rdd  == <<rddEnabled, cacVif, fwRdd, early>>
event == <<radar, waits, freed>>
vars == <<twt, rdd, ap, event, fwUp, part, call, reset>>

FlowIds  == 0..(NFlows - 1)
Entries  == 0..(NEntries - 1)
Flows    == Stas \X FlowIds
\* What an evaluation finds: no channel, one it need not watch (no radar
\* channel, or one in its non-occupancy period), or one it must watch.
Channels == {"none", "plain", "radar"}
NoCall   == [op |-> "none"]

FlowsOf(s) == {x \in Flows : x[1] = s /\ flows[x] # None}
Lowest(n, S) == n \in S /\ \A m \in S : n <= m

Init ==
  /\ table = {} /\ nAgrt = 0 /\ present = {} /\ leaked = {}
  /\ flows = [x \in Flows |-> None] /\ agreed = {}
  /\ rddEnabled = FALSE /\ cacVif = FALSE /\ fwRdd = FALSE /\ early = FALSE
  /\ radar = "idle" /\ waits = FALSE /\ freed = TRUE
  /\ fwUp = TRUE /\ ap = FALSE /\ part \in Parts
  /\ call = NoCall /\ reset = "idle"
  /\ stale = {} /\ unsure = {} /\ crossed = FALSE

-----------------------------------------------------------------------------
(* TWT (mt7921/twt.c)                                                      *)

\* mt7921_mac_add_twt_setup, up to the ADD command. A request it refuses for
\* what the frame says changes nothing.
Setup(s) ==
  /\ call = NoCall /\ s \in present
  /\ nAgrt # NEntries
  /\ \E f \in FlowIds, e \in Entries :
       /\ Lowest(f, {g \in FlowIds : flows[<<s, g>>] = None})
       /\ Lowest(e, Entries \ table)
       /\ call' = [op |-> "add", flow |-> <<s, f>>, entry |-> e]
  /\ UNCHANGED <<twt, rdd, ap, fwUp, reset>>

\* Its answer, or the timeout: the firmware (did) may have done it all the same.
SetupAnswered(ok, did) ==
  /\ call.op = "add"
  /\ IF ok THEN /\ table' = table \cup {call.entry}
                /\ flows' = [flows EXCEPT ![call.flow] = call.entry]
                /\ nAgrt' = (nAgrt + 1) % 256
                /\ unsure' = IF reset = "cleared" THEN unsure \cup {call.flow}
                                                  ELSE unsure
           ELSE UNCHANGED <<table, flows, nAgrt, unsure>>
  /\ agreed' = IF did THEN agreed \cup {call.entry} ELSE agreed
  /\ call' = NoCall
  /\ UNCHANGED <<present, stale, leaked, crossed, rdd, ap, fwUp, reset>>

Delete(x, leaving) == [op |-> "delete", flow |-> x, leaving |-> leaving]

\* mt7921_twt_teardown_request: the flow's DELETE goes out.
Teardown(x) ==
  /\ call = NoCall /\ x[1] \in present /\ flows[x] # None
  /\ call' = Delete(x, FALSE)
  /\ UNCHANGED <<twt, rdd, ap, fwUp, reset>>

\* The table without the look at the answer (a mutant).
ClearedUnheard(ok, x) ==
  table' = table \ {flows[x]} /\ nAgrt' = (nAgrt + 255) % 256

\* mt7921_twt_teardown_flow: an unanswered DELETE leaves the flow as it was.
Cleared(ok, x) ==
  IF ok THEN /\ table' = table \ {flows[x]}
             /\ nAgrt' = (nAgrt + 255) % 256
        ELSE UNCHANGED <<table, nAgrt>>

FirmwareDeleted(did, x) ==
  /\ agreed' = IF did THEN agreed \ {flows[x]} ELSE agreed
  /\ crossed' = (crossed \/ x \in stale)

FlowDeleted(ok, x) ==
  IF ok THEN /\ flows' = [flows EXCEPT ![x] = None]
             /\ stale' = stale \ {x} /\ unsure' = unsure \ {x}
        ELSE unsure' = unsure \cup {x} /\ UNCHANGED <<flows, stale>>

TeardownAnswered(ok, did) ==
  /\ call.op = "delete" /\ ~call.leaving
  /\ Cleared(ok, call.flow) /\ FirmwareDeleted(did, call.flow)
  /\ FlowDeleted(ok, call.flow)
  /\ call' = NoCall
  /\ UNCHANGED <<present, leaked, rdd, ap, fwUp, reset>>

-----------------------------------------------------------------------------
(* Stations (mt76_sta_remove holds dev->mutex over the whole loop)         *)

StaAdd(s) ==
  /\ call = NoCall /\ ap /\ s \notin present
  /\ present' = present \cup {s}
  /\ UNCHANGED <<table, nAgrt, flows, agreed, stale, unsure, leaked, crossed,
                 rdd, ap, fwUp, call, reset>>

\* mt7921_mac_sta_remove: mt7921_twt_teardown_sta deletes flow by flow.
StaRemove(s) ==
  /\ call = NoCall /\ s \in present
  /\ IF FlowsOf(s) = {}
     THEN present' = present \ {s} /\ UNCHANGED call
     ELSE /\ \E f \in FlowIds : /\ Lowest(f, {x[2] : x \in FlowsOf(s)})
                               /\ call' = Delete(<<s, f>>, TRUE)
          /\ UNCHANGED present
  /\ UNCHANGED <<table, nAgrt, flows, agreed, stale, unsure, leaked, crossed,
                 rdd, ap, fwUp, reset>>

\* The next DELETE of the loop, or the station goes with what is left of it.
RemoveAnswered(ok, did) ==
  /\ call.op = "delete" /\ call.leaving
  /\ LET x    == call.flow
         mine == {y \in Flows : y[1] = x[1]}
         left == FlowsOf(x[1]) \ (IF ok THEN {x} ELSE {})
         todo == {y[2] : y \in {z \in left : z[2] > x[2]}}
     IN
     /\ Cleared(ok, x) /\ FirmwareDeleted(did, x)
     /\ \/ /\ \E f \in todo : Lowest(f, todo) /\ call' = Delete(<<x[1], f>>, TRUE)
           /\ FlowDeleted(ok, x)
           /\ UNCHANGED <<present, leaked>>
        \/ /\ todo = {}
           /\ call' = NoCall
           /\ present' = present \ {x[1]}
           /\ flows' = [y \in Flows |-> IF y \in mine THEN None ELSE flows[y]]
           /\ leaked' = leaked \cup {flows[y] : y \in left \ stale}
           /\ stale' = stale \ mine /\ unsure' = unsure \ mine
  /\ UNCHANGED <<rdd, ap, fwUp, reset>>

-----------------------------------------------------------------------------
(* Radar detection (mt7921/main.c)                                         *)

\* mt7921_dfs_rdd_disarm: the driver forgets first, and sends afterwards.
Disarm ==
  /\ rddEnabled' = FALSE /\ cacVif' = FALSE /\ early' = FALSE
  /\ call' = [op |-> "disarm"]
  /\ UNCHANGED fwRdd

\* __mt7921_dfs_rdd_eval for the channel c, with or without an AP interface.
Eval(c, vif) ==
  \/ /\ c = "none" \/ (c = "plain" /\ ~rddEnabled)
     /\ UNCHANGED <<rdd, call>>
  \/ c = "plain" /\ rddEnabled /\ Disarm
  \/ /\ c = "radar" /\ rddEnabled
     /\ cacVif' = (cacVif \/ vif)
     /\ UNCHANGED <<rddEnabled, fwRdd, early, call>>
  \/ /\ c = "radar" /\ ~rddEnabled
     /\ call' = [op |-> "arm", vif |-> vif]
     /\ UNCHANGED rdd

\* The answer to an RDD command ends the callback, or reset_work.
RddDone ==
  /\ call' = NoCall
  /\ reset' = IF reset = "eval" THEN "idle" ELSE reset
  /\ UNCHANGED <<twt, ap, fwUp>>

ArmAnswered(ok, did) ==
  /\ call.op = "arm" /\ RddDone
  /\ rddEnabled' = ok
  /\ cacVif' = (cacVif \/ (ok /\ call.vif))
  /\ fwRdd' = (fwRdd \/ did)
  /\ early' = (ok /\ reset = "cleared")

\* mt7921_dfs_rdd_disarm does not look at the answer.
DisarmAnswered(did) ==
  /\ call.op = "disarm" /\ RddDone
  /\ fwRdd' = (fwRdd /\ ~did)
  /\ UNCHANGED <<rddEnabled, cacVif, early>>

\* mt7921_add_chanctx, for a CAC, a start of the AP or a channel switch:
\* whatever the interface, the evaluation does not get it.
AddChanctx(c) ==
  /\ call = NoCall
  /\ Eval(c, FALSE)
  /\ UNCHANGED <<twt, ap, fwUp, reset>>

\* mt7921_change_chanctx, and mt7921_bss_info_changed when the beacon comes or
\* goes: the evaluation gets the interface.
ApChanged(c) ==
  /\ call = NoCall /\ ap
  /\ Eval(c, TRUE)
  /\ UNCHANGED <<twt, ap, fwUp, reset>>

\* mac80211 adds the AP interface, a new one or the one that was there;
\* mt7921_add_interface has no part in this.
ApAdd ==
  /\ call = NoCall /\ ~ap
  /\ ap' = TRUE /\ waits' = FALSE /\ freed' = FALSE
  /\ UNCHANGED <<twt, rdd, radar, fwUp, call, reset>>

\* Without the lines under mt7921_remove_interface's mutex (a mutant).
ApRemoveKeepsVif ==
  /\ call = NoCall /\ ap /\ present = {}
  /\ ap' = FALSE /\ waits' = (radar # "idle")
  /\ UNCHANGED <<twt, rdd, radar, freed, fwUp, call, reset>>

\* mt7921_remove_interface; RDD stays as it is. A grace period begins: it ends
\* when the RX worker, if it is in the handler, leaves its RCU section.
ApRemove ==
  /\ call = NoCall /\ ap /\ present = {}
  /\ ap' = FALSE /\ waits' = (radar # "idle")
  /\ cacVif' = FALSE
  /\ UNCHANGED <<twt, rddEnabled, fwRdd, early, radar, freed, fwUp, call, reset>>

\* mac80211 frees the interface; a handler that has begun since does not count.
VifFreed ==
  /\ part = "rdd" /\ ~ap /\ ~waits
  /\ freed' = TRUE
  /\ UNCHANGED <<twt, rdd, ap, radar, waits, fwUp, call, reset>>

\* mt7921_radar_detected_event, in rx_worker and outside the mutex: the event,
\* which may have waited in the queue, finds an interface on record ...
RadarSeen ==
  /\ part = "rdd" /\ radar = "idle" /\ cacVif
  /\ radar' = "seen"
  /\ UNCHANGED <<twt, rdd, ap, waits, freed, fwUp, call, reset>>

\* ... reports it ...
RadarReport ==
  /\ radar = "seen"
  /\ radar' = "told"
  /\ UNCHANGED <<twt, rdd, ap, waits, freed, fwUp, call, reset>>

\* ... and clears the record, whatever is in it by now.
RadarClear ==
  /\ radar = "told"
  /\ radar' = "idle" /\ waits' = FALSE
  /\ cacVif' = FALSE
  /\ UNCHANGED <<twt, rddEnabled, fwRdd, early, ap, freed, fwUp, call, reset>>

-----------------------------------------------------------------------------
(* reset_work (mt7921_mac_reset_work)                                      *)

\* The clearing without dfs_state.rdd_enabled (a mutant).
ResetClearKeepsRdd ==
  /\ reset = "idle"
  /\ reset' = "cleared"
  /\ table' = {} /\ nAgrt' = 0 /\ cacVif' = FALSE
  /\ stale' = {x \in Flows : flows[x] # None}
  /\ unsure' = {} /\ leaked' = {} /\ crossed' = FALSE /\ early' = FALSE
  /\ UNCHANGED <<flows, present, agreed, rddEnabled, fwRdd, ap, fwUp, call>>

\* Lines 797 to 822, without dev->mutex: a callback that is just adding to the
\* table or taking from it (twt.c:174, 248) may overwrite either zero.
ResetClear ==
  /\ reset = "idle"
  /\ reset' = "cleared"
  /\ \/ table' = {} /\ nAgrt' = 0 /\ crossed' = FALSE
     \/ /\ call.op \in {"add", "delete"}
        /\ table' \in {{}, table} /\ nAgrt' \in {0, nAgrt} /\ crossed' = TRUE
  /\ rddEnabled' = FALSE /\ cacVif' = FALSE /\ early' = FALSE
  /\ stale' = {x \in Flows : flows[x] # None}
  /\ unsure' = {} /\ leaked' = {}
  /\ UNCHANGED <<flows, present, agreed, fwRdd, ap, fwUp, call>>

FirmwareForgets ==
  agreed' = {} /\ fwRdd' = FALSE

\* mt792x_dev_reset under the mutex: the firmware starts anew ...
ResetWorks ==
  /\ reset = "cleared" /\ call = NoCall
  /\ reset' = "tail" /\ fwUp' = TRUE
  /\ FirmwareForgets
  /\ UNCHANGED <<table, nAgrt, flows, present, stale, unsure, leaked, crossed,
                 rddEnabled, cacVif, early, ap, call>>

\* ... or the attempt fails, with or without the firmware; ten end the loop. A
\* hung bus ends reset_work here, and the instance with it (UsbRecovery).
ResetFails ==
  /\ reset = "cleared" /\ call = NoCall
  /\ reset' \in {"cleared", "tail"}
  /\ \/ fwUp' = FALSE /\ FirmwareForgets
     \/ UNCHANGED <<fwUp, agreed, fwRdd>>
  /\ UNCHANGED <<table, nAgrt, flows, present, stale, unsure, leaked, crossed,
                 rddEnabled, cacVif, early, ap, call>>

\* mt7921_dfs_offload_update, the last but one line of reset_work: the AP's
\* channel, if it has one.
ResetTail(c) ==
  /\ reset = "tail" /\ call = NoCall
  /\ c # "none" => ap /\ part = "rdd"
  /\ Eval(c, TRUE)
  /\ reset' = IF call' = NoCall THEN "idle" ELSE "eval"
  /\ UNCHANGED <<twt, ap, fwUp>>

-----------------------------------------------------------------------------
Answer ==
  \E ok, did \in BOOLEAN :
    /\ ok => did
    /\ did => fwUp
    /\ \/ SetupAnswered(ok, did)
       \/ TeardownAnswered(ok, did)
       \/ RemoveAnswered(ok, did)
       \/ ArmAnswered(ok, did)
       \/ DisarmAnswered(did)

TwtNext ==
  /\ part = "twt"
  /\ \/ \E s \in Stas : Setup(s) \/ StaAdd(s) \/ StaRemove(s)
     \/ \E x \in Flows : Teardown(x)

RddNext ==
  /\ part = "rdd"
  /\ \E c \in Channels : AddChanctx(c) \/ ApChanged(c)

Radar == RadarSeen \/ RadarReport \/ RadarClear

Record ==
  \/ TwtNext \/ RddNext
  \/ Answer
  \/ ResetClear \/ ResetWorks \/ ResetFails
  \/ \E c \in Channels : ResetTail(c)

Next ==
  /\ UNCHANGED part
  /\ \/ Record /\ UNCHANGED event
     \/ ApAdd \/ ApRemove \/ VifFreed
     \/ Radar

Spec == Init /\ [][Next]_vars

-----------------------------------------------------------------------------
Calls ==
  {NoCall, [op |-> "disarm"]}
  \cup [op : {"add"}, flow : Flows, entry : Entries]
  \cup [op : {"delete"}, flow : Flows, leaving : BOOLEAN]
  \cup [op : {"arm"}, vif : BOOLEAN]

TwtType ==
  /\ table \subseteq Entries /\ leaked \subseteq Entries /\ agreed \subseteq Entries
  /\ nAgrt \in 0..255 /\ present \subseteq Stas
  /\ flows \in [Flows -> Entries \cup {None}]
  /\ stale \subseteq Flows /\ unsure \subseteq Flows /\ crossed \in BOOLEAN

RddType ==
  /\ rddEnabled \in BOOLEAN /\ cacVif \in BOOLEAN
  /\ fwRdd \in BOOLEAN /\ early \in BOOLEAN

RecordType ==
  /\ TwtType /\ RddType
  /\ ap \in BOOLEAN /\ fwUp \in BOOLEAN /\ part \in Parts /\ call \in Calls
  /\ reset \in {"idle", "cleared", "tail", "eval"}

EventType ==
  radar \in {"idle", "seen", "told"} /\ waits \in BOOLEAN /\ freed \in BOOLEAN

TypeOK == RecordType /\ EventType

\* The flows set up since the last reset, and their entries.
Fresh == {x \in Flows : flows[x] # None} \ stale
Held  == {flows[x] : x \in Fresh}

\* The table of agreements and its count (twt.c:198, 217) are what the
\* stations' masks add up to: no entry serves two flows, none is lost but with
\* a station whose DELETE went unanswered, and the count is the table's, through
\* lost answers, stations that leave half way and resets that clear the table
\* under a command (mac.c:806); until a flow from before the reset is torn down,
\* or the clearing itself is lost to a callback.
TableMatchesFlows ==
  /\ TypeOK
  /\ ~crossed =>
       /\ \A x, y \in Fresh : flows[x] = flows[y] => x = y
       /\ Held \cap leaked = {}
       /\ table = Held \cup leaked
       /\ nAgrt = Cardinality(table)

\* An accepted agreement is one the firmware schedules.
AcceptedIsScheduled ==
  ~crossed => \A x \in Fresh \ unsure : flows[x] \in agreed

\* RDD that the driver takes for armed is armed, or no later evaluation would
\* arm it again (main.c:1973).
ArmedIsWatching == rddEnabled /\ ~early => fwRdd

\* What the driver has on record the firmware does (twt.c:169, main.c:1908,
\* mac.c:818): a lost answer never leaves an agreement or an armed RDD that is
\* not there. What a command answered between the clearing and the chip reset
\* records is the exception (unsure, early).
FirmwareKnows == AcceptedIsScheduled /\ ArmedIsWatching

VifOnRecord == cacVif \/ (call.op = "arm" /\ call.vif) => ap

\* The interface on record for a radar event exists (main.c:803-807), whichever
\* evaluation set it and whatever answer it waited for; and the one the handler
\* has found and is about to report (main.c:2031), without a lock, is not freed
\* under it: if it was removed since, its grace period waits for the handler.
ReportedVifIsThere ==
  /\ VifOnRecord
  /\ radar = "seen" => (ap \/ waits) /\ ~freed

\* The code does not have this one (README, section 4): a removal or a reset
\* between main.c:2031 and the second read of cac_vif in 2032 leaves none.
ReportFindsVif == [][RadarReport => cacVif]_vars

Symmetry == Permutations(Stas)
=============================================================================
