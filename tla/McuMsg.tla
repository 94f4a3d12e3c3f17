------------------------------- MODULE McuMsg -------------------------------
(***************************************************************************)
(* Commands to the firmware over USB (mcu.c, mt7921u_mcu_send_message,     *)
(* mt7921_mcu_parse_response): senders serialised by mcu.mutex, a 4-bit    *)
(* sequence number that skips 0, answers that come late or never and wait  *)
(* in mcu.res_q for whoever looks next, and the chip reset that purges the *)
(* queue. Commands are numbered in the order they are sent.                *)
(*                                                                         *)
(* What a timeout does to the recovery ladder is in UsbRecovery.           *)
(***************************************************************************)
EXTENDS Naturals, Sequences, FiniteSets

CONSTANTS
  Senders,   \* threads that send commands
  Cids,      \* command ids of unified commands
  SeqSpace,  \* sequence numbers (16)
  Late,      \* the firmware answers a command while at most this many are newer
  MaxCmds    \* bound: commands sent

ASSUME McuConstants ==
  /\ SeqSpace \in Nat /\ SeqSpace > 2 /\ Cids # {}
  /\ Late \in Nat /\ MaxCmds \in Nat

VARIABLES
  msgSeq,    \* mcu.msg_seq modulo SeqSpace
  sent,      \* number of commands sent so far (history)
  mutex,     \* mcu.mutex: the set of its holders
  pc,        \* of each sender: "idle", "lock", "wait"
  cmd,       \* the command each sender is at
  fw,        \* commands the firmware has and may still answer
  resQ,      \* mcu.res_q
  mcuReset,  \* MT76_MCU_RESET
  reset,     \* where mt7921u_mac_reset is: "no", "purged", "chip"
  last       \* how the last command ended (history)

mcuVars == <<msgSeq, sent, mutex, pc, cmd, fw, resQ, mcuReset, reset, last>>

Kinds == {"uni", "plain", "nowait"}   \* unified; others; sent without waiting
Commands == [id : 0..MaxCmds, kind : Kinds, cid : Cids, seq : 0..(SeqSpace - 1)]
NoCommand == [id |-> 0, kind |-> "plain", cid |-> CHOOSE c \in Cids : TRUE, seq |-> 0]
Prepared(kind, cid) == [id |-> 0, kind |-> kind, cid |-> cid, seq |-> 0]
NoEnd == [how |-> "none"]
Ends ==
  {NoEnd}
    \cup [how : {"answer"}, of : Commands, by : Commands]
    \cup [how : {"sent", "error", "timeout"}]

McuTypeOK ==
  /\ msgSeq \in 0..(SeqSpace - 1) /\ sent \in 0..MaxCmds
  /\ mutex \subseteq Senders
  /\ pc \in [Senders -> {"idle", "lock", "wait"}]
  /\ cmd \in [Senders -> Commands]
  /\ fw \subseteq Commands /\ resQ \in Seq(Commands)
  /\ mcuReset \in BOOLEAN /\ reset \in {"no", "purged", "chip"}
  /\ last \in Ends
  /\ \A s \in Senders : pc[s] = "wait" => mutex = {s} /\ cmd[s].seq # 0

McuInit ==
  /\ msgSeq = 0 /\ sent = 0 /\ mutex = {}
  /\ pc = [s \in Senders |-> "idle"]
  /\ cmd = [s \in Senders |-> NoCommand]
  /\ fw = {} /\ resQ = <<>> /\ mcuReset = FALSE /\ reset = "no"
  /\ last = NoEnd

-----------------------------------------------------------------------------
(* mt76_connac2_mcu_fill_message: 0 marks an event nobody asked for. *)
NextSeq(s) == IF (s + 1) % SeqSpace = 0 THEN 1 ELSE (s + 1) % SeqSpace

(* Mutant: the sequence number of an answer is not looked at. *)
AcceptsAny(c, r) == c.kind = "uni" => c.cid = r.cid

(* mt7921_mcu_parse_response: anything else is -EAGAIN, the next one is    *)
(* looked at. Only unified commands compare the command id.                *)
Accepts(c, r) == c.seq = r.seq /\ (c.kind = "uni" => c.cid = r.cid)

Call(s, kind, cid) ==
  /\ pc[s] = "idle" /\ pc' = [pc EXCEPT ![s] = "lock"]
  /\ cmd' = [cmd EXCEPT ![s] = Prepared(kind, cid)]
  /\ UNCHANGED <<msgSeq, sent, mutex, fw, resQ, mcuReset, reset, last>>

(* The firmware gets the message unless the chip is being reset, and has    *)
(* given up on what is too old.                                             *)
Deliver(c) ==
  fw' = {m \in fw : c.id - m.id <= Late} \cup (IF reset = "chip" THEN {} ELSE {c})

SendDone(s, end) ==
  /\ pc' = [pc EXCEPT ![s] = "idle"] /\ last' = end
  /\ cmd' = [cmd EXCEPT ![s] = NoCommand] /\ UNCHANGED mutex

(* The message goes out on the bulk pipe, or mt76u_bulk_msg fails.          *)
Send(s) ==
  /\ pc[s] = "lock" /\ mutex = {} /\ sent < MaxCmds
  /\ LET c == [cmd[s] EXCEPT !.id = sent + 1, !.seq = NextSeq(msgSeq)]
     IN /\ msgSeq' = c.seq /\ sent' = sent + 1
        /\ \/ /\ c.kind # "nowait" /\ Deliver(c)
              /\ pc' = [pc EXCEPT ![s] = "wait"] /\ mutex' = {s}
              /\ cmd' = [cmd EXCEPT ![s] = c] /\ UNCHANGED last
           \/ /\ c.kind = "nowait" /\ Deliver(c)
              /\ SendDone(s, [how |-> "sent"])
           \/ SendDone(s, [how |-> "error"]) /\ UNCHANGED fw
  /\ UNCHANGED <<resQ, mcuReset, reset>>

Return(s, end) ==
  /\ pc' = [pc EXCEPT ![s] = "idle"] /\ mutex' = {} /\ last' = end
  /\ cmd' = [cmd EXCEPT ![s] = NoCommand]
  /\ UNCHANGED <<msgSeq, sent, fw, mcuReset, reset>>

(* mt76_mcu_get_response found something. *)
Take(s) ==
  /\ pc[s] = "wait" /\ resQ # <<>> /\ resQ' = Tail(resQ)
  /\ IF Accepts(cmd[s], Head(resQ))
     THEN Return(s, [how |-> "answer", of |-> cmd[s], by |-> Head(resQ)])
     ELSE UNCHANGED <<msgSeq, sent, mutex, pc, cmd, fw, mcuReset, reset, last>>

(* Mutant: the mutex is kept on the timeout path. *)
GiveUpLocked(s) ==
  /\ pc[s] = "wait" /\ pc' = [pc EXCEPT ![s] = "idle"]
  /\ last' = [how |-> "timeout"]
  /\ UNCHANGED <<msgSeq, sent, mutex, cmd, fw, resQ, mcuReset, reset>>

(* The time is over, also when an answer comes at this very moment, or      *)
(* MT76_MCU_RESET ends the wait. The message is not sent again, whatever    *)
(* max_retry says: that takes the original buffer, which is kept only where *)
(* the bus has mcu_skb_prepare_msg, and USB has not.                        *)
GiveUp(s) ==
  /\ pc[s] = "wait" /\ UNCHANGED resQ
  /\ Return(s, [how |-> "timeout"])

-----------------------------------------------------------------------------
(* The firmware answers some command; mt7921_mcu_rx_event queues the answer *)
(* unless its sequence number is 0.                                         *)
Answer(m) ==
  /\ m \in fw /\ fw' = fw \ {m}
  /\ resQ' = IF m.seq = 0 THEN resQ ELSE Append(resQ, m)
  /\ UNCHANGED <<msgSeq, sent, mutex, pc, cmd, mcuReset, reset, last>>

(* mt7921u_mac_reset: the queue is purged while answers still come in, then *)
(* RX stops and the chip forgets all commands.                              *)
ResetPurge ==
  /\ reset = "no" /\ reset' = "purged" /\ mcuReset' = TRUE /\ resQ' = <<>>
  /\ UNCHANGED <<msgSeq, sent, mutex, pc, cmd, fw, last>>

ResetChip ==
  /\ reset = "purged" /\ reset' = "chip" /\ fw' = {}
  /\ UNCHANGED <<msgSeq, sent, mutex, pc, cmd, resQ, mcuReset, last>>

ResetEnd ==
  /\ reset = "chip" /\ reset' = "no" /\ mcuReset' = FALSE
  /\ UNCHANGED <<msgSeq, sent, mutex, pc, cmd, fw, resQ, last>>

McuNext ==
  \/ \E s \in Senders :
       \/ \E kind \in Kinds, cid \in Cids : Call(s, kind, cid)
       \/ Send(s) \/ Take(s) \/ GiveUp(s)
  \/ \E m \in fw : Answer(m)
  \/ ResetPurge \/ ResetChip \/ ResetEnd

McuSpec == McuInit /\ [][McuNext]_mcuVars

(* Timeouts expire, and a mutex that becomes free again and again is got.   *)
McuFairness == \A s \in Senders : WF_mcuVars(GiveUp(s)) /\ SF_mcuVars(Send(s))

McuFairSpec == McuSpec /\ McuFairness

-----------------------------------------------------------------------------
(* Properties. *)

(* Whatever is late, lost, purged or left in the queue by a sender that     *)
(* gave up: a command takes the answer of another one only when the         *)
(* sequence numbers came full circle between the two, and a unified command *)
(* only one with its command id. And who waits has the mutex and a sequence *)
(* number that no unasked event carries (in McuTypeOK).                     *)
AnswersOwnCommand ==
  /\ McuTypeOK
  /\ last.how = "answer" =>
       /\ (last.of.id - last.by.id) % (SeqSpace - 1) = 0
       /\ last.of.kind = "uni" => last.of.cid = last.by.cid

(* Every sender gets the mutex and an answer or an error, whatever the      *)
(* firmware does; a bound on the number of commands may stop it.            *)
EverySenderReturns ==
  \A s \in Senders :
    pc[s] # "idle" ~> pc[s] = "idle" \/ (pc[s] = "lock" /\ sent = MaxCmds)
=============================================================================
