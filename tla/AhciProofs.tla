----------------------------- MODULE AhciProofs -----------------------------
(***************************************************************************)
(* Proofs about Ahci, for every set of ports and every number of slots.    *)
(***************************************************************************)
EXTENDS Ahci, NumberLemmas

\* ahci_init establishes the invariant.
LEMMA AhciInitInv == Init => AhciInv
<1> SUFFICES ASSUME Init PROVE AhciInv
  OBVIOUS
<1>1. Min(PORTS) \in PORTS
  BY AhciAssumption, MinNat
<1>2. Types /\ Engine
  BY <1>1 DEF Init, Types, Engine
<1>3. HotPlug /\ Command
  BY DEF Init, HotPlug, StatusFollows, Pending, Command, ResultHonest
<1> QED BY <1>2, <1>3 DEF AhciInv

\* Every step of the driver, the handler and the adapter keeps the invariant.
LEMMA AhciNextInv == AhciInv /\ [Next]_vars => AhciInv'
<1> SUFFICES ASSUME AhciInv, [Next]_vars PROVE AhciInv'
  OBVIOUS
<1> USE DEF hba, driver, command, handler, history
<1>1. CASE cmd_begin
  <2>1. Types'
    BY <1>1 DEF AhciInv, Types, cmd_begin, At
  <2>2. Engine'
    BY <1>1 DEF AhciInv, Types, Engine, cmd_begin, At
  <2>3. HotPlug'
    BY <1>1 DEF AhciInv, Types, HotPlug, StatusFollows, Pending, Ready, cmd_begin, At
  <2>4. Command'
    BY <1>1 DEF AhciInv, Types, Engine, Command, ResultHonest, cmd_begin, At
  <2> QED BY <2>1, <2>2, <2>3, <2>4 DEF AhciInv
<1>2. CASE cmd_slot
  <2>1. Types'
    <3>1. FreeSlots # {} => Min(FreeSlots) \in Slots
      BY MinNat DEF FreeSlots, Slots
    <3> QED BY <1>2, <3>1 DEF AhciInv, Types, Slots, cmd_slot, Return
  <2>2. Engine'
    BY <1>2 DEF AhciInv, Types, Engine, cmd_slot, Return
  <2>3. HotPlug'
    BY <1>2 DEF AhciInv, Types, HotPlug, StatusFollows, Pending, Ready, cmd_slot, Return
  <2>4. Command'
    BY <1>2 DEF AhciInv, Types, Engine, Command, ResultHonest, cmd_slot, Return
  <2> QED BY <2>1, <2>2, <2>3, <2>4 DEF AhciInv
<1>3. CASE cmd_fill
  <2>1. Types'
    BY <1>3 DEF AhciInv, Types, cmd_fill, At
  <2>2. Engine'
    BY <1>3 DEF AhciInv, Types, Engine, cmd_fill, At
  <2>3. HotPlug'
    BY <1>3 DEF AhciInv, Types, HotPlug, StatusFollows, Pending, Ready, cmd_fill, At
  <2>4. Command'
    BY <1>3 DEF AhciInv, Types, Engine, Command, ResultHonest, cmd_fill, At
  <2> QED BY <2>1, <2>2, <2>3, <2>4 DEF AhciInv
<1>4. CASE cmd_ready
  <2>1. Types'
    BY <1>4 DEF AhciInv, Types, cmd_ready, At
  <2>2. Engine'
    BY <1>4 DEF AhciInv, Types, Engine, cmd_ready, At
  <2>3. HotPlug'
    BY <1>4 DEF AhciInv, Types, HotPlug, StatusFollows, Pending, Ready, cmd_ready, At
  <2>4. Command'
    BY <1>4 DEF AhciInv, Types, Engine, Command, ResultHonest, cmd_ready, At
  <2> QED BY <2>1, <2>2, <2>3, <2>4 DEF AhciInv
<1>5. CASE cmd_hung
  <2>1. Types'
    BY <1>5 DEF AhciInv, Types, cmd_hung, Return
  <2>2. Engine'
    BY <1>5 DEF AhciInv, Types, Engine, cmd_hung, Return
  <2>3. HotPlug'
    BY <1>5 DEF AhciInv, Types, HotPlug, StatusFollows, Pending, Ready, cmd_hung, Return
  <2>4. Command'
    BY <1>5 DEF AhciInv, Types, Engine, Command, ResultHonest, cmd_hung, Return
  <2> QED BY <2>1, <2>2, <2>3, <2>4 DEF AhciInv
<1>6. CASE cmd_issue
  <2>1. Types'
    BY <1>6 DEF AhciInv, Types, cmd_issue, At
  <2>2. Engine'
    BY <1>6 DEF AhciInv, Types, Engine, cmd_issue, At
  <2>3. HotPlug'
    BY <1>6 DEF AhciInv, Types, HotPlug, StatusFollows, Pending, Ready, cmd_issue, At
  <2>4. Command'
    BY <1>6 DEF AhciInv, Types, Engine, Command, ResultHonest, cmd_issue, At
  <2> QED BY <2>1, <2>2, <2>3, <2>4 DEF AhciInv
<1>7. CASE cmd_wait
  <2>1. Types'
    BY <1>7 DEF AhciInv, Types, cmd_wait, Return, Finished, Failed
  <2>2. Engine'
    BY <1>7 DEF AhciInv, Types, Engine, cmd_wait, Return, Finished, Failed
  <2>3. HotPlug'
    BY <1>7 DEF AhciInv, Types, HotPlug, StatusFollows, Pending, Ready, cmd_wait, Return,
       Finished, Failed
  <2>4. Command'
    BY <1>7 DEF AhciInv, Types, Engine, Command, ResultHonest, cmd_wait, Return, Finished,
       Failed
  <2> QED BY <2>1, <2>2, <2>3, <2>4 DEF AhciInv
<1>8. CASE scan_update
  <2>1. Types'
    <3>1. /\ pc' = "idle" /\ slot' = 0
          /\ UNCHANGED <<is, gis, port, n, hpc, hports>>
      BY <1>8 DEF scan_update, At, handler
    <3>2. /\ ci' = ci \/ ci' = [ci EXCEPT ![port] = {}]
          /\ table' = table \/ table' = [table EXCEPT ![port] = [s \in Slots |-> 0]]
      BY <1>8 DEF scan_update, Update, ahci_port_rebase, stop_cmd
    <3>3. ci' \in [PORTS -> SUBSET Slots] /\ table' \in [PORTS -> [Slots -> Nat]]
      <4>1. /\ port \in PORTS /\ ci \in [PORTS -> SUBSET Slots]
            /\ table \in [PORTS -> [Slots -> Nat]]
        BY DEF AhciInv, Types
      <4>2. {} \in SUBSET Slots /\ [s \in Slots |-> 0] \in [Slots -> Nat]
        OBVIOUS
      <4>3. ci' \in [PORTS -> SUBSET Slots]
        BY <3>2, <4>1, <4>2
      <4>4. table' \in [PORTS -> [Slots -> Nat]]
        BY <3>2, <4>1, <4>2
      <4> QED BY <4>3, <4>4
    <3> QED BY <3>1, <3>3 DEF AhciInv, Types
  <2>2. Engine'
    BY <1>8 DEF AhciInv, Types, Engine, scan_update, At, Update, ahci_port_rebase, stop_cmd
  <2>3. HotPlug'
    BY <1>8 DEF AhciInv, Types, HotPlug, StatusFollows, Pending, Ready, scan_update, At,
       Update, ahci_port_rebase, stop_cmd
  <2>4. Command'
    BY <1>8 DEF AhciInv, Types, Engine, Command, ResultHonest, scan_update, At, Update,
       ahci_port_rebase, stop_cmd
  <2> QED BY <2>1, <2>2, <2>3, <2>4 DEF AhciInv
<1>9. CASE irq_ack
  <2>1. Types'
    BY <1>9 DEF AhciInv, Types, Slots, irq_ack
  <2>2. Engine'
    BY <1>9 DEF AhciInv, Types, Engine, Slots, irq_ack
  <2>3. HotPlug'
    <3>1. Min(hports) \in PORTS
      BY <1>9, AhciAssumption, MinNat DEF AhciInv, Types, irq_ack
    <3> QED BY <1>9, <3>1 DEF AhciInv, Types, HotPlug, StatusFollows, Pending, irq_ack
  <2>4. Command'
    BY <1>9 DEF AhciInv, Types, Engine, Command, ResultHonest, Slots, irq_ack
  <2> QED BY <2>1, <2>2, <2>3, <2>4 DEF AhciInv
<1>10. CASE irq_check
  <2>1. Types'
    BY <1>10 DEF AhciInv, Types, Slots, irq_check, Update, ahci_port_rebase, stop_cmd,
       Present
  <2>2. Engine'
    BY <1>10 DEF AhciInv, Types, Engine, Slots, irq_check, Update, ahci_port_rebase,
       stop_cmd, Present
  <2>3. HotPlug'
    BY <1>10 DEF AhciInv, Types, HotPlug, StatusFollows, Pending, irq_check, Update,
       ahci_port_rebase, stop_cmd, Present
  <2>4. Command'
    BY <1>10 DEF AhciInv, Types, Engine, Command, ResultHonest, Slots, irq_check, Update,
       ahci_port_rebase, stop_cmd, Present
  <2> QED BY <2>1, <2>2, <2>3, <2>4 DEF AhciInv
<1>11. CASE irq_return
  <2>1. Types'
    BY <1>11 DEF AhciInv, Types, Slots, irq_return
  <2>2. Engine'
    BY <1>11 DEF AhciInv, Types, Engine, Slots, irq_return
  <2>3. HotPlug'
    BY <1>11 DEF AhciInv, Types, HotPlug, StatusFollows, Pending, irq_return
  <2>4. Command'
    BY <1>11 DEF AhciInv, Types, Engine, Command, ResultHonest, Slots, irq_return
  <2> QED BY <2>1, <2>2, <2>3, <2>4 DEF AhciInv
<1>12. CASE irq_enter
  <2>1. Types'
    BY <1>12 DEF AhciInv, Types, irq_enter, Signalled
  <2>2. Engine'
    BY <1>12 DEF AhciInv, Types, Engine, irq_enter, Signalled
  <2>3. HotPlug'
    BY <1>12 DEF AhciInv, Types, HotPlug, StatusFollows, Pending, Ready, irq_enter,
       Signalled
  <2>4. Command'
    BY <1>12 DEF AhciInv, Types, Engine, Command, ResultHonest, irq_enter, Signalled
  <2> QED BY <2>1, <2>2, <2>3, <2>4 DEF AhciInv
<1>13. ASSUME NEW p \in PORTS, NEW on \in BOOLEAN, cmd_start(p, on)
      PROVE  AhciInv'
  <2>1. Types'
    BY <1>13 DEF AhciInv, Types, cmd_start, Return
  <2>2. Engine'
    BY <1>13 DEF AhciInv, Types, Engine, cmd_start, Return
  <2>3. HotPlug'
    BY <1>13 DEF AhciInv, Types, HotPlug, StatusFollows, Pending, Ready, cmd_start, Return
  <2>4. Command'
    BY <1>13 DEF AhciInv, Types, Engine, Command, ResultHonest, cmd_start, Return
  <2> QED BY <2>1, <2>2, <2>3, <2>4 DEF AhciInv
<1>14. ASSUME NEW p \in PORTS, scan_check(p) PROVE AhciInv'
  <2>1. Types'
    BY <1>14 DEF AhciInv, Types, scan_check, At, Present
  <2>2. Engine'
    BY <1>14 DEF AhciInv, Types, Engine, scan_check, At, Present
  <2>3. HotPlug'
    BY <1>14 DEF AhciInv, Types, HotPlug, StatusFollows, Pending, Ready, scan_check, At,
       Present
  <2>4. Command'
    BY <1>14 DEF AhciInv, Types, Engine, Command, ResultHonest, scan_check, At, Present
  <2> QED BY <2>1, <2>2, <2>3, <2>4 DEF AhciInv
<1>15. ASSUME NEW p \in PORTS, hot_plug(p) PROVE AhciInv'
  <2>1. Types'
    BY <1>15 DEF AhciInv, Types, Slots, hot_plug, Raise
  <2>2. Engine'
    BY <1>15 DEF AhciInv, Types, Engine, Slots, hot_plug, Raise
  <2>3. HotPlug'
    BY <1>15 DEF AhciInv, Types, HotPlug, StatusFollows, Pending, hot_plug, Raise
  <2>4. Command'
    BY <1>15 DEF AhciInv, Types, Engine, Command, ResultHonest, Slots, hot_plug, Raise
  <2> QED BY <2>1, <2>2, <2>3, <2>4 DEF AhciInv
<1>16. ASSUME NEW p \in PORTS, NEW s \in Slots, NEW ok \in BOOLEAN, hba_execute(p, s, ok)
      PROVE  AhciInv'
  <2>1. PICK bit \in {"TFES", "DHRS"} :
          /\ is' = [is EXCEPT ![p] = @ \cup {bit}] /\ gis' = gis \cup {p}
          /\ ci' \in {ci, [ci EXCEPT ![p] = @ \ {s}]}
    BY <1>16 DEF hba_execute, Raise
  <2>2. Types'
    <3>1. is' \in [PORTS -> SUBSET {"TFES", "PCS", "DHRS"}] /\ gis' \in SUBSET PORTS
      BY <2>1 DEF AhciInv, Types
    <3>2. ci' \in [PORTS -> SUBSET Slots]
      BY <2>1 DEF AhciInv, Types
    <3>3. UNCHANGED <<table, command, handler>>
      BY <1>16 DEF hba_execute
    <3> QED BY <3>1, <3>2, <3>3 DEF AhciInv, Types, Slots
  <2>3. Engine'
    BY <1>16 DEF AhciInv, Types, Engine, hba_execute, Raise
  <2>4. HotPlug'
    <3>1. /\ \A q \in PORTS : "PCS" \in is'[q] <=> "PCS" \in is[q]
          /\ gis \subseteq gis'
      BY <2>1 DEF AhciInv, Types
    <3>2. hpc = "check" => Min(hports) \in PORTS
      BY AhciAssumption, MinNat DEF AhciInv, Types, HotPlug
    <3> QED BY <1>16, <3>1, <3>2 DEF AhciInv, Types, HotPlug, StatusFollows, Pending,
               hba_execute
  <2>5. Command'
    BY <1>16 DEF AhciInv, Types, Engine, Command, ResultHonest, Slots, hba_execute, Raise
  <2> QED BY <2>2, <2>3, <2>4, <2>5 DEF AhciInv
<1>17. CASE UNCHANGED vars
  BY <1>17 DEF AhciInv, Types, Engine, HotPlug, Pending, StatusFollows, Command,
               ResultHonest,
     vars
<1> QED BY <1>1, <1>2, <1>3, <1>4, <1>5, <1>6, <1>7, <1>8, <1>9, <1>10, <1>11, <1>12, <1>13,
           <1>14, <1>15, <1>16, <1>17 DEF Next, cpu, ahci_identify, ahci_read, ahci_write
-----------------------------------------------------------------------------
\* The invariant that joins what the adapter, the handler and the command know.
THEOREM AhciInvariant == Spec => []AhciInv
BY AhciInitInv, AhciNextInv, PTL DEF Spec

\* ahci_read, ahci_write and ahci_identify do not report a transfer that did not happen,
\* or deny one that did, unless the port was not running all the time.
THEOREM AhciResultHonest == Spec => []ResultHonest
<1>1. AhciInv => ResultHonest
  BY DEF AhciInv, Command
<1> QED BY <1>1, AhciInvariant, PTL

\* The adapter executes nothing after the call that issued it has returned.
THEOREM AhciNoLateTransfer == Spec => []NoLateTransfer
<1>1. AhciInv => NoLateTransfer
  BY DEF AhciInv, Engine, NoLateTransfer
<1> QED BY <1>1, AhciInvariant, PTL

\* port_status follows the drives through the handler and the scan.
THEOREM AhciStatusFollows == Spec => []StatusFollows
<1>1. AhciInv => StatusFollows
  BY DEF AhciInv, HotPlug
<1> QED BY <1>1, AhciInvariant, PTL
=============================================================================
