--------------------------------- MODULE Ahci -------------------------------
(***************************************************************************)
(* The AHCI driver, src/drivers/ahci.c, and the host bus adapter.          *)
(*                                                                         *)
(* One command runs at a time, started by the shell with interrupts on     *)
(* (sata, satastatus, swaptest) or by the page-fault handler with          *)
(* interrupts off.  It polls the port's registers, while ahci_handler may  *)
(* come between any two of its steps, and the adapter and the drives act   *)
(* at any time.  ahci_identify, ahci_read and ahci_write differ only in    *)
(* what they put into the command table: a table holds the number of the   *)
(* command it describes, 0 after ahci_port_rebase.  Whether the interrupt  *)
(* comes at all depends on the mask the firmware left in the PIC.          *)
(***************************************************************************)
EXTENDS Integers, FiniteSets, FiniteSetsExt

CONSTANTS PORTS,  \* the implemented ports, numbered from 0
          SLOTS,  \* command slots of a port (32)
          CMDS,   \* bound: commands that are started
          PULLS   \* bound: times a drive is pulled or plugged

ASSUME AhciAssumption == /\ PORTS \in SUBSET Nat /\ PORTS # {} /\ SLOTS \in Nat \ {0}
                         /\ CMDS \in Nat /\ PULLS \in Nat

VARIABLES det,    \* adapter: ports with a drive (PxSSTS)
          is,     \* adapter: PxIS, a subset of {"TFES", "PCS", "DHRS"}
          gis,    \* adapter: the ports whose bit is set in the global IS
          ci,     \* adapter: PxCI
          st,     \* adapter: ports whose command engine is started (PxCMD.ST)
          fault,  \* adapter: ports stopped by an error, until ST is cleared
          table,  \* the command tables
          ports, port_status,   \* ahci.c: ports[] that are set, port_status[] that are 1
          pc, port, slot, n,    \* the command that runs: where it is, and its number
          irqs,                 \* interrupts are enabled around it
          result,               \* what the last command returned
          hpc, hports, hevent,  \* ahci_handler: where it is, its local is, and pis
          pulls,    \* history: pulls and plugs so far
          did,      \* history: the adapter executed the command that runs
          stopped,  \* history: its port was not started, or the handler stopped or rebased it
          missed    \* history: ports one of whose hot-plug events was thrown away

hba == <<det, is, gis, ci, st, fault, table>>
driver == <<ports, port_status>>
command == <<pc, port, slot, n, irqs, result>>
handler == <<hpc, hports, hevent>>
history == <<pulls, did, stopped, missed>>
vars == <<hba, driver, command, handler, history>>

Slots == 0 .. SLOTS - 1
Ready == hpc = "none"   \* the CPU is not in the handler

\* ahci_init: the ports with a drive are rebased and started, the others only get
\* their hot-plug interrupts enabled.
Init == /\ det \in SUBSET PORTS
        /\ is = [p \in PORTS |-> {}] /\ gis = {} /\ ci = [p \in PORTS |-> {}]
        /\ st = det /\ fault = {}
        /\ table = [p \in PORTS |-> [s \in Slots |-> 0]]
        /\ ports = det /\ port_status = det
        /\ pc = "idle" /\ port = Min(PORTS) /\ slot = 0 /\ n = 0 /\ irqs = TRUE
        /\ result = "none"
        /\ hpc = "none" /\ hports = {} /\ hevent = FALSE
        /\ pulls = 0 /\ did = FALSE /\ stopped = FALSE /\ missed = {}
-----------------------------------------------------------------------------
\* The adapter sets a bit of PxIS and signals the port.
Raise(p, bit) == /\ is' = [is EXCEPT ![p] = @ \cup {bit}]
                 /\ gis' = gis \cup {p}

\* The adapter executes an issued command: it succeeds, or fails and stops the port.
hba_execute(p, s, ok) ==
  /\ p \in det \cap st /\ p \notin fault /\ s \in ci[p]
  /\ IF ok THEN Raise(p, "DHRS") /\ ci' = [ci EXCEPT ![p] = @ \ {s}] /\ UNCHANGED fault
           ELSE Raise(p, "TFES") /\ fault' = fault \cup {p} /\ UNCHANGED ci
  /\ did' = (did \/ (ok /\ pc = "wait" /\ p = port /\ table[p][s] = n))
  /\ UNCHANGED <<det, st, table, driver, command, handler, pulls, stopped, missed>>

\* A drive is pulled or plugged in.
hot_plug(p) ==
  /\ pulls < PULLS
  /\ pulls' = pulls + 1
  /\ det' = IF p \in det THEN det \ {p} ELSE det \cup {p}
  /\ Raise(p, "PCS")
  /\ UNCHANGED <<ci, st, fault, table, driver, command, handler, did, stopped, missed>>

\* stop_cmd: clearing ST makes the adapter drop the issued commands.
stop_cmd(p) ==
  /\ st' = st \ {p}
  /\ fault' = fault \ {p}
  /\ ci' = IF p \in st THEN [ci EXCEPT ![p] = {}] ELSE ci

\* ahci_port_rebase: stop_cmd, new command tables, start_cmd.
ahci_port_rebase(p) ==
  /\ st' = st \cup {p}
  /\ fault' = fault \ {p}
  /\ ci' = IF p \in st THEN [ci EXCEPT ![p] = {}] ELSE ci
  /\ table' = [table EXCEPT ![p] = [s \in Slots |-> 0]]

\* check_type(port) = 1; the other kinds of drive count as none.
Present(p) == p \in det

\* A port is found with a drive that was not there, or without one that was
\* (the common part of ahci_handler and ahci_scan_ports).
Update(p, present) ==
  \/ /\ present /\ p \notin port_status
     /\ ahci_port_rebase(p)
     /\ port_status' = port_status \cup {p} /\ ports' = ports \cup {p}
  \/ /\ ~present /\ p \in port_status
     /\ stop_cmd(p)
     /\ port_status' = port_status \ {p} /\ UNCHANGED <<table, ports>>
  \/ /\ present <=> p \in port_status
     /\ UNCHANGED <<st, fault, ci, table, driver>>
-----------------------------------------------------------------------------
\* Mutation: one port is served per interrupt.
Mut_OnePort == {Min(gis)}

\* The ports the handler goes through.
Signalled == gis

\* ahci_handler: the global IS is read and acknowledged ...
irq_enter == /\ Ready /\ irqs /\ gis # {}
             /\ hpc' = "port" /\ hports' = Signalled /\ gis' = {}
             /\ UNCHANGED <<det, is, ci, st, fault, table, driver, command, hevent, history>>

\* ... for each port in turn PxIS is read and cleared, the error bit included ...
irq_ack == LET p == Min(hports)
           IN  /\ hpc = "port" /\ hports # {}
               /\ is' = [is EXCEPT ![p] = {}]
               /\ hevent' = ("PCS" \in is[p])
               /\ hpc' = "check"
               /\ UNCHANGED <<det, gis, ci, st, fault, table, driver, command, hports, history>>

\* ... and a hot-plug event is acted upon by what the port looks like now.
irq_check ==
  LET p == Min(hports)
      touched == hevent /\ (Present(p) # (p \in port_status))
  IN  /\ hpc = "check"
      /\ IF hevent THEN Update(p, Present(p)) ELSE UNCHANGED <<st, fault, ci, table, driver>>
      /\ stopped' = (stopped \/ (touched /\ pc \notin {"idle", "scan"} /\ p = port))
      /\ missed' = IF hevent /\ pc = "scan" /\ p = port THEN missed \cup {p} ELSE missed
      /\ hports' = hports \ {p} /\ hpc' = "port" /\ hevent' = FALSE
      /\ UNCHANGED <<det, is, gis, command, pulls, did>>

irq_return == /\ hpc = "port" /\ hports = {}
              /\ hpc' = "none"
              /\ UNCHANGED <<hba, driver, command, hports, hevent, history>>
-----------------------------------------------------------------------------
At(p, q) == Ready /\ pc = p /\ pc' = q

Return(r) == pc' = "idle" /\ result' = r /\ irqs' = TRUE

\* A command is called; a port that never had a drive has no registers in ports[], and
\* the call ends with an error.
cmd_start(p, on) ==
  /\ Ready /\ pc = "idle" /\ n < CMDS
  /\ port' = p /\ n' = n + 1 /\ slot' = 0
  /\ did' = FALSE /\ stopped' = (p \notin st)
  /\ IF p \in ports THEN pc' = "begin" /\ irqs' = on /\ result' = "none" ELSE Return("err")
  /\ UNCHANGED <<hba, driver, handler, pulls, missed>>

\* The shell identifies a drive (sata, satastatus), reads and writes it (sata), and swaps
\* a page out (swaptest), with interrupts on; the page-fault handler swaps a page in and,
\* to make room, out, with interrupts off.
ahci_identify(p) == cmd_start(p, TRUE)
ahci_read(p, on) == cmd_start(p, on)
ahci_write(p, on) == cmd_start(p, on)

\* is = -1: every pending interrupt of the port is cleared, hot-plug events included ...
cmd_begin ==
  /\ At("begin", "slot")
  /\ is' = [is EXCEPT ![port] = {}]
  /\ missed' = IF "PCS" \in is[port] THEN missed \cup {port} ELSE missed
  /\ UNCHANGED <<det, gis, ci, st, fault, table, driver, port, slot, n, irqs, result,
                 handler, pulls, did, stopped>>

\* find_cmdslot: the slots that are not issued.
FreeSlots == Slots \ ci[port]

\* ... find_cmdslot takes the lowest free one ...
cmd_slot ==
  /\ Ready /\ pc = "slot"
  /\ IF FreeSlots = {} THEN Return("err") /\ UNCHANGED slot
     ELSE slot' = Min(FreeSlots) /\ pc' = "fill" /\ UNCHANGED <<irqs, result>>
  /\ UNCHANGED <<hba, driver, port, n, handler, history>>

\* ... its header and table are written ...
cmd_fill ==
  /\ At("fill", "spin")
  /\ table' = [table EXCEPT ![port][slot] = n]
  /\ UNCHANGED <<det, is, gis, ci, st, fault, driver, port, slot, n, irqs, result, handler,
                 history>>

\* ... the drive must become ready within the spin bound: it never does when it is gone,
\* and may be too slow ...
cmd_ready == /\ At("spin", "issue") /\ port \in det
             /\ UNCHANGED <<hba, driver, port, slot, n, irqs, result, handler, history>>
cmd_hung == /\ Ready /\ pc = "spin" /\ Return("err")
            /\ UNCHANGED <<hba, driver, port, slot, n, handler, history>>

\* ... the slot is issued; on a stopped port the write of PxCI is lost or stays
\* without effect ...
cmd_issue ==
  /\ At("issue", "wait")
  /\ \/ ci' = [ci EXCEPT ![port] = @ \cup {slot}]
     \/ port \notin st /\ UNCHANGED ci
  /\ UNCHANGED <<det, is, gis, st, fault, table, driver, port, slot, n, irqs, result,
                 handler, history>>

\* Mutation: any interrupt of the port ends the wait.
Mut_AnyBit == is[port] # {}

\* The command is over when its bit in PxCI is clear.
Finished == slot \notin ci[port]

Mut_GivesUp == TRUE

Failed == "TFES" \in is[port]

\* ... and the loop ends when the slot is no longer issued or PxIS shows an error.
cmd_wait == /\ Ready /\ pc = "wait"
            /\ \/ Finished /\ Return("ok")
               \/ ~Finished /\ Failed /\ Return("err")
            /\ UNCHANGED <<hba, driver, port, slot, n, handler, history>>

\* ahci_scan_ports, for one port: it is looked at, and then handled.
scan_check(p) == /\ At("idle", "scan")
                 /\ port' = p /\ slot' = IF Present(p) THEN 1 ELSE 0
                 /\ UNCHANGED <<hba, driver, n, irqs, result, handler, history>>
scan_update == /\ At("scan", "idle")
               /\ Update(port, slot = 1)
               /\ slot' = 0
               /\ UNCHANGED <<det, is, gis, port, n, irqs, result, handler, history>>

cpu == \/ cmd_begin \/ cmd_slot \/ cmd_fill \/ cmd_ready \/ cmd_hung \/ cmd_issue \/ cmd_wait
       \/ scan_update \/ irq_ack \/ irq_check \/ irq_return

Next == \/ cpu
        \/ irq_enter
        \/ \E p \in PORTS : ahci_identify(p)
        \/ \E p \in PORTS, on \in BOOLEAN : ahci_read(p, on) \/ ahci_write(p, on)
        \/ \E p \in PORTS : scan_check(p) \/ hot_plug(p)
        \/ \E p \in PORTS, s \in Slots, ok \in BOOLEAN : hba_execute(p, s, ok)

Spec == Init /\ [][Next]_vars

\* The CPU goes on, and a working drive answers; no interrupt, error or pull need come.
FairSpec == /\ Spec /\ WF_vars(cpu)
            /\ WF_vars(\E p \in PORTS, s \in Slots, ok \in BOOLEAN : hba_execute(p, s, ok))
-----------------------------------------------------------------------------
\* A call that returns 0 means that the adapter executed exactly this command, unless
\* the port was stopped since an earlier removal, or by the hot-plug handler under the
\* command; one that returns -1 means that it did not (ahci_read, ahci_write,
\* ahci_identify).
ResultHonest == /\ result = "ok" => did \/ stopped
                /\ result = "err" => ~did

\* Once a call has returned, the adapter will not execute its command any more, so
\* that the buffer may be freed: what is still issued is on a port that is stopped.
NoLateTransfer ==
  \A p \in PORTS, s \in Slots :
     s \in ci[p] /\ ~(pc = "wait" /\ p = port /\ s = slot) => p \in fault \/ p \notin st

\* A change of port p that is still to be seen.
Pending(p) == \/ "PCS" \in is[p] /\ p \in gis \cup hports
              \/ hevent /\ p = Min(hports)

\* port_status tells whether a drive is there, except while the event is on its way,
\* and on ports whose event a command threw away (is = -1) or was handled in the middle
\* of a scan of the port (ahci_handler, ahci_scan_ports).
StatusFollows ==
  \A p \in PORTS \ missed :
     (p \in det) = (p \in port_status) \/ Pending(p)

-----------------------------------------------------------------------------
\* The inductive invariant behind the three safety properties.
Types == /\ is \in [PORTS -> SUBSET {"TFES", "PCS", "DHRS"}]
         /\ ci \in [PORTS -> SUBSET Slots]
         /\ table \in [PORTS -> [Slots -> Nat]]
         /\ pc \in {"idle", "begin", "slot", "fill", "spin", "issue", "wait", "scan"}
         /\ hpc \in {"none", "port", "check"}
         /\ gis \in SUBSET PORTS /\ hports \in SUBSET PORTS
         /\ port \in PORTS /\ n \in Nat /\ slot \in Nat
         /\ pc \in {"fill", "spin", "issue", "wait"} => slot \in Slots
         /\ pc = "scan" => slot \in {0, 1}

\* What is issued and no one waits for is on a port an error stopped; an error bit that
\* the command will look at is its own.
Engine ==
  /\ fault \subseteq st
  /\ \A p \in PORTS : \A s \in ci[p] :
        (pc = "wait" /\ p = port /\ s = slot) \/ p \in fault
  /\ pc \in {"slot", "fill", "spin", "issue"} => "TFES" \notin is[port]
  /\ pc = "wait" /\ slot \in ci[port] /\ "TFES" \in is[port] => port \in fault

\* What the handler and a scan have seen, and what is still to come.
HotPlug ==
  /\ hpc = "none" => hports = {}
  /\ hpc = "check" => hports # {}
  /\ hpc # "check" => ~hevent
  /\ hpc = "check" /\ "PCS" \in is[Min(hports)] => Min(hports) \in gis
  /\ pc = "scan" => \/ port \in missed \/ Pending(port)
                    \/ (port \in det) = (slot = 1)
  /\ StatusFollows

\* What is known of the command that runs, as long as its port was not touched.
Command ==
  /\ ResultHonest
  /\ pc \notin {"idle", "scan"} => result = "none" /\ (port \in st \/ stopped)
  /\ pc \in {"begin", "slot", "fill", "spin", "issue"} => ~did
  /\ pc \in {"spin", "issue"} => stopped \/ table[port][slot] = n
  /\ pc = "wait" =>
        /\ slot \in ci[port] => ~did /\ (stopped \/ table[port][slot] = n)
        /\ slot \notin ci[port] => did \/ stopped

AhciInv == Types /\ Engine /\ HotPlug /\ Command
=============================================================================
