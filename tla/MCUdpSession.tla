---------------------------- MODULE MCUdpSession ----------------------------
(* One sending and one receiving node.  Two payloads while packets are lost, items   *)
(* are given up or the receiver reboots; one when a timeout comes too early as well. *)
EXTENDS UdpSession

CONSTANTS p, q

Faults == [Event -> 0..2]

Scenarios ==
  {f \in Faults : f["call"] = 2 /\ f["slow"] = 0 /\ f["reboot"] = 1
                  /\ f["loss"] + f["last"] = 1}
  \cup {f \in Faults : f["call"] = 1 /\ f["slow"] = 1 /\ f["loss"] + f["last"] = 0
                       /\ f["reboot"] = 1}
=============================================================================
