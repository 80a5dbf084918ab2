---------------------------- MODULE PortOwnership ----------------------------
(***************************************************************************)
(* What the capture servers promise about the local TCP ports they share:  *)
(* a port serves at most one device, it is handed out only while free, and *)
(* a device gives its ports back without touching those of another device. *)
(* CaptureServer implements this specification.                            *)
(***************************************************************************)

CONSTANTS Devices,   \* the devices known to the program
          Ports,     \* the local TCP ports of the workstation
          None       \* "no device"

VARIABLE owner       \* owner[p]: the device whose capture listens on p

Init == owner = [p \in Ports |-> None]

\* A capture of device d begins to listen on the free port p.
Acquire(d, p) ==
    /\ owner[p] = None
    /\ owner' = [owner EXCEPT ![p] = d]

\* Every capture of device d ends.
ReleaseDevice(d) ==
    owner' = [p \in Ports |-> IF owner[p] = d THEN None ELSE owner[p]]

\* Whatever capture listens on p ends.
ReleasePort(p) == owner' = [owner EXCEPT ![p] = None]

\* A start first ends what could conflict with it: the captures of its
\* device, and the capture on its port.
MakeRoom(d, p) ==
    owner' = [q \in Ports |-> IF owner[q] = d \/ q = p THEN None ELSE owner[q]]

Next ==
    \/ \E d \in Devices, p \in Ports : Acquire(d, p) \/ MakeRoom(d, p)
    \/ \E d \in Devices : ReleaseDevice(d)
    \/ \E p \in Ports : ReleasePort(p)

Spec == Init /\ [][Next]_owner
=============================================================================
