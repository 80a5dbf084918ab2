-------------------------------- MODULE LogApps -------------------------------
(* The applications that the log page filters by.  The choice is kept per    *)
(* device in localStorage (logSelectedAppsStore.ts) and is checked against   *)
(* the list of installed applications whenever that list or the device       *)
(* changes (log-selected-apps.ts).  The list comes from appCacheStore.ts,    *)
(* one list for the whole window, whatever device it was read from.          *)
(*                                                                           *)
(* An action is a commit of the page with the effects that follow it.        *)
EXTENDS Naturals, FiniteSets

CONSTANTS
    Devices,     \* HarmonyOS devices, which share the list
    Packages,
    Installed,   \* the packages on each device
    DiskCache,   \* the packages in the disk cache of the list, {}: no cache
    MaxLoads     \* bound: loads of the list in progress

VARIABLES
    device,    \* the selected device
    catalog,   \* appsArray
    diskRead,  \* isDiskCacheLoaded
    flags,     \* isLoadingFromDisk, isLoadingFromDevice
    loads,     \* calls of loadAppsIfNeeded: the device, and what they wait for
    selected,  \* selectedApps of the page
    saved,     \* byDevice, in localStorage
    chosen     \* ghost: what the user has ever chosen for a device

appsVars == <<device, catalog, diskRead, flags, loads, selected, saved, chosen>>

Load == [device : Devices, waits : {"disk", "device"}]

TypeOK ==
    /\ device \in Devices
    /\ catalog \subseteq Packages /\ selected \subseteq Packages
    /\ diskRead \in BOOLEAN
    /\ flags \in [disk : BOOLEAN, device : BOOLEAN]
    /\ loads \subseteq Load
    /\ saved \in [Devices -> SUBSET Packages]
    /\ chosen \in [Devices -> SUBSET Packages]

-----------------------------------------------------------------------------
(* hydrateLogApps and refreshLogAppsPids: an empty list says nothing; what   *)
(* is not in a list that is not empty counts as uninstalled.                 *)
Known(choice, list) == IF list = {} THEN choice ELSE choice \cap list

(* A load of the list as it starts: it may find a load under way, a cache on *)
(* disk to ask, a cache read before, or somebody else reading the cache.     *)
StartLoad(d) ==
    IF flags.device THEN UNCHANGED <<flags, loads>>
    ELSE LET disk == ~diskRead /\ ~flags.disk IN
         /\ Cardinality(loads) < MaxLoads
         /\ loads' = loads \cup {[device |-> d,
                                  waits |-> IF disk THEN "disk" ELSE "device"]}
         /\ flags' = IF disk THEN [flags EXCEPT !.disk = TRUE]
                     ELSE [flags EXCEPT !.device = TRUE]

(* The effects of a new device: the saved choice is restored, and what is    *)
(* left of it after the check is saved again; the list is loaded.            *)
Restore(d) ==
    /\ selected' = Known(saved[d], catalog)
    /\ saved' = [saved EXCEPT ![d] = Known(saved[d], catalog)]
    /\ StartLoad(d)

Init ==
    /\ device \in Devices
    /\ catalog = {} /\ diskRead = FALSE
    /\ flags = [disk |-> TRUE, device |-> FALSE]
    /\ loads = {[device |-> device, waits |-> "disk"]}
    /\ \E p \in Packages : saved = [d \in Devices |-> {p} \cap Installed[d]]
    /\ selected = saved[device]
    /\ chosen = saved

\* Mutant: the choice that is shown is saved under the new device.
SelectDeviceAndSave(d) ==
    /\ d # device
    /\ device' = d
    /\ selected' = Known(selected, catalog)
    /\ saved' = [saved EXCEPT ![d] = selected']
    /\ StartLoad(d)
    /\ UNCHANGED <<catalog, diskRead, chosen>>

SelectDevice(d) ==
    /\ d # device
    /\ device' = d
    /\ Restore(d)
    /\ UNCHANGED <<catalog, diskRead, chosen>>

(* The page is opened again.                                                 *)
Remount ==
    /\ Restore(device)
    /\ UNCHANGED <<device, catalog, diskRead, chosen>>

(* updateApps, and the effects of a new list.                                *)
Update(list) ==
    /\ catalog' = list
    /\ diskRead' = TRUE
    /\ selected' = Known(selected, list)
    /\ saved' = [saved EXCEPT ![device] = selected']

(* The cache on disk is read.  Without one the device is asked.              *)
DiskRead(l) ==
    /\ l \in loads /\ l.waits = "disk"
    /\ IF DiskCache # {}
       THEN /\ Update(DiskCache)
            /\ flags' = [flags EXCEPT !.disk = FALSE]
            /\ loads' = loads \ {l}
       ELSE /\ flags' = [disk |-> FALSE, device |-> TRUE]
            /\ loads' = (loads \ {l}) \cup {[l EXCEPT !.waits = "device"]}
            /\ UNCHANGED <<catalog, diskRead, selected, saved>>
    /\ UNCHANGED <<device, chosen>>

(* The device answers with its list, or the call fails; an empty list is not *)
(* taken over.                                                               *)
DeviceRead(l) ==
    /\ l \in loads /\ l.waits = "device"
    /\ loads' = loads \ {l}
    /\ flags' = [flags EXCEPT !.device = FALSE]
    /\ \/ Installed[l.device] # {} /\ Update(Installed[l.device])
       \/ UNCHANGED <<catalog, diskRead, selected, saved>>
    /\ UNCHANGED <<device, chosen>>

(* The user picks an application of the list, or removes one of the choice.  *)
Choose(p) ==
    /\ p \in catalog \ selected
    /\ selected' = selected \cup {p}
    /\ saved' = [saved EXCEPT ![device] = selected']
    /\ chosen' = [chosen EXCEPT ![device] = @ \cup {p}]
    /\ UNCHANGED <<device, catalog, diskRead, flags, loads>>

Unchoose(p) ==
    /\ p \in selected
    /\ selected' = selected \ {p}
    /\ saved' = [saved EXCEPT ![device] = selected']
    /\ UNCHANGED <<device, catalog, diskRead, flags, loads, chosen>>

Next ==
    \/ \E d \in Devices : SelectDevice(d)
    \/ Remount
    \/ \E l \in Load : DiskRead(l) \/ DeviceRead(l)
    \/ \E p \in Packages : Choose(p) \/ Unchoose(p)

Spec == Init /\ [][Next]_appsVars

-----------------------------------------------------------------------------
(* The choices of two devices are never mixed: what is saved for a device    *)
(* was chosen while it was selected, whatever order devices, lists and       *)
(* choices change in (SystemLogsPage.tsx:325, 346).                          *)
SavedWhereChosen == \A d \in Devices : saved[d] \subseteq chosen[d]

(* The choice is remembered (SystemLogsPage.tsx:345): what a device had      *)
(* saved is only lost by the user's hand or when it is not installed there.  *)
(* Does not hold: it is checked against a list read from another device.     *)
ChoiceIsRemembered ==
    [][\A d \in Devices : \A p \in saved[d] \ saved'[d] :
           p \notin Installed[d] \/ Unchoose(p)]_appsVars
=============================================================================
