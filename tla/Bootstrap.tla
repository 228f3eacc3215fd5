------------------------------ MODULE Bootstrap ------------------------------
(***************************************************************************)
(* How the device gets onto the network and finds its server: the settings *)
(* main saves at start, the network thread of the voice client, and        *)
(* NetworkBootstrap, which takes the wired link or the Wi-Fi, then asks    *)
(* the LAN for a server and falls back to the saved one. The first server  *)
(* found is trusted: its key is saved, and from then on only its address   *)
(* may change.                                                             *)
(*                                                                         *)
(* The file is replaced by a rename of a synced temporary, so a process    *)
(* that dies leaves the old or the new text; a rename the disk has not     *)
(* caught up with (saved # disk) may be undone by a loss of power. What    *)
(* the interfaces and the tools report is left to the environment, as is   *)
(* whether a write succeeds.                                               *)
(***************************************************************************)
CONSTANTS
  Host, Pin,   \* the addresses a server can have, and the keys
  None,        \* no server
  Explicit     \* the servers the configuration may name

Endpoint == [host : Host, key : Pin]

ASSUME BootstrapAssumption == None \notin Endpoint /\ Explicit \subseteq Endpoint

VARIABLES
  configured,  \* the server the environment names, or None
  saved,       \* what LoadServer reads from server.conf, or None
  disk,        \* what it will read after a loss of power
  at,          \* where main, and then the network thread, is
  found,       \* the server about to be saved or adopted
  endpoint,    \* endpoint_: what the client connects to
  ready,       \* endpoint_ready_
  needed,      \* network_needed_
  stop         \* stop_network_

deviceVars == <<configured, saved, disk, at, found, endpoint, ready, needed, stop>>

Booting == {"bootWrite", "bootRename"}
Linking == {"wired", "dhcpWired", "wifi", "wpa", "dhcpWifi"}
Places == {"off", "idle", "online", "write", "rename", "adopt", "rest", "ended"}
            \cup Booting \cup Linking

DeviceTypeOK ==
  /\ configured \in Explicit \cup {None}
  /\ saved \in Endpoint \cup {None}
  /\ disk \in Endpoint \cup {None}
  /\ at \in Places
  /\ found \in Endpoint \cup {None}
  /\ endpoint \in Endpoint \cup {None}
  /\ ready \in BOOLEAN /\ needed \in BOOLEAN /\ stop \in BOOLEAN

DeviceInit ==
  /\ configured = None /\ saved = None /\ disk = None /\ at = "off"
  /\ found = None /\ endpoint = None
  /\ ready = FALSE /\ needed = TRUE /\ stop = FALSE

Running == at \notin Booting \cup {"off"}

Go(place) ==
  /\ at' = place
  /\ UNCHANGED <<configured, saved, disk, found, endpoint, ready, needed, stop>>

\* main starts: a configured server is saved before anything else.
Boot ==
  /\ at = "off"
  /\ \E c \in Explicit \cup {None} :
       /\ configured' = c /\ found' = c /\ endpoint' = c
       /\ at' = IF c = None THEN "idle" ELSE "bootWrite"
  /\ ready' = FALSE /\ needed' = TRUE /\ stop' = FALSE
  /\ UNCHANGED <<saved, disk>>

-----------------------------------------------------------------------------
(* AtomicWrite, for main and for the network thread.                       *)

\* What a save that failed leads to: main exits; Start falls back to the
\* server it has loaded, if any.
FallBack ==
  /\ at' = IF at \in Booting THEN "off" ELSE IF saved = None THEN "rest" ELSE "adopt"
  /\ found' = IF at \in Booting THEN None ELSE saved

\* The temporary is created, written, synced and closed; server.conf is as it
\* was.
MutWriteTemp ==
  /\ \/ at = "write" /\ at' = "rename"
     \/ at = "bootWrite" /\ at' = "bootRename"
  /\ saved' = None
  /\ UNCHANGED <<configured, disk, found, endpoint, ready, needed, stop>>

WriteTemp ==
  \/ at = "write" /\ Go("rename")
  \/ at = "bootWrite" /\ Go("bootRename")

Rename ==
  /\ \/ at = "rename" /\ at' = "adopt"
     \/ at = "bootRename" /\ at' = "idle"
  /\ saved' = found
  /\ UNCHANGED <<configured, disk, found, endpoint, ready, needed, stop>>

SaveFails ==
  /\ at \in {"bootWrite", "write", "bootRename", "rename"}
  /\ FallBack
  /\ UNCHANGED <<configured, saved, disk, endpoint, ready, needed, stop>>

-----------------------------------------------------------------------------
(* The network thread: NetworkLoop and, from "wired" to "rename", Start.   *)

MutLoopHead ==
  /\ at = "idle"
  /\ Go(IF needed THEN "wired" ELSE "rest")

LoopHead ==
  /\ at = "idle"
  /\ Go(IF stop THEN "ended" ELSE IF needed THEN "wired" ELSE "rest")

\* A wired interface with an address is used as it is; one with a carrier is
\* given an address; otherwise the Wi-Fi is tried.
WiredReady == at = "wired" /\ Go("online")
CheckWired == WiredReady \/ (at = "wired" /\ \E next \in {"dhcpWired", "wifi"} : Go(next))

\* A tool is killed and reaped when the client stops or after 12 s.
ToolEnds(place, done, failed) ==
  /\ at = place
  /\ Go(failed) \/ (~stop /\ Go(done))

DhcpWired == ToolEnds("dhcpWired", "online", "wifi")

\* No Wi-Fi interface or no configuration ends the attempt.
CheckWifi ==
  /\ at = "wifi"
  /\ \E next \in {"rest", "online", "wpa", "dhcpWifi"} : Go(next)

StartWpa == ToolEnds("wpa", "dhcpWifi", "rest")
DhcpWifi == ToolEnds("dhcpWifi", "online", "rest")

\* An explicit server is adopted without looking for one.
OnlineUnasked ==
  /\ at = "online"
  /\ stop \/ configured # None
  /\ IF stop THEN at' = "rest" /\ found' = found ELSE at' = "adopt" /\ found' = configured
  /\ UNCHANGED <<configured, saved, disk, endpoint, ready, needed, stop>>

Asking == at = "online" /\ ~stop /\ configured = None

\* The first answer to the broadcast is read, and no other: with a saved
\* server it counts only if it has the saved key.
MutDiscover(answer) ==
  /\ Asking
  /\ at' = "write" /\ found' = answer
  /\ UNCHANGED <<configured, saved, disk, endpoint, ready, needed, stop>>

Discover(answer) ==
  /\ Asking
  /\ IF saved = None \/ answer.key = saved.key
       THEN at' = "write" /\ found' = answer
       ELSE FallBack
  /\ UNCHANGED <<configured, saved, disk, endpoint, ready, needed, stop>>

\* The broadcast or every answer is lost, or 0.8 s pass.
NoAnswer ==
  /\ Asking
  /\ FallBack
  /\ UNCHANGED <<configured, saved, disk, endpoint, ready, needed, stop>>

\* Start has returned a server: the loop publishes it.
Adopt ==
  /\ at = "adopt"
  /\ endpoint' = found /\ ready' = TRUE /\ needed' = FALSE
  /\ found' = None /\ at' = "rest"
  /\ UNCHANGED <<configured, saved, disk, stop>>

\* Two seconds, cut short by a stop.
Rest == at = "rest" /\ Go("idle")

NetworkLoop ==
  \/ LoopHead \/ CheckWired \/ DhcpWired \/ CheckWifi \/ StartWpa \/ DhcpWifi
  \/ OnlineUnasked \/ NoAnswer \/ WriteTemp \/ Rename \/ SaveFails
  \/ Adopt \/ Rest

-----------------------------------------------------------------------------
(* The rest of the device.                                                 *)

\* The destructor of the voice client asks the thread to end and joins it.
RequestStop ==
  /\ Running /\ ~stop
  /\ stop' = TRUE
  /\ UNCHANGED <<configured, saved, disk, at, found, endpoint, ready, needed>>

\* The process is gone: it ended in order, it was killed, or power failed,
\* which may undo a rename.
Gone(afterwards) ==
  /\ at # "off"
  /\ saved' = afterwards
  /\ at' = "off" /\ found' = None /\ endpoint' = None /\ configured' = None
  /\ ready' = FALSE /\ needed' = TRUE /\ stop' = FALSE
  /\ UNCHANGED disk

Die == Gone(saved)
PowerLoss == Gone(disk)

\* The disk catches up with the last rename.
Flush ==
  /\ disk # saved
  /\ disk' = saved
  /\ UNCHANGED <<configured, saved, at, found, endpoint, ready, needed, stop>>
=============================================================================
