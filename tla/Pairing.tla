------------------------------- MODULE Pairing -------------------------------
(***************************************************************************)
(* A device and its server find each other on a LAN where addresses        *)
(* change, another server answers as well, answers are lost, and either    *)
(* side may be killed and started again: the identity of the server        *)
(* (ServerIdentity), its UDP responder, the network thread of the device   *)
(* (Bootstrap), and the part of the voice client that connects.            *)
(***************************************************************************)
EXTENDS ServerIdentity, Bootstrap, Naturals

CONSTANTS
  Neighbour,   \* the other server on the LAN, always there
  MaxHome,     \* bound: the addresses our server's machine is given in turn
  Main         \* bound: the only start of the server once a device was used

ASSUME PairingAssumption ==
  /\ MaxHome \in Nat \ {0} /\ Main \in Process
  /\ Neighbour \in Endpoint /\ Neighbour.host \notin 1..MaxHome
  /\ 1..MaxHome \subseteq Host
  /\ Key \subseteq Pin \ {Neighbour.key}

VARIABLES
  home,    \* the address of our server's machine
  conn,    \* transport_: "none", "connecting" or "open"
  target   \* what it was told to connect to

connVars == <<conn, target>>
vars == <<identityVars, deviceVars, home, connVars>>

TypeOK ==
  /\ IdentityTypeOK /\ DeviceTypeOK
  /\ home \in 1..MaxHome
  /\ conn \in {"none", "connecting", "open"}
  /\ target \in Endpoint \cup {None}

Init ==
  /\ IdentityInit /\ DeviceInit
  /\ home = 1
  /\ conn = "none" /\ target = None

\* The key of the server that listens at an address, if there is one.
KeysAt(h) ==
  IF h = Neighbour.host THEN {Neighbour.key}
  ELSE {mine[p] : p \in {q \in Process : step[q] = "serving" /\ h = home}}

\* Serve answers a request while it runs; the device takes the address from
\* the packet and the key from its text.
Answers == {e \in Endpoint : e.key \in KeysAt(e.host)}

Alone == \A p \in Process \ {Main} : step[p] = "off"

ServerStep ==
  /\ IdentityNext
  /\ (at = "off" /\ saved = None) \/ Alone'
  /\ UNCHANGED <<deviceVars, home, connVars>>

\* The server's machine is given another address.
Move ==
  /\ home < MaxHome /\ home' = home + 1
  /\ UNCHANGED <<identityVars, deviceVars, connVars>>

\* The network thread, main, the disk and the request to stop leave the
\* connection alone.
DeviceStep ==
  /\ (Boot /\ Alone) \/ NetworkLoop \/ RequestStop \/ Flush
  /\ UNCHANGED <<identityVars, home, connVars>>

Find(e) ==
  /\ Discover(e)
  /\ UNCHANGED <<identityVars, home, connVars>>

DeviceGone ==
  /\ Die \/ PowerLoss
  /\ conn' = "none" /\ target' = None
  /\ UNCHANGED <<identityVars, home>>

\* StartConnect copies the endpoint under the mutex of the network thread.
StartConnect ==
  /\ Running /\ ~stop /\ conn = "none" /\ ready
  /\ conn' = "connecting" /\ target' = endpoint
  /\ UNCHANGED <<identityVars, deviceVars, home>>

\* The handshake succeeds only with a peer that has the pinned key.
Handshake ==
  /\ conn = "connecting" /\ ~stop
  /\ target \in Answers
  /\ conn' = "open"
  /\ UNCHANGED <<identityVars, deviceVars, home, target>>

\* LoseConnection: a refused or unanswered handshake, a deadline, a broken or
\* silent connection. It asks the network thread for a server again, whatever
\* that thread is doing.
MutLoseConnection ==
  /\ conn # "none" /\ ~stop
  /\ conn' = "none" /\ target' = None
  /\ UNCHANGED <<identityVars, deviceVars, home>>

LoseConnection ==
  /\ conn # "none" /\ ~stop
  /\ conn' = "none" /\ target' = None
  /\ needed' = TRUE
  /\ UNCHANGED <<configured, saved, disk, at, found, endpoint, ready, stop>>
  /\ UNCHANGED <<identityVars, home>>

Next ==
  \/ ServerStep \/ Move \/ DeviceStep \/ (\E e \in Answers : Find(e)) \/ DeviceGone
  \/ StartConnect \/ Handshake \/ LoseConnection

Spec == Init /\ [][Next]_vars

(***************************************************************************)
(* Fairness. The network thread and the voice client are scheduled, and a  *)
(* connection to a peer that is not there fails (its deadlines). Of the    *)
(* world: a link that is tried again and again is at last there, an answer *)
(* of our server that is asked for again and again at last comes first,    *)
(* and so for a save and for a handshake that can succeed.                 *)
(***************************************************************************)
Elsewhere == UNCHANGED <<identityVars, home, connVars>>

ThreadRuns == NetworkLoop /\ Elsewhere
Linked == WiredReady /\ Elsewhere
Written == WriteTemp /\ Elsewhere
Renamed == Rename /\ Elsewhere
OursAnswers == \E e \in Answers \ {Neighbour} : Find(e)
Absent == target \notin Answers /\ LoseConnection

FairSpec ==
  /\ Spec
  /\ WF_vars(ThreadRuns) /\ WF_vars(StartConnect) /\ WF_vars(Absent)
  /\ SF_vars(Linked) /\ SF_vars(OursAnswers) /\ SF_vars(Written) /\ SF_vars(Renamed)
  /\ SF_vars(Handshake)

-----------------------------------------------------------------------------
(* Properties.                                                             *)

\* Whatever the client connects to, or is about to, has the key that is on
\* the device: no discovery, fall-back, restart or loss of power leaves it
\* with a peer of another key (system-overview.md:126-127).
PinnedPeer ==
  /\ ready => saved # None /\ endpoint # None /\ endpoint.key = saved.key
  /\ conn # "none" => saved # None /\ target # None /\ target.key = saved.key

PairingSound == TypeOK /\ PinnedPeer

\* The key on the device is replaced only by a configured server, and goes
\* back only to what was on the disk when power failed; a save that is
\* interrupted loses nothing.
PinKept ==
  [][saved # None /\ (saved' = None \/ saved'.key # saved.key)
       => \/ at = "bootRename" /\ saved' = configured
          \/ at' = "off" /\ saved' = disk]_vars

\* The world has settled: the device runs with nothing configured, the key
\* it has saved is our server's, and our server serves (it moves at most MaxHome - 1 times).
Settled ==
  /\ Running /\ ~stop /\ configured = None
  /\ Serving
  /\ saved # None /\ offered = {saved.key}

\* A device gets back to its server although the address moved while either
\* side was down, while a discovery was under way or while a connection to
\* the old address was being tried.
FindsServer ==
  <>[]Settled => []<>(conn = "open" /\ target.host = home)

\* A client that was told to stop is gone soon, whatever tool, answer or
\* write its network thread waits for.
\* (A request stands until it has gone.)
StopReturns == []<>(stop => at \in {"ended", "off"})
=============================================================================
