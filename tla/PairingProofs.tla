---------------------------- MODULE PairingProofs ----------------------------
(***************************************************************************)
(* The pairing of a device and its server, for any number of addresses,    *)
(* keys and starts of the server. What the device connects to has the key  *)
(* it has saved, because what the network thread is about to save or adopt *)
(* always has that key already: the invariant follows a server from the    *)
(* answer, over the file, to the endpoint and to the connection.           *)
(*                                                                         *)
(* The server's directory has one identity, for any number of starts,      *)
(* overlapping or not, killed at any step. At most one start is creating   *)
(* at a time: it owns the key file, which it found absent. A whole         *)
(* certificate is only ever written beside its key, and neither file       *)
(* changes after that.                                                     *)
(***************************************************************************)
EXTENDS Pairing, TLAPS

-----------------------------------------------------------------------------
(* The server's identity: IdentitySpec is that of ServerIdentity alone.    *)

Creating(p) == step[p] \in {"writeKey", "openCert", "writeCert", "undo"}
Loaded(p) == step[p] \in {"loadKey", "listen", "serving"}

\* The one creator owns a key file, and no certificate is whole meanwhile.
OwnerInv ==
  /\ \A p, q \in Process : Creating(p) /\ Creating(q) => p = q
  /\ \A p \in Process : Creating(p) => keyFile # NoFile /\ certFile \notin Key

\* What the owner has written so far.
ProgressInv ==
  \A p \in Process :
    /\ step[p] \in {"openKey", "writeKey", "openCert", "writeCert"} => mine[p] \in Key
    /\ step[p] = "writeKey" => keyFile = Torn
    /\ step[p] \in {"openCert", "writeCert"} => keyFile = mine[p]

\* A whole certificate has its key beside it, and is what is loaded and offered.
PairInv ==
  /\ certFile \in Key => keyFile = certFile
  /\ \A p \in Process : Loaded(p) => certFile \in Key /\ mine[p] = certFile
  /\ offered # {} => certFile \in Key /\ offered = {certFile}

IdentityInv == IdentityTypeOK /\ OwnerInv /\ ProgressInv /\ PairInv

LEMMA IdentityStart == IdentityInit => IdentityInv
BY IdentityAssumption DEF IdentityInit, IdentityInv, IdentityTypeOK, OwnerInv, ProgressInv,
   PairInv, Creating, Loaded, Steps, IdentityAssumption

LEMMA IdentityTypeStep == IdentityInv /\ [IdentityNext]_identityVars => IdentityTypeOK'
<1>0. CASE UNCHANGED identityVars
  BY <1>0 DEF identityVars, IdentityInv, IdentityTypeOK
<1>1. SUFFICES ASSUME IdentityTypeOK, \A p \in Process : Loaded(p) => mine[p] \in Key,
                      NEW p \in Process, Startup(p) \/ Exit(p)
               PROVE  IdentityTypeOK'
  BY <1>0 DEF IdentityNext, IdentityInv, PairInv
<1> USE IdentityAssumption DEF IdentityTypeOK, filesVars, Goto, GotoWith, Leave, Steps, IdentityAssumption
<1>2. CASE LookCert(p)
  BY <1>1, <1>2 DEF LookCert
<1>3. CASE LookKey(p)
  BY <1>1, <1>3 DEF LookKey
<1>4. CASE Generate(p)
  BY <1>1, <1>4 DEF Generate
<1>5. CASE OpenKey(p)
  BY <1>1, <1>5 DEF OpenKey
<1>6. CASE WriteKey(p)
  BY <1>1, <1>6 DEF WriteKey
<1>7. CASE OpenCert(p)
  BY <1>1, <1>7 DEF OpenCert
<1>8. CASE WriteCert(p)
  BY <1>1, <1>8 DEF WriteCert
<1>9. CASE RemoveKey(p)
  BY <1>1, <1>9 DEF RemoveKey
<1>10. CASE LoadCert(p)
  BY <1>1, <1>10 DEF LoadCert
<1>11. CASE LoadKey(p)
  BY <1>1, <1>11 DEF LoadKey
<1>12. CASE Listen(p)
  BY <1>1, <1>12 DEF Listen, Loaded
<1>13. CASE Exit(p)
  BY <1>1, <1>13 DEF Exit
<1> QED
  BY <1>1, <1>2, <1>3, <1>4, <1>5, <1>6, <1>7, <1>8, <1>9, <1>10, <1>11, <1>12, <1>13 DEF Startup

\* A step that leaves the files alone and moves one start to a place that
\* claims nothing of them keeps what is said of them.
LEMMA QuietStep ==
  ASSUME IdentityInv, NEW p \in Process, NEW s,
         s \notin {"writeKey", "openCert", "writeCert", "undo", "loadKey", "listen", "serving"},
         step' = [step EXCEPT ![p] = s],
         \A q \in Process \ {p} : mine'[q] = mine[q],
         s = "openKey" => mine'[p] \in Key,
         UNCHANGED <<keyFile, certFile, offered>>
  PROVE  (OwnerInv /\ ProgressInv /\ PairInv)'
BY DEF IdentityInv, IdentityTypeOK, OwnerInv, ProgressInv, PairInv, Creating, Loaded

LEMMA IdentityStep == IdentityInv /\ [IdentityNext]_identityVars => IdentityInv'
<1>1. CASE UNCHANGED identityVars
  BY <1>1 DEF identityVars, IdentityInv, IdentityTypeOK, OwnerInv, ProgressInv, PairInv, Creating, Loaded
<1>2. SUFFICES ASSUME IdentityInv, NEW p \in Process, Startup(p) \/ Exit(p)
               PROVE  IdentityInv'
  BY <1>1 DEF IdentityNext
<1>3. IdentityTypeOK /\ IdentityTypeOK'
  <2>1. IdentityNext
    BY <1>2 DEF IdentityNext
  <2> QED
    BY <1>2, <2>1, IdentityTypeStep DEF IdentityInv
<1>4. CASE LookCert(p) \/ LookKey(p) \/ Generate(p) \/ Exit(p)
  <2>1. PICK s \in Steps :
          /\ s \notin {"writeKey", "openCert", "writeCert", "undo", "loadKey", "listen", "serving"}
          /\ step' = [step EXCEPT ![p] = s]
          /\ \A q \in Process \ {p} : mine'[q] = mine[q]
          /\ s = "openKey" => mine'[p] \in Key
          /\ UNCHANGED <<keyFile, certFile, offered>>
    BY <1>3, <1>4 DEF LookCert, LookKey, Generate, Exit, Goto, GotoWith, Leave, Steps,
       IdentityTypeOK, filesVars
  <2> QED
    BY <1>2, <1>3, <2>1, QuietStep DEF IdentityInv
<1> USE <1>2, <1>3, IdentityAssumption
    DEF IdentityInv, IdentityTypeOK, OwnerInv, ProgressInv, PairInv, Creating, Loaded,
        Goto, GotoWith, Leave, filesVars, IdentityAssumption
<1>5. CASE OpenKey(p)
  BY <1>5 DEF OpenKey
<1>6. CASE WriteKey(p)
  BY <1>6 DEF WriteKey
<1>7. CASE OpenCert(p)
  BY <1>7 DEF OpenCert
<1>8. CASE WriteCert(p)
  BY <1>8 DEF WriteCert
<1>9. CASE RemoveKey(p)
  BY <1>9 DEF RemoveKey
<1>10. CASE LoadCert(p)
  BY <1>10 DEF LoadCert
<1>11. CASE LoadKey(p)
  BY <1>11 DEF LoadKey
<1>12. CASE Listen(p)
  BY <1>12 DEF Listen
<1> QED
  BY <1>4, <1>5, <1>6, <1>7, <1>8, <1>9, <1>10, <1>11, <1>12 DEF Startup

\* One directory, one identity: every key ever offered is the one in both
\* files, whatever overlapped, failed or was killed (identity/tls.go).
THEOREM Identity == IdentitySpec => []OneIdentity
<1>1. IdentityInv => OneIdentity
  BY DEF IdentityInv, PairInv, OneIdentity
<1> QED
  BY <1>1, IdentityStart, IdentityStep, PTL DEF IdentitySpec

-----------------------------------------------------------------------------
(* The device.                                                             *)

SameKey(e, f) == e # None /\ f # None /\ e.key = f.key

DevInv ==
  /\ DeviceTypeOK
  /\ target \in Endpoint \cup {None} /\ conn \in {"none", "connecting", "open"}
  \* Only a running client has an endpoint or a connection.
  /\ ~Running => ~ready /\ conn = "none"
  \* main saves exactly what is configured, and the thread runs only after it.
  /\ at \in Booting => found = configured /\ configured # None
  /\ Running /\ configured # None => SameKey(configured, saved)
  \* A server on its way to the file, to the endpoint and to the peer.
  /\ at \in {"write", "rename"} => found # None /\ (saved # None => SameKey(found, saved))
  /\ at = "adopt" => SameKey(found, saved)
  /\ ready => SameKey(endpoint, saved)
  /\ conn # "none" => SameKey(target, saved)

LEMMA DevStart == Init => DevInv
BY DEF Init, DeviceInit, DevInv, DeviceTypeOK, Running, Booting, Places, Linking, SameKey

\* No step of the thread, of main or of the disk leaves the client with a
\* server of another key.
LEMMA DevStep == DevInv /\ [Next]_vars => DevInv'
<1> SUFFICES ASSUME DevInv, [Next]_vars PROVE DevInv'
  OBVIOUS
<1> USE BootstrapAssumption
    DEF DevInv, DeviceTypeOK, Running, Booting, Places, Linking, SameKey, Go, BootstrapAssumption
<1>1. CASE UNCHANGED <<deviceVars, connVars>>
  BY <1>1 DEF deviceVars, connVars
<1>2. CASE DeviceStep
  <2>1. UNCHANGED <<conn, target>>
    BY <1>2 DEF DeviceStep, connVars
  <2>2. CASE Boot
    BY <2>1, <2>2 DEF Boot
  <2>3. CASE RequestStop
    BY <2>1, <2>3 DEF RequestStop
  <2>4. CASE Flush
    BY <2>1, <2>4 DEF Flush
  <2>5. CASE LoopHead \/ CheckWired \/ DhcpWired \/ CheckWifi \/ StartWpa \/ DhcpWifi \/ Rest
    BY <2>1, <2>5 DEF LoopHead, CheckWired, WiredReady, DhcpWired, CheckWifi, StartWpa, DhcpWifi,
       Rest, ToolEnds
  <2>6. CASE OnlineUnasked
    BY <2>1, <2>6 DEF OnlineUnasked
  <2>7. CASE NoAnswer
    BY <2>1, <2>7 DEF NoAnswer, Asking, FallBack
  <2>8. CASE WriteTemp
    BY <2>1, <2>8 DEF WriteTemp
  <2>9. CASE Rename
    BY <2>1, <2>9 DEF Rename
  <2>10. CASE SaveFails
    BY <2>1, <2>10 DEF SaveFails, FallBack
  <2>11. CASE Adopt
    BY <2>1, <2>11 DEF Adopt
  <2> QED
    BY <1>2, <2>2, <2>3, <2>4, <2>5, <2>6, <2>7, <2>8, <2>9, <2>10, <2>11 DEF DeviceStep, NetworkLoop
<1>3. CASE \E e \in Answers : Find(e)
  <2>1. PICK e \in Endpoint : Discover(e) /\ UNCHANGED <<conn, target>>
    BY <1>3 DEF Find, Answers, connVars
  <2> QED
    BY <2>1 DEF Discover, Asking, FallBack
<1>4. CASE DeviceGone
  BY <1>4 DEF DeviceGone, Die, PowerLoss, Gone
<1>5. CASE StartConnect
  BY <1>5 DEF StartConnect, deviceVars
<1>6. CASE Handshake
  BY <1>6 DEF Handshake, deviceVars
<1>7. CASE LoseConnection
  BY <1>7 DEF LoseConnection
<1>8. CASE ServerStep \/ Move
  BY <1>1, <1>8 DEF ServerStep, Move
<1> QED
  BY <1>1, <1>2, <1>3, <1>4, <1>5, <1>6, <1>7, <1>8 DEF Next, vars

\* The server of the pairing takes only the steps of ServerIdentity.
LEMMA ServerStart == Init => IdentityInit
BY DEF Init

LEMMA ServerSteps == [Next]_vars => [IdentityNext]_identityVars
BY DEF Next, vars, ServerStep, Move, DeviceStep, Find, DeviceGone, StartConnect, Handshake,
   LoseConnection

AtHome == home \in 1..MaxHome

LEMMA HomeStep == AtHome /\ [Next]_vars => AtHome'
<1> SUFFICES ASSUME AtHome, [Next]_vars PROVE AtHome'
  OBVIOUS
<1> USE DEF AtHome
<1>1. CASE Move
  BY <1>1, PairingAssumption DEF Move, PairingAssumption
<1>2. CASE UNCHANGED home
  BY <1>2
<1> QED
  BY <1>1, <1>2 DEF Next, vars, ServerStep, DeviceStep, Find, DeviceGone, StartConnect, Handshake,
     LoseConnection

\* Whatever the client connects to, or is about to, has the key the device
\* has saved (network_bootstrap.cpp, Start; voice_client.cpp, StartConnect).
THEOREM Pinned == Spec => []PairingSound
<1>1. DevInv => PinnedPeer
  BY DEF DevInv, PinnedPeer, SameKey
<1>2. DevInv /\ IdentityInv /\ AtHome => TypeOK
  BY DEF AtHome, DevInv, IdentityInv, TypeOK
<1>3. Init => AtHome
  BY PairingAssumption DEF AtHome, Init, PairingAssumption
<1> QED
  BY <1>1, <1>2, <1>3, DevStart, DevStep, ServerStart, ServerSteps, HomeStep, IdentityStart,
     IdentityStep, PTL DEF Spec, PairingSound

\* A saved key is replaced only by a configured server's, and taken back only
\* by a loss of power; an interrupted save loses nothing (AtomicWrite).
THEOREM KeyKept == Spec => PinKept
<1> DEFINE Kept == saved # None /\ (saved' = None \/ saved'.key # saved.key)
                     => \/ at = "bootRename" /\ saved' = configured
                        \/ at' = "off" /\ saved' = disk
<1>1. DevInv /\ [Next]_vars => [Kept]_vars
  <2> SUFFICES ASSUME DevInv, Next PROVE Kept
    OBVIOUS
  <2>1. CASE saved' = saved
    BY <2>1
  <2>2. CASE Rename
    BY <2>2, BootstrapAssumption DEF Rename, DevInv, SameKey, DeviceTypeOK, Booting, BootstrapAssumption
  <2>3. CASE DeviceGone
    BY <2>3 DEF DeviceGone, Die, PowerLoss, Gone
  <2>4. CASE DeviceStep
    BY <2>1, <2>2, <2>4 DEF DeviceStep, Boot, RequestStop, Flush, NetworkLoop, LoopHead, CheckWired,
       WiredReady, DhcpWired, CheckWifi, StartWpa, DhcpWifi, Rest, ToolEnds, Go, OnlineUnasked,
       NoAnswer, WriteTemp, SaveFails, Adopt
  <2>5. CASE \E e \in Answers : Find(e)
    BY <2>1, <2>5 DEF Find, Discover
  <2>6. CASE ServerStep \/ Move \/ StartConnect \/ Handshake \/ LoseConnection
    BY <2>1, <2>6 DEF ServerStep, Move, StartConnect, Handshake, LoseConnection, deviceVars
  <2> QED
    BY <2>3, <2>4, <2>5, <2>6 DEF Next
<1> QED
  BY <1>1, DevStart, DevStep, PTL DEF Spec, PinKept

\* What the server of the pairing offers to devices is one key for good.
THEOREM PairingIdentity == Spec => []OneIdentity
BY ServerStart, ServerSteps, Identity, PTL DEF Spec, IdentitySpec
=============================================================================
