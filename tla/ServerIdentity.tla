--------------------------- MODULE ServerIdentity ---------------------------
(***************************************************************************)
(* The server's TLS identity: a private key and a certificate in two files *)
(* that LoadOrCreate loads, or creates on the first start. A device stores *)
(* the digest of the key it first met, so the key a directory has once     *)
(* offered must be the one it offers ever after, although the two files    *)
(* are written one after the other, a start may be killed between any two  *)
(* steps, a write may fail, and a second start may overlap the first.      *)
(*                                                                         *)
(* A file holds nothing yet (Torn) from its creation until it is written.  *)
(* A certificate is the key it is for. Left out: a sync or a close that    *)
(* fails after the data was written, when an overlapping start may already *)
(* have loaded the pair that is then removed.                              *)
(***************************************************************************)
CONSTANTS
  Process,   \* starts of the server that use the same directory
  Key,       \* keys that can be generated, each at most once
  NoFile,    \* what a path holds that does not exist
  Torn       \* what a file holds that was not written to its end

ASSUME IdentityAssumption == NoFile \notin Key /\ Torn \notin Key /\ NoFile # Torn

VARIABLES
  keyFile, certFile,  \* server.key and server.crt
  made,      \* the keys generated so far
  offered,   \* the keys some listener has offered to devices
  step,      \* step[p]: where start p is, "off" when it does not run
  mine       \* mine[p]: the key p generated or loaded

filesVars == <<keyFile, certFile>>
identityVars == <<keyFile, certFile, made, offered, step, mine>>

Steps == {"off", "sawCert", "sawNoCert", "generate", "openKey", "writeKey",
          "openCert", "writeCert", "undo", "loadCert", "loadKey", "listen", "serving"}

IdentityTypeOK ==
  /\ keyFile \in Key \cup {NoFile, Torn}
  /\ certFile \in Key \cup {NoFile, Torn}
  /\ made \subseteq Key
  /\ offered \subseteq Key
  /\ step \in [Process -> Steps]
  /\ mine \in [Process -> Key \cup {NoFile}]

IdentityInit ==
  /\ keyFile = NoFile /\ certFile = NoFile /\ made = {} /\ offered = {}
  /\ step = [p \in Process |-> "off"]
  /\ mine = [p \in Process |-> NoFile]

Goto(p, s) == step' = [step EXCEPT ![p] = s] /\ UNCHANGED mine
GotoWith(p, s, k) == step' = [step EXCEPT ![p] = s] /\ mine' = [mine EXCEPT ![p] = k]
Leave(p) == GotoWith(p, "off", NoFile)

\* LoadOrCreate looks whether the certificate exists, and then the key: one
\* without the other is an error and ends the start.
LookCert(p) ==
  /\ step[p] = "off"
  /\ Goto(p, IF certFile = NoFile THEN "sawNoCert" ELSE "sawCert")
  /\ UNCHANGED <<filesVars, made, offered>>

LookKey(p) ==
  /\ \/ step[p] = "sawCert" /\ IF keyFile = NoFile THEN Leave(p) ELSE Goto(p, "loadCert")
     \/ step[p] = "sawNoCert" /\ IF keyFile = NoFile THEN Goto(p, "generate") ELSE Leave(p)
  /\ UNCHANGED <<filesVars, made, offered>>

Generate(p) ==
  /\ step[p] = "generate"
  /\ \E k \in Key \ made : made' = made \cup {k} /\ GotoWith(p, "openKey", k)
  /\ UNCHANGED <<filesVars, offered>>

\* writeNewFile opens with O_EXCL: a file that is already there is never
\* written to, and the error leaves it alone.
MutOpenKey(p) ==
  /\ step[p] = "openKey"
  /\ keyFile' = Torn /\ Goto(p, "writeKey")
  /\ UNCHANGED <<certFile, made, offered>>

OpenKey(p) ==
  /\ step[p] = "openKey"
  /\ IF keyFile = NoFile
       THEN keyFile' = Torn /\ Goto(p, "writeKey")
       ELSE keyFile' = keyFile /\ Leave(p)
  /\ UNCHANGED <<certFile, made, offered>>

\* The file is written to its end or removed, the removal's own failure being
\* ignored.
WriteKey(p) ==
  /\ step[p] = "writeKey"
  /\ \/ keyFile' = mine[p] /\ Goto(p, "openCert")
     \/ keyFile' \in {NoFile, Torn} /\ Leave(p)
  /\ UNCHANGED <<certFile, made, offered>>

\* A certificate that cannot be written takes the key file with it.
OpenCert(p) ==
  /\ step[p] = "openCert"
  /\ IF certFile = NoFile
       THEN certFile' = Torn /\ Goto(p, "writeCert")
       ELSE certFile' = certFile /\ Goto(p, "undo")
  /\ UNCHANGED <<keyFile, made, offered>>

WriteCert(p) ==
  /\ step[p] = "writeCert"
  /\ \/ certFile' = mine[p] /\ Goto(p, "loadCert")
     \/ certFile' \in {NoFile, Torn} /\ Goto(p, "undo")
  /\ UNCHANGED <<keyFile, made, offered>>

RemoveKey(p) ==
  /\ step[p] = "undo"
  /\ keyFile' = NoFile
  /\ Leave(p)
  /\ UNCHANGED <<certFile, made, offered>>

\* LoadX509KeyPair reads the certificate, then the key, and wants a pair.
MutLoadCert(p) ==
  /\ step[p] = "loadCert"
  /\ GotoWith(p, "loadKey", certFile)
  /\ UNCHANGED <<filesVars, made, offered>>

LoadCert(p) ==
  /\ step[p] = "loadCert"
  /\ IF certFile \in Key THEN GotoWith(p, "loadKey", certFile) ELSE Leave(p)
  /\ UNCHANGED <<filesVars, made, offered>>

LoadKey(p) ==
  /\ step[p] = "loadKey"
  /\ IF keyFile = mine[p] THEN Goto(p, "listen") ELSE Leave(p)
  /\ UNCHANGED <<filesVars, made, offered>>

\* runListeners: the ports are taken while another start serves, and one
\* listener that fails ends both.
Listen(p) ==
  /\ step[p] = "listen"
  /\ IF \E q \in Process : step[q] = "serving"
       THEN offered' = offered /\ Leave(p)
       ELSE offered' = offered \cup {mine[p]} /\ Goto(p, "serving")
  /\ UNCHANGED <<filesVars, made>>

\* The process is killed, or its listeners end: whatever it had begun stays.
Exit(p) ==
  /\ step[p] # "off"
  /\ Leave(p)
  /\ UNCHANGED <<filesVars, made, offered>>

Startup(p) ==
  \/ LookCert(p) \/ LookKey(p) \/ Generate(p)
  \/ OpenKey(p) \/ WriteKey(p) \/ OpenCert(p) \/ WriteCert(p) \/ RemoveKey(p)
  \/ LoadCert(p) \/ LoadKey(p) \/ Listen(p)

IdentityNext == \E p \in Process : Startup(p) \/ Exit(p)

IdentitySpec == IdentityInit /\ [][IdentityNext]_identityVars

Serving == \E p \in Process : step[p] = "serving"

-----------------------------------------------------------------------------
(* Properties.                                                             *)

\* tls.go:32 calls the key stable: once a key was offered, both files hold
\* it, so that every later start loads that one and no start creates another,
\* whatever was killed, failed or overlapped before.
OneIdentity == offered # {} => offered = {keyFile} /\ certFile = keyFile
=============================================================================
