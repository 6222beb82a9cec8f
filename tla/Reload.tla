-------------------------------- MODULE Reload --------------------------------
(* SIGHUP and the renewal of the interface's certificate: a configuration     *)
(* file and certificate files that others write, the reload that adopts a     *)
(* file or refuses it, and the reloader that serves a pair while the files    *)
(* change (cmd/wsaw/run.go, config/reload.go, httpapi/certs.go).              *)
EXTENDS Naturals

CONSTANTS Files,            \* configuration files: [sound : BOOLEAN, targets, fixed, path], the
                            \* part that reloads, the part that needs a restart, the pair's path
          Paths,            \* where certificate pairs lie
          Certs,            \* certificates issued, each with its key
          Expires, Urgent,  \* [Certs -> Nat]: the end of a certificate, and of four fifths of its life
          Horizon, MaxEdits, MaxHups,    \* bounds
          None

ReloadAssumption ==
  /\ \A c \in Certs : Urgent[c] \in Nat /\ Expires[c] \in Nat /\ Urgent[c] <= Expires[c]
  /\ \A f \in Files : f.path \in Paths
  /\ Horizon \in Nat /\ None \notin {"watch", "reload"}

VARIABLES
  file,     \* the configuration file
  disk,     \* disk[p]: the two files of a pair
  now,
  hup,      \* a SIGHUP waits
  pc, next, seen,    \* where the reload stands, the file it read, and the certificate
  start,    \* the configuration the process started with
  app, daemon,       \* what ad-hoc scans and the scheduler go by
  certPaths,         \* the paths in force, held by supervise
  cert,     \* certReloader
  reading,  \* who holds the reloader's lock, and what it read of the certificate
  edits, hups        \* bounds

configVars == <<file, hup, pc, next, seen, start, app, daemon, certPaths, hups>>
vars == <<file, disk, now, hup, pc, next, seen, start, app, daemon, certPaths, cert, reading, edits, hups>>

Targets == {f.targets : f \in Files}
Pairs == [cert : Certs \cup {None}, key : Certs \cup {None}]
Nobody == [who |-> None, cert |-> None]
Whole(c) == [cert |-> c, key |-> c]
Missing(p) == [cert |-> None, key |-> p]      \* a file that cannot be read digests as its error

TypeOK ==
  /\ {file, start, next} \subseteq Files /\ seen \in Certs \cup {None} /\ disk \in [Paths -> Pairs] /\ now \in 0..Horizon
  /\ hup \in BOOLEAN /\ pc \in {"idle", "load", "check", "key", "adopt", "schedule", "certificate", "attempt"}
  /\ app \in Targets /\ daemon \in Targets /\ certPaths \in Paths
  /\ cert.path \in Paths /\ cert.served \in Certs /\ cert.failure \in BOOLEAN /\ cert.escalated \in BOOLEAN
  /\ cert.tried \in Pairs \cup {Missing(p) : p \in Paths}
  /\ reading.who \in {None, "watch", "reload"} /\ reading.cert \in Certs \cup {None}

\* newCertReloader: what cannot be loaded stops the start, an expired pair does not.
Init ==
  /\ file \in {f \in Files : f.sound} /\ start = file /\ next = file /\ seen = None
  /\ \E c \in Certs :
       /\ disk = [p \in Paths |-> IF p = file.path THEN Whole(c) ELSE [cert |-> None, key |-> None]]
       /\ cert = [path |-> file.path, served |-> c, tried |-> Whole(c), failure |-> FALSE, escalated |-> FALSE]
  /\ now = 0 /\ hup = FALSE /\ pc = "idle" /\ app = file.targets /\ daemon = file.targets /\ certPaths = file.path
  /\ reading = Nobody /\ edits = 0 /\ hups = 0

-----------------------------------------------------------------------------
(* Others: the operator, and whatever renews certificates, in two writes.    *)

Edit == edits < MaxEdits /\ edits' = edits + 1
EditConfig == Edit /\ file' \in Files
  /\ UNCHANGED <<disk, now, hup, pc, next, seen, start, app, daemon, certPaths, cert, reading, hups>>
WriteFile == \E p \in Paths, c \in Certs \cup {None}, part \in {"cert", "key"} :
  /\ Edit /\ disk' = [disk EXCEPT ![p][part] = c] /\ UNCHANGED <<now, cert, reading>> /\ UNCHANGED configVars
Tick == now < Horizon /\ now' = now + 1 /\ UNCHANGED <<disk, cert, reading, edits>> /\ UNCHANGED configVars
Signal == ~hup /\ hups < MaxHups /\ hup' = TRUE /\ hups' = hups + 1
  /\ UNCHANGED <<file, disk, now, pc, next, seen, start, app, daemon, certPaths, cert, reading, edits>>

-----------------------------------------------------------------------------
(* reload                                                                    *)

Goes(place) == pc' = place
Rest == UNCHANGED <<file, disk, now, start, cert, reading, edits, hups>>

Hup == pc = "idle" /\ hup /\ hup' = FALSE /\ Goes("load") /\ UNCHANGED <<next, seen, app, daemon, certPaths>> /\ Rest

\* Mutant: a file is taken for what of it can be adopted.
AdoptsHalf(f) == FALSE
NonReloadableChanges(f) == f.fixed # start.fixed

\* It parses, validates and names a target.
Loads(f) == f.sound
\* A file that does not load, or moved something else, is refused; the
\* certificate in force is loaded again either way.
Load ==
  /\ pc = "load"
  /\ IF Loads(file) /\ ~NonReloadableChanges(file) THEN next' = file /\ Goes("check")
                                                  ELSE UNCHANGED next /\ Goes("certificate")
  /\ UNCHANGED <<hup, seen, app, daemon, certPaths>> /\ Rest

\* CheckTLSFiles reads the pair the file names on its own account; whether it
\* has expired is only logged.
CheckTLSFiles ==
  /\ pc = "check" /\ seen' = disk[next.path].cert /\ Goes("key")
  /\ UNCHANGED <<hup, next, app, daemon, certPaths>> /\ Rest
\* ResolveTargets after it reads secrets, one of which may be gone.
ResolveTargets ==
  /\ pc = "key" /\ seen' = None
  /\ \/ seen # None /\ disk[next.path].key = seen /\ Goes("adopt")
     \/ Goes("certificate")
  /\ UNCHANGED <<hup, next, app, daemon, certPaths>> /\ Rest

AdoptApp == pc = "adopt" /\ app' = next.targets /\ Goes("schedule") /\ UNCHANGED <<hup, next, seen, daemon, certPaths>> /\ Rest
AdoptDaemon ==
  /\ pc = "schedule" /\ daemon' = next.targets /\ certPaths' = next.path /\ Goes("certificate")
  /\ UNCHANGED <<hup, next, seen, app>> /\ Rest

-----------------------------------------------------------------------------
(* certReloader                                                              *)

\* The lock is taken and the first file read.
Opens(who, path) == reading.who = None /\ reading' = [who |-> who, cert |-> disk[path].cert]
ReloadCertificate ==
  /\ pc = "certificate" /\ Opens("reload", certPaths) /\ cert' = [cert EXCEPT !.path = certPaths] /\ Goes("attempt")
  /\ UNCHANGED <<file, disk, now, hup, next, seen, start, app, daemon, certPaths, edits, hups>>
Check == Opens("watch", cert.path) /\ UNCHANGED <<disk, now, cert, edits>> /\ UNCHANGED configVars

Digest(c, k, p) == IF c = None \/ k = None THEN Missing(p) ELSE [cert |-> c, key |-> k]
NearExpiry(c) == now >= Urgent[c]
Usable(c, k) == c # None /\ c = k /\ now < Expires[c]

Escalate == [cert EXCEPT !.escalated = @ \/ (cert.failure /\ NearExpiry(cert.served))]

Tried(c, k, forced) ==
  LET sum == Digest(c, k, cert.path)
  IN IF c = cert.served /\ k = cert.served THEN [cert EXCEPT !.tried = sum, !.failure = FALSE, !.escalated = FALSE]
     ELSE IF ~forced /\ sum = cert.tried THEN Escalate
     ELSE IF Usable(c, k) THEN [cert EXCEPT !.tried = sum, !.served = c, !.failure = FALSE, !.escalated = FALSE]
     ELSE [cert EXCEPT !.tried = sum, !.failure = TRUE, !.escalated = NearExpiry(cert.served)]
Attempt ==
  /\ reading.who # None /\ reading' = Nobody
  /\ cert' = Tried(reading.cert, disk[cert.path].key, reading.who = "reload")
  /\ pc' = IF reading.who = "reload" THEN "idle" ELSE pc
  /\ UNCHANGED <<file, disk, now, hup, next, seen, start, app, daemon, certPaths, edits, hups>>

Others == EditConfig \/ WriteFile \/ Tick \/ Signal
Supervise == Hup \/ Load \/ CheckTLSFiles \/ ResolveTargets \/ AdoptApp \/ AdoptDaemon \/ ReloadCertificate
Next == Others \/ Supervise \/ Check \/ Attempt
Spec == Init /\ [][Next]_vars

-----------------------------------------------------------------------------
(* A reload is whole or not at all: between two of them, ad-hoc scans and the *)
(* scheduler go by the same file, with the certificate it names, and it never *)
(* moved what only a restart can (reload, NonReloadableChanges).              *)
AdoptedWhole ==
  /\ pc \in {"idle", "load"} => app = daemon /\ cert.path = certPaths
  /\ pc \in {"adopt", "schedule"} => next.sound /\ next.fixed = start.fixed

(* A pair that replaces another matches and has not expired, whatever moment  *)
(* of a renewal its files were read at (attempt).                             *)
TakesTheSound == cert'.served # cert.served => now < Expires[cert'.served]
ReplacedByBetter == [][TakesTheSound]_vars
================================================================================
