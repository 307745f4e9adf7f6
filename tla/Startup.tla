------------------------------- MODULE Startup -------------------------------
(***************************************************************************)
(* The start of the program (main, up to the threads): every radar is read *)
(* over its COM port and configured, made sensitive, paired with one of    *)
(* the SPI interfaces, and given its margin back.                          *)
(*                                                                         *)
(* Which interface belongs to a radar is found by silence: the radar is    *)
(* stopped, and the first interface on which nothing arrives is its own    *)
(* (attachSPIInterface, scanAlive).  To be told apart, the others have to  *)
(* send, so before the search every radar gets a low main range margin.    *)
(*                                                                         *)
(* Of a radar's settings two margins are modelled, near and main; near     *)
(* comes first wherever margins are read or set.  Any call to a sensor or  *)
(* an interface may fail.  There are as many interfaces as radars, each    *)
(* wired to one.                                                           *)
(***************************************************************************)
EXTENDS Naturals, FiniteSets

CONSTANTS
  NumRadars,    \* config_entries
  Disc,         \* disc_sesitivity, the margin during the search
  NearMargin,   \* the near range margin of the sensors
  MainMargin,   \* their main range margin
  FileMargin,   \* the main range margin the file has for a radar
  MaxFaults,    \* bound: calls, or rounds of getRadarConfig, that fail
  MaxCrashes,   \* bound: restarts of the program
  Junk,         \* text of a buffer that was not initialised
  Throws,       \* what stoi gives for a text that is no number
  NotInFile, None

Radars == 1 .. NumRadars

Margins == {Disc, NearMargin, MainMargin, FileMargin}

ASSUME StartupAssumption ==
  /\ NumRadars \in Nat \ {0}
  /\ MaxFaults \in Nat /\ MaxCrashes \in Nat
  /\ Junk \notin Margins /\ Throws \notin Margins
  /\ NotInFile \notin [near : Margins \cup {Junk}, main : Margins \cup {Junk}]
  /\ None \notin Radars

Retries_One == 1

\* DISCOVERY_RETRY.
Retries == 3

VARIABLES
  pc,      \* where main is
  i,       \* the radar of its loop
  try,     \* retries, in attachSPIInterface
  j,       \* the interface of scanAlive's loop
  ram,     \* each sensor's margins, in RAM
  acq,     \* the sensors that are measuring
  cfg,     \* cfgs: the margins as texts
  known,   \* the radars whose serial number was read
  file,    \* config.conf, as far as the margins go
  wire,    \* the interface each radar is wired to
  opened,  \* SPiEntries that spiInit has set up
  rx,      \* the interfaces with data that was not read
  spi,     \* the interface each radar is attached to
  faults, crashes,
  wanted,  \* history: the main range margin a sensor should end up with
  sound,   \* history: the radars that were measuring when the program was
           \* started, and of which no call has failed
  exposed  \* history: radars that a crash left with Disc and not in the file

envVars == <<wire, wanted>>
sensorVars == <<ram, acq>>
searchVars == <<try, j, opened, rx, spi>>
countVars == <<faults, sound>>
crashVars == <<crashes, exposed>>
vars == <<pc, i, sensorVars, cfg, known, file, searchVars, envVars, countVars,
          crashVars>>

-----------------------------------------------------------------------------
Steps == {"identify", "load", "configure", "readback", "sensitize", "open",
          "stop", "scan", "start", "restore", "done", "down"}

Texts == [near : Margins \cup {Junk}, main : Margins \cup {Junk}]

\* The types; main stays within the radars and the interfaces there are.
TypeOK ==
  /\ pc \in Steps
  /\ i \in Radars
  /\ try \in 1 .. Retries
  /\ j \in Radars
  /\ ram \in [Radars -> [near : Margins, main : Margins]]
  /\ acq \in SUBSET Radars
  /\ cfg \in [Radars -> Texts]
  /\ known \in SUBSET Radars
  /\ file \in [Radars -> Texts \cup {NotInFile}]
  /\ wire \in [Radars -> Radars]
  /\ opened \in SUBSET Radars
  /\ rx \in SUBSET Radars
  /\ spi \in [Radars -> Radars \cup {None}]
  /\ faults \in 0 .. MaxFaults
  /\ crashes \in 0 .. MaxCrashes
  /\ wanted \in [Radars -> {MainMargin, FileMargin}]
  /\ sound \in SUBSET Radars
  /\ exposed \in SUBSET Radars

AsMade == [near |-> NearMargin, main |-> MainMargin]
AsSaved == [near |-> NearMargin, main |-> FileMargin]
Unread == [near |-> Junk, main |-> Junk]

\* A sensor may or may not be measuring when the program starts.
Init ==
  /\ pc = "identify"
  /\ i = 1
  /\ try = 1
  /\ j = 1
  /\ ram = [r \in Radars |-> AsMade]
  /\ acq \in SUBSET Radars
  /\ cfg = [r \in Radars |-> Unread]
  /\ known = {}
  /\ file \in [Radars -> {AsSaved, NotInFile}]
  /\ wire \in {w \in [Radars -> Radars] :
                 \A r, s \in Radars : w[r] = w[s] => r = s}
  /\ opened = {}
  /\ rx = {}
  /\ spi = [r \in Radars |-> None]
  /\ faults = 0
  /\ crashes = 0
  /\ wanted = [r \in Radars |-> IF file[r] = NotInFile THEN MainMargin
                                                       ELSE FileMargin]
  /\ sound = acq
  /\ exposed = {}

\* main's loops: the next radar, or on to the next loop.
Onward(step, after) ==
  IF i < NumRadars THEN i' = i + 1 /\ pc' = step ELSE i' = 1 /\ pc' = after

\* n calls for radar r fail.
Fail(r, n) ==
  /\ faults + n <= MaxFaults
  /\ faults' = faults + n
  /\ sound' = IF n > 0 THEN sound \ {r} ELSE sound

\* A call for radar r that may fail: what holds after it, and after a failure.
May(r, succeeds, fails) ==
  \/ succeeds /\ Fail(r, 0)
  \/ fails /\ Fail(r, 1)

\* stoi of a text: what is left in an uninitialised buffer may be a number.
Converted(text) == IF text = Junk THEN Margins \cup {Throws} ELSE {text}

-----------------------------------------------------------------------------
(* Reading and setting the radar's configuration over its COM port. *)

\* getRadarConfig: each value is read into the same buffer, and set from it
\* also when the call has failed.  The calls that fail in one round of it
\* count as one fault.
ReadConfig(failed) ==
  LET near == IF "near" \in failed THEN Junk ELSE ram[i].near
      main == IF "main" \in failed THEN near ELSE ram[i].main
  IN  /\ Fail(i, IF failed = {} THEN 0 ELSE 1)
      /\ cfg' = [cfg EXCEPT ![i] = [near |-> near, main |-> main]]
      /\ known' = IF "serial" \in failed THEN known \ {i} ELSE known \cup {i}

\* main goes on with the radar whether or not it could be read.
Identify ==
  /\ pc = "identify"
  /\ \E failed \in SUBSET {"near", "main", "serial"} : ReadConfig(failed)
  /\ Onward("identify", "load")
  /\ UNCHANGED <<sensorVars, file, searchVars, envVars, crashVars>>

\* populate, and perhaps createDefault (ConfigStore has both in full).
Load ==
  /\ pc = "load"
  /\ pc' = "configure"
  /\ cfg' = [r \in Radars |-> IF r \in known /\ file[r] # NotInFile
                              THEN file[r] ELSE cfg[r]]
  /\ \/ UNCHANGED file
     \/ file' = [r \in Radars |-> IF r \in known THEN cfg'[r] ELSE NotInFile]
  /\ UNCHANGED <<i, sensorVars, known, searchVars, envVars, countVars,
                 crashVars>>

ConfigureUnchanged ==
  UNCHANGED <<i, acq, cfg, known, file, searchVars, envVars, crashVars>>

\* startSensorConfig sets every value ...
Configure ==
  /\ pc = "configure"
  /\ pc' = "readback"
  /\ \E n \in Converted(cfg[i].near) \ {Throws},
        m \in Converted(cfg[i].main) \ {Throws} :
       ram' = [ram EXCEPT ![i] = [near |-> n, main |-> m]]
  /\ Fail(i, 0)
  /\ ConfigureUnchanged

\* ... or stops at the first call that fails: before, between or after the
\* two margins; then nothing is read back.
ConfigureFails ==
  /\ pc = "configure"
  /\ pc' = "sensitize"
  /\ \/ UNCHANGED ram
     \/ \E n \in Converted(cfg[i].near) \ {Throws} :
          \/ ram' = [ram EXCEPT ![i].near = n]
          \/ \E m \in Converted(cfg[i].main) \ {Throws} :
               ram' = [ram EXCEPT ![i] = [near |-> n, main |-> m]]
  /\ Fail(i, 1)
  /\ ConfigureUnchanged

\* No one catches what stoi throws.
ConfigureThrows ==
  /\ pc = "configure"
  /\ pc' = "down"
  /\ \/ Throws \in Converted(cfg[i].near) /\ UNCHANGED ram
     \/ /\ Throws \in Converted(cfg[i].main)
        /\ \E n \in Converted(cfg[i].near) \ {Throws} :
             ram' = [ram EXCEPT ![i].near = n]
  /\ Fail(i, 0)
  /\ ConfigureUnchanged

\* configureIsysRadar ends with getRadarConfig.
ReadBack ==
  /\ pc = "readback"
  /\ pc' = "sensitize"
  /\ \E failed \in SUBSET {"near", "main", "serial"} : ReadConfig(failed)
  /\ UNCHANGED <<i, sensorVars, file, searchVars, envVars, crashVars>>

Sensitize ==
  /\ pc = "sensitize"
  /\ May(i, ram' = [ram EXCEPT ![i].main = Disc], UNCHANGED ram)
  /\ Onward("configure", "open")
  /\ UNCHANGED <<acq, cfg, known, file, searchVars, envVars, crashVars>>

-----------------------------------------------------------------------------
(* The search for the interfaces. *)

Owner(port) == CHOOSE r \in Radars : wire[r] = port

\* openSPIPorts keeps an interface also when spiInit has failed.
OpenPorts ==
  /\ pc = "open"
  /\ pc' = "stop"
  /\ \E ports \in SUBSET Radars :
       LET bad == Radars \ ports
       IN  /\ opened' = ports
           /\ faults' = faults + Cardinality(bad)
           /\ faults' <= MaxFaults
           /\ sound' = {r \in sound : wire[r] \notin bad}
  /\ UNCHANGED <<i, sensorVars, cfg, known, file, try, j, rx, spi, envVars,
                 crashVars>>

\* attachSPIInterface stops the radar; what it had sent is still to be read.
StopRadar ==
  /\ pc = "stop"
  /\ pc' = "scan"
  /\ try' = 1
  /\ j' = 1
  /\ May(i, acq' = acq \ {i}, UNCHANGED acq)
  /\ \/ UNCHANGED rx
     \/ i \in acq /\ rx' = rx \cup {wire[i]}
  /\ UNCHANGED <<i, ram, cfg, known, file, opened, spi, envVars, crashVars>>

ScanUnchanged ==
  UNCHANGED <<i, sensorVars, cfg, known, file, opened, envVars, crashVars>>

\* scanAlive resets the interface, waits, and finds nothing: the sensor is
\* stopped and the reset has dropped what was there, if anything; or it has
\* not sent in time, or the interface answers with an error.
Silent ==
  /\ pc = "scan"
  /\ pc' = "start"
  /\ LET own == Owner(j)
     IN  \/ (j \notin opened \/ own \notin acq) /\ Fail(own, 0)
         \/ Fail(own, 1)
  /\ spi' = [spi EXCEPT ![i] = j]
  /\ rx' = rx \ {j}
  /\ UNCHANGED <<try, j>>
  /\ ScanUnchanged

Data == j \in opened /\ (Owner(j) \in acq \/ j \in rx)

\* Once more through the interfaces, or give up.
NextTry ==
  /\ j' = 1
  /\ IF try < Retries THEN try' = try + 1 /\ pc' = "scan"
                      ELSE try' = try /\ pc' = "start"

NextPort_OffByOne ==
  IF j <= NumRadars THEN j' = j + 1 /\ UNCHANGED <<pc, try>> ELSE NextTry

NextPort ==
  IF j < NumRadars THEN j' = j + 1 /\ UNCHANGED <<pc, try>> ELSE NextTry

\* What has arrived is read and thrown away: not this one.
ReadData ==
  /\ pc = "scan"
  /\ Data
  /\ rx' = rx \ {j}
  /\ Fail(Owner(j), 0)
  /\ NextPort
  /\ UNCHANGED spi
  /\ ScanUnchanged

\* An error while reading ends the scan without a result.
ReadFails ==
  /\ pc = "scan"
  /\ Data
  /\ Fail(Owner(j), 1)
  /\ NextTry
  /\ UNCHANGED <<rx, spi>>
  /\ ScanUnchanged

StartRadar_Forgotten ==
  /\ pc = "start"
  /\ May(i, UNCHANGED acq, UNCHANGED acq)
  /\ Onward("stop", "restore")
  /\ UNCHANGED <<ram, cfg, known, file, searchVars, envVars, crashVars>>

\* The radar is started, with an interface or without.
StartRadar ==
  /\ pc = "start"
  /\ May(i, acq' = acq \cup {i}, UNCHANGED acq)
  /\ Onward("stop", "restore")
  /\ UNCHANGED <<ram, cfg, known, file, searchVars, envVars, crashVars>>

-----------------------------------------------------------------------------
Restore_Near ==
  /\ pc = "restore"
  /\ \E m \in Converted(cfg[i].near) \ {Throws} :
       May(i, ram' = [ram EXCEPT ![i].main = m], UNCHANGED ram)
  /\ Onward("restore", "done")
  /\ UNCHANGED <<acq, cfg, known, file, searchVars, envVars, crashVars>>

\* "set the main range margins back".
Restore ==
  /\ pc = "restore"
  /\ \E m \in Converted(cfg[i].main) \ {Throws} :
       May(i, ram' = [ram EXCEPT ![i].main = m], UNCHANGED ram)
  /\ Onward("restore", "done")
  /\ UNCHANGED <<acq, cfg, known, file, searchVars, envVars, crashVars>>

RestoreThrows ==
  /\ pc = "restore"
  /\ Throws \in Converted(cfg[i].main)
  /\ pc' = "down"
  /\ UNCHANGED <<i, sensorVars, cfg, known, file, searchVars, envVars,
                 countVars, crashVars>>

\* The program is started again; the sensors have not noticed.  One that was
\* stopped for the search is not measuring.
Crash ==
  /\ crashes < MaxCrashes
  /\ crashes' = crashes + 1
  /\ exposed' = exposed \cup {r \in Radars : /\ file[r] = NotInFile
                                             /\ ram[r].main = Disc}
  /\ pc' = "identify"
  /\ i' = 1
  /\ try' = 1
  /\ j' = 1
  /\ cfg' = [r \in Radars |-> Unread]
  /\ known' = {}
  /\ opened' = {}
  /\ spi' = [r \in Radars |-> None]
  /\ sound' = sound \cap acq
  /\ UNCHANGED <<sensorVars, file, rx, envVars, faults>>

Next ==
  \/ Identify \/ Load
  \/ Configure \/ ConfigureFails \/ ConfigureThrows \/ ReadBack \/ Sensitize
  \/ OpenPorts \/ StopRadar \/ Silent \/ ReadData \/ ReadFails \/ StartRadar
  \/ Restore \/ RestoreThrows
  \/ Crash

Spec == Init /\ [][Next]_vars

-----------------------------------------------------------------------------
(* Correctness. *)

Searched == pc \in {"restore", "done"}

\* With every sensor measuring from the start and no call failing, the search
\* gives each radar the interface it is wired to, in whatever order the
\* interfaces are listed and whatever was left in them.
OwnInterface == Searched /\ sound = Radars => spi = wire

\* The interface of a radar of which no call has failed is given to no other
\* radar, whatever fails for those.
NotGivenAway ==
  \A r, s \in Radars : r # s /\ s \in sound => spi[r] # wire[s]

\* A sensor of which no call has failed ends up with the main range margin of
\* the file, or the one it had, although the search has set another; also
\* when the program stopped on the way, unless it was not in the file then.
MarginKept ==
  pc = "done" =>
    \A r \in sound \ exposed : ram[r].main = wanted[r]
=============================================================================
