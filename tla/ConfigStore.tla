----------------------------- MODULE ConfigStore -----------------------------
(***************************************************************************)
(* The settings of the program, in memory and in config.conf, over starts, *)
(* saves by the configuration page and stops at any moment.                *)
(*                                                                         *)
(* main finds the radars that are plugged in, gives every setting a value  *)
(* of its own, reads the file over them (Config::populate), writes the     *)
(* file anew if it holds that none was read (Config::createDefault), and   *)
(* configures the radars.  From then on each request of the configuration  *)
(* page is a thread that sets the settings in memory, takes a snapshot of  *)
(* them and writes it to the file; nothing keeps two requests apart.       *)
(*                                                                         *)
(* Nearly every setting is a text.  Some are converted to numbers each     *)
(* time they are used, with no one to catch what a text that is no number  *)
(* throws: in the handler, while main configures the radars, or in a       *)
(* thread once the program is up.  And the whole file is printed with its  *)
(* own text as the format: a text with a '%' does not come out as it is.   *)
(*                                                                         *)
(* A radar that could not be read stays in cfgs, named by whatever text    *)
(* was in the buffer for its serial number.  It is configured, served and  *)
(* saved like the others, but what is saved under such a name is not       *)
(* followed: it is taken to match no radar that is read.                   *)
(***************************************************************************)
EXTENDS Naturals, Functions

CONSTANTS
  Radars,         \* the serial numbers of the radars there are
  Handlers,       \* threads of the web server
  Texts,          \* the texts that are told apart
  Numbers,        \* those that stoi and stof convert
  Percent,        \* those with a '%'
  Unencoded,      \* those that are not UTF-8
  Forms,          \* what the configuration page may be sent with
  DefaultServer,  \* from the command line and Occupancy::init
  DefaultNotify,  \* "5"
  DefaultPlace,   \* "0.0"
  NoText,         \* the empty text
  Main,           \* the main thread, as a writer of the file
  MaxForms,       \* bound: requests
  MaxFaults,      \* bound: stops from outside, and rounds in which reading or
                  \* setting up radars fails
  Missing,        \* config.conf does not exist
  Hole,           \* a part of the file that was not written
  Broken,         \* a text that is no JSON
  Unknown         \* history: it is not known what the file should hold

\* Broker, port, client, password and topic; the maximum velocity; whether a
\* segment of the filter's grid has size zero.
Servers == [name : Texts, velocity : Texts, zero : BOOLEAN]

\* x, y and angle of a radar; its frequency channel and its three margins.
Entries == [place : Texts, sensor : Texts]

\* The entries of the radars in some set.
Devices == UNION {[rs -> Entries] : rs \in SUBSET Radars}

Contents == [server : Servers, notify : Texts, dev : Devices]

\* What the sensors answer, printed.
Answers == Numbers \ (Percent \cup Unencoded)

ASSUME StoreAssumption ==
  /\ Numbers \subseteq Texts /\ Percent \subseteq Texts /\ Unencoded \subseteq Texts
  /\ Forms \subseteq [server : Servers, notify : Texts,
                      dev : [Radars -> Entries], numbers : BOOLEAN]
  /\ Forms # {}
  /\ DefaultServer \in Servers /\ ~DefaultServer.zero
  /\ {DefaultServer.name, DefaultServer.velocity} \cap Unencoded = {}
  /\ {DefaultNotify, DefaultPlace} \subseteq Answers
  /\ NoText \in Texts \ Numbers
  /\ Main \notin Handlers
  /\ MaxForms \in Nat /\ MaxFaults \in Nat
  /\ {Hole, Broken, Unknown} \cap Contents = {} /\ Hole # Broken
  /\ Missing \notin [{"front", "rest"} -> Contents \cup {Hole, Broken}]

Writers == Handlers \cup {Main}

VARIABLES
  phase,   \* where main is
  found,   \* the radars in cfgs
  known,   \* those of them with their serial number read
  mem,     \* main_cfg, the filter's settings and cfgs
  file,    \* config.conf: its front and its rest, each from what someone wrote
  pc,      \* where each writer is
  form,    \* what its request came with
  snap,    \* its snapshot (j1)
  text,    \* what it has printed
  forms,   \* requests so far
  faults,  \* stops and failures so far
  fresh,   \* history: no request since the start
  alone,   \* history: the last request was the only one while it lasted
  matched, \* history: the radars whose serial number was known at the load
  disk     \* history: what the last request saved, if it was alone and no
           \* text in memory had a '%'

histVars == <<fresh, alone, matched, disk>>
radarVars == <<found, known>>
vars == <<phase, radarVars, mem, file, pc, form, snap, text, forms, faults,
          histVars>>

-----------------------------------------------------------------------------
Phases == {"down", "load", "default", "configure", "serve", "up"}

\* Set the settings, take the snapshot of them, open and write.
Steps == {"idle", "setServer", "setNotify", "setDev",
          "getServer", "getDev", "open", "front", "rest"}

Blank == [part \in {"front", "rest"} |-> Hole]

\* The settings before the file is read.
AtStart(sensors) ==
  [server |-> DefaultServer, notify |-> NoText,
   dev |-> [r \in DOMAIN sensors |-> [place |-> DefaultPlace, sensor |-> sensors[r]]]]

Nothing == AtStart([r \in {} |-> NoText])

NoForm == CHOOSE f \in Forms : TRUE

\* The types, and that memory has the radars that were found.
TypeOK ==
  /\ phase \in Phases
  /\ found \in SUBSET Radars /\ known \in SUBSET found
  /\ mem \in Contents /\ DOMAIN mem.dev = found
  /\ file \in [{"front", "rest"} -> Contents \cup {Hole, Broken}] \cup {Missing}
  /\ pc \in [Writers -> Steps]
  /\ form \in [Handlers -> Forms]
  /\ snap \in [Writers -> Contents]
  /\ text \in [Writers -> Contents \cup {Broken}]
  /\ forms \in 0 .. MaxForms
  /\ faults \in 0 .. MaxFaults
  /\ fresh \in BOOLEAN /\ alone \in BOOLEAN
  /\ matched \in SUBSET found
  /\ disk \in Contents \cup {Unknown}
  /\ phase = "down" => \A w \in Writers : pc[w] = "idle"

Init ==
  /\ phase = "down"
  /\ found = {} /\ known = {}
  /\ mem = Nothing
  /\ file = Missing
  /\ pc = [w \in Writers |-> "idle"]
  /\ form = [h \in Handlers |-> NoForm]
  /\ snap = [w \in Writers |-> Nothing]
  /\ text = [w \in Writers |-> Broken]
  /\ forms = 0
  /\ faults = 0
  /\ fresh = TRUE
  /\ alone = TRUE
  /\ matched = {}
  /\ disk = Unknown

Move(from, to) == phase = from /\ phase' = to

Step(w, from, to) == pc[w] = from /\ pc' = [pc EXCEPT ![w] = to]

MainAlone == UNCHANGED <<pc, form, snap, text, forms, alone>>

\* The process ends, with its memory and with every thread wherever it was.
Gone ==
  /\ phase' = "down"
  /\ found' = {} /\ known' = {} /\ matched' = {}
  /\ mem' = Nothing
  /\ pc' = [w \in Writers |-> "idle"]
  /\ form' = [h \in Handlers |-> NoForm]
  /\ snap' = [w \in Writers |-> Nothing]
  /\ text' = [w \in Writers |-> Broken]
  /\ disk' = IF \E w \in Writers : pc[w] # "idle" THEN Unknown ELSE disk
  /\ UNCHANGED <<forms, fresh, alone>>

\* ... in a step that leaves the file as it is.
GoneByItself == Gone /\ UNCHANGED <<file, faults>>

-----------------------------------------------------------------------------
(* Texts, and how they are printed. *)

TextsOf(c) ==
  {c.server.name, c.server.velocity, c.notify}
    \cup UNION {{c.dev[r].place, c.dev[r].sensor} : r \in DOMAIN c.dev}

Plain(c) == TextsOf(c) \cap Percent = {}

\* What is saved under the names of radars.
Entered(c) == [c EXCEPT !.dev = Restrict(@, known)]

\* A '%' is taken for a conversion, whose argument is whatever there is.
Garbled(t) == IF t \in Percent THEN Texts \ Unencoded ELSE {t}

GarbledEntry(e) == [place : Garbled(e.place), sensor : Garbled(e.sensor)]

\* fprintf with the JSON as its format: a text with a '%' becomes any other,
\* or all of it becomes a text that is no JSON.
Printed(c) ==
  IF Plain(c) THEN {Entered(c)}
  ELSE {Broken} \cup
       [server : [name : Garbled(c.server.name),
                  velocity : Garbled(c.server.velocity),
                  zero : {c.server.zero}],
        notify : Garbled(c.notify),
        dev : {p \in [known -> Entries] :
                 \A r \in known : p[r] \in GarbledEntry(c.dev[r])}]

-----------------------------------------------------------------------------
(* Start. *)

\* getRadarConfig, for some radars: what was read is printed into the config,
\* and where a call fails, whatever text is in the buffer.  (It also dumps the
\* settings and throws the text away; only a buffer can make that throw: Stop.)
Read(rs, failed, sensors) ==
  /\ known' \in SUBSET rs /\ rs \ failed \subseteq known'
  /\ \A r \in rs \ failed : sensors[r] \in Answers
  /\ faults' = IF failed = {} THEN faults ELSE faults + 1
  /\ faults' <= MaxFaults

\* scanPorts finds any of the radars; main reads them, and goes on with one
\* that it could not read as with the others.
Boot ==
  /\ Move("down", "load")
  /\ found' \in SUBSET Radars
  /\ \E failed \in SUBSET found', sensors \in [found' -> Texts] :
       Read(found', failed, sensors) /\ mem' = AtStart(sensors)
  /\ fresh' = TRUE
  /\ matched' = {}
  /\ UNCHANGED <<file, disk>>
  /\ MainAlone

\* populate: no file, hence not populated.
LoadNothing ==
  /\ Move("load", "default")
  /\ file = Missing
  /\ matched' = known
  /\ UNCHANGED <<radarVars, mem, file, faults, fresh, disk>>
  /\ MainAlone


\* An empty file is removed, and main returns.
LoadEmpty ==
  /\ phase = "load"
  /\ file = Blank
  /\ file' = Missing
  /\ UNCHANGED faults
  /\ Gone

\* What parsing the file may give.  Front and rest of different writes may or
\* may not fit together; the server's settings are at the front.
Readings ==
  LET front == file["front"]
      rest  == file["rest"]
  IN  IF Hole \in {front, rest} \/ Broken \in {front, rest} THEN {Broken}
      ELSE IF front = rest THEN {front}
      ELSE {Broken, [front EXCEPT !.dev = rest.dev]}

Loaded_AddsRadars(j) ==
  [j EXCEPT !.dev = [r \in found \cup DOMAIN j.dev |->
                       IF r \in DOMAIN j.dev THEN j.dev[r] ELSE mem.dev[r]]]

\* fromJSON, with matchConfig skipping the radars that no serial number in
\* cfgs stands for.
Loaded(j) ==
  [j EXCEPT !.dev = [r \in found |-> IF r \in known \cap DOMAIN j.dev
                                     THEN j.dev[r] ELSE mem.dev[r]]]

\* A text that is no JSON is reported and leaves everything as it was (one that
\* lacks a key, as a '%' may leave it, sets some settings: it counts as none).
\* The member populated is set by no one on this path: main goes on either as
\* if the file had been read or as if it had not.
LoadText ==
  /\ phase = "load"
  /\ phase' \in {"default", "configure"}
  /\ file \notin {Missing, Blank}
  /\ \E j \in Readings : mem' = IF j = Broken THEN mem ELSE Loaded(j)
  /\ matched' = known
  /\ UNCHANGED <<radarVars, file, faults, fresh, disk>>
  /\ MainAlone

CreateDefault_Resets ==
  /\ phase = "default"
  /\ Step(Main, "idle", "front")
  /\ mem' = [mem EXCEPT !.notify = DefaultNotify]
  /\ file' = Blank
  /\ snap' = [snap EXCEPT ![Main] = [mem' EXCEPT !.server = DefaultServer]]
  /\ UNCHANGED <<phase, radarVars, form, text, forms, faults, histVars>>

\* main sets the notify cycle and createDefault opens the file and takes the
\* snapshot.
CreateDefault ==
  /\ phase = "default"
  /\ Step(Main, "idle", "front")
  /\ mem' = [mem EXCEPT !.notify = DefaultNotify]
  /\ file' = Blank
  /\ snap' = [snap EXCEPT ![Main] = mem']
  /\ UNCHANGED <<phase, radarVars, form, text, forms, faults, histVars>>

\* startSensorConfig and addDevice for every radar, and its configuration read
\* back: where no call fails, every text of it was a number and is one again.
Configure ==
  /\ Move("configure", "serve")
  /\ found # {} => ~mem.server.zero
  /\ \E failed \in SUBSET found, sensors \in [found -> Texts] :
       /\ \A r \in found \ failed : mem.dev[r].sensor \in Numbers
       /\ Read(found, failed, sensors)
       /\ mem' = [mem EXCEPT !.dev =
                    [r \in found |-> [@[r] EXCEPT !.sensor = sensors[r]]]]
  /\ UNCHANGED <<found, file, fresh, matched, disk>>
  /\ MainAlone

\* stoi throws on a text that is no number; addDevice divides by the size of a
\* segment.
ConfigureEnds ==
  /\ phase = "configure"
  /\ found # {}
  /\ mem.server.zero \/ \E r \in found : mem.dev[r].sensor \notin Numbers
  /\ GoneByItself

\* startPubClient converts the notify cycle ...
StartClient ==
  /\ Move("serve", "up")
  /\ mem.notify \in Numbers
  /\ UNCHANGED <<radarVars, mem, file, faults, fresh, matched, disk>>
  /\ MainAlone

\* ... and stoi throws on a text that is no number.
ClientThrows ==
  /\ phase = "serve"
  /\ mem.notify \notin Numbers
  /\ GoneByItself

-----------------------------------------------------------------------------
(* Writing the file: by createDefault and by a request. *)

\* dump throws on a text that is not UTF-8.
Encodable(c) == TextsOf(c) \cap Unencoded = {}

\* fprintf, up to what it has written when the buffer was full.
WriteFront(w) ==
  /\ Step(w, "front", "rest")
  /\ Encodable(snap[w])
  /\ \E t \in Printed(snap[w]) :
       /\ text' = [text EXCEPT ![w] = t]
       /\ file' = [file EXCEPT !["front"] = t]
  /\ snap' = [snap EXCEPT ![w] = Nothing]
  /\ UNCHANGED <<phase, radarVars, mem, form, forms, faults, histVars>>

\* A conversion without an argument may end the process as well.
PrintEnds(w) ==
  /\ pc[w] = "front"
  /\ Encodable(snap[w]) /\ ~Plain(snap[w])
  /\ GoneByItself

\* createDefault opens the file before it dumps the settings, a request after.
DumpThrows(w) ==
  /\ pc[w] = IF w = Main THEN "front" ELSE "open"
  /\ ~Encodable(snap[w])
  /\ GoneByItself

WriterEnds(w) == PrintEnds(w) \/ DumpThrows(w)

\* The settings of radars that are not plugged in are gone now.
DefaultWritten ==
  /\ phase = "default"
  /\ phase' = "configure"
  /\ Step(Main, "rest", "idle")
  /\ file' = [file EXCEPT !["rest"] = text[Main]]
  /\ text' = [text EXCEPT ![Main] = Broken]
  /\ disk' = IF disk = Unknown \/ ~Plain(mem) THEN Unknown
             ELSE [disk EXCEPT !.dev = Restrict(@, known \cap DOMAIN @)]
  /\ UNCHANGED <<radarVars, mem, form, snap, forms, faults, fresh, alone, matched>>

Serving == phase \in {"serve", "up"}

\* A request of the configuration page (AHandler::handleAll).
Request(h) ==
  /\ Serving
  /\ forms < MaxForms
  /\ forms' = forms + 1
  /\ Step(h, "idle", "setServer")
  /\ \E f \in Forms : form' = [form EXCEPT ![h] = f]
  /\ alone' = (\A k \in Handlers : pc[k] = "idle")
  /\ fresh' = FALSE
  /\ disk' = Unknown
  /\ UNCHANGED <<phase, radarVars, mem, file, snap, text, faults, matched>>

\* webFormProcess converts the numbers of the grid ...
FormThrows(h) ==
  /\ pc[h] = "setServer"
  /\ ~form[h].numbers
  /\ GoneByItself

\* ... and sets every setting ...
SetServer(h) ==
  /\ Step(h, "setServer", "setNotify")
  /\ form[h].numbers
  /\ mem' = [mem EXCEPT !.server = form[h].server]
  /\ UNCHANGED <<phase, radarVars, file, form, snap, text, forms, faults, histVars>>

SetNotify(h) ==
  /\ Step(h, "setNotify", "setDev")
  /\ mem' = [mem EXCEPT !.notify = form[h].notify]
  /\ UNCHANGED <<phase, radarVars, file, form, snap, text, forms, faults, histVars>>

SetDev(h) ==
  /\ Step(h, "setDev", "getServer")
  /\ mem' = [mem EXCEPT !.dev = Restrict(form[h].dev, found)]
  /\ form' = [form EXCEPT ![h] = NoForm]
  /\ UNCHANGED <<phase, radarVars, file, snap, text, forms, faults, histVars>>

\* ... then toJSON ...
GetServer(h) ==
  /\ Step(h, "getServer", "getDev")
  /\ snap' = [snap EXCEPT ![h] = [Nothing EXCEPT !.server = mem.server,
                                                 !.notify = mem.notify]]
  /\ UNCHANGED <<phase, radarVars, mem, file, form, text, forms, faults, histVars>>

GetDev_NoPlaces(h) ==
  /\ Step(h, "getDev", "open")
  /\ snap' = [snap EXCEPT ![h].dev = [r \in found |->
                 [place |-> DefaultPlace, sensor |-> mem.dev[r].sensor]]]
  /\ UNCHANGED <<phase, radarVars, mem, file, form, text, forms, faults, histVars>>

GetDev(h) ==
  /\ Step(h, "getDev", "open")
  /\ snap' = [snap EXCEPT ![h].dev = mem.dev]
  /\ UNCHANGED <<phase, radarVars, mem, file, form, text, forms, faults, histVars>>

\* ... then dump, and fopen, which empties the file; fprintf; and fclose.
Open(h) ==
  /\ Step(h, "open", "front")
  /\ Encodable(snap[h])
  /\ file' = Blank
  /\ UNCHANGED <<phase, radarVars, mem, form, snap, text, forms, faults, histVars>>

\* The page answers "Config Set".
Saved(h) ==
  /\ Step(h, "rest", "idle")
  /\ file' = [file EXCEPT !["rest"] = text[h]]
  /\ text' = [text EXCEPT ![h] = Broken]
  /\ disk' = IF alone /\ Plain(mem) THEN Entered(mem) ELSE Unknown
  /\ UNCHANGED <<phase, radarVars, mem, form, snap, forms, faults, fresh, alone, matched>>

Handle(h) ==
  \/ SetServer(h) \/ SetNotify(h) \/ SetDev(h)
  \/ GetServer(h) \/ GetDev(h)
  \/ Open(h) \/ WriteFront(h) \/ Saved(h)

-----------------------------------------------------------------------------
(* Stopping. *)

\* From outside, by the key for it, which does not wait for the threads, or
\* because of a text that a failed call to a radar has left.
Stop ==
  /\ phase # "down"
  /\ faults < MaxFaults
  /\ faults' = faults + 1
  /\ UNCHANGED file
  /\ Gone

\* A radar thread converts the notify cycle in every round, and the position
\* whenever it publishes; the filter converts the maximum velocity.
Throws ==
  /\ phase = "up"
  /\ found # {}
  /\ \/ {mem.notify, mem.server.velocity} \ Numbers # {}
     \/ \E r \in found : mem.dev[r].place \notin Numbers
  /\ GoneByItself

\* No radar thread was started, and main returns.
NoThreads ==
  /\ phase = "up"
  /\ found = {}
  /\ GoneByItself

MainStep ==
  \/ LoadNothing \/ LoadEmpty \/ LoadText
  \/ CreateDefault \/ WriteFront(Main) \/ WriterEnds(Main) \/ DefaultWritten
  \/ Configure \/ ConfigureEnds \/ StartClient \/ ClientThrows \/ NoThreads

HandlerStep(h) == Handle(h) \/ FormThrows(h) \/ WriterEnds(h)

Next ==
  \/ Boot \/ MainStep
  \/ \E h \in Handlers : Request(h) \/ HandlerStep(h)
  \/ Stop \/ Throws

Spec == Init /\ [][Next]_vars

(* Every thread runs on, and someone starts the program whenever it is down. *)
FairSpec ==
  /\ Spec
  /\ WF_vars(Boot)
  /\ WF_vars(MainStep)
  /\ WF_vars(Throws)
  /\ \A h \in Handlers : WF_vars(HandlerStep(h))

-----------------------------------------------------------------------------
(* Correctness. *)

Idle == \A w \in Writers : pc[w] = "idle"

\* Once a request that had no other beside it has been answered, the file
\* holds what the program works with, whatever the requests before it did,
\* unless there is a '%' in it.
QuietSaved ==
  Serving /\ Idle /\ ~fresh /\ disk # Unknown => Readings = {Entered(mem)}

\* What such a request saved, the program works with after any number of
\* stops and starts, with the file read, written anew or not: the server's
\* settings, and the position of every radar that stayed plugged in and was
\* recognised.  Only a stop in the middle of a write takes it away, or a '%'
\* in memory when the file is written anew.
RestartRestores ==
  Serving /\ fresh /\ disk # Unknown =>
    /\ mem.server = disk.server
    /\ \A r \in matched \cap DOMAIN disk.dev :
         mem.dev[r].place = disk.dev[r].place

\* A file that main gets through: every text that it converts is a number.
Good(j) ==
  /\ j # Broken
  /\ j.notify \in Numbers
  /\ ~j.server.zero
  /\ \A r \in DOMAIN j.dev : j.dev[r].sensor \in Numbers

\* No file or an empty one, and defaults without a '%'; or a good one.
Startable ==
  \/ /\ file \in {Missing, Blank}
     /\ Plain([Nothing EXCEPT !.notify = DefaultNotify])
  \/ file \notin {Missing, Blank} /\ \A j \in Readings : Good(j)


\* "Config Set" (ConfigPageHandler.cpp:82): the notify cycle that the page
\* said was set is the one a later start works with.
SetStaysSet ==
  Serving /\ fresh /\ disk # Unknown => mem.notify = disk.notify
=============================================================================
