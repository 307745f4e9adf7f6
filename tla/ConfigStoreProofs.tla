-------------------------- MODULE ConfigStoreProofs --------------------------
(***************************************************************************)
(* Proofs about ConfigStore, for any radars, texts and forms, any number   *)
(* of threads of the web server, of requests, of stops and of failures.    *)
(***************************************************************************)
EXTENDS ConfigStore, TLAPS

-----------------------------------------------------------------------------
(* Contents of the memory and of the file.                                 *)

\* An entry for each radar of some set.
LEMMA InDevices ==
  ASSUME NEW rs \in SUBSET Radars, NEW p \in [rs -> Entries]
  PROVE  p \in Devices
BY DEF Devices

\* Entries are those of the radars in their domain.
LEMMA DevicesTyped ==
  ASSUME NEW p \in Devices
  PROVE  DOMAIN p \in SUBSET Radars /\ p \in [DOMAIN p -> Entries]
BY DEF Devices

\* Replacing one kind of settings leaves the others.
LEMMA SetPart ==
  ASSUME NEW c \in Contents
  PROVE  /\ \A s \in Servers :
              LET d == [c EXCEPT !.server = s]
              IN  d \in Contents /\ d.server = s /\ d.notify = c.notify
                    /\ d.dev = c.dev
         /\ \A n \in Texts :
              LET d == [c EXCEPT !.notify = n]
              IN  d \in Contents /\ d.server = c.server /\ d.notify = n
                    /\ d.dev = c.dev
         /\ \A p \in Devices :
              LET d == [c EXCEPT !.dev = p]
              IN  d \in Contents /\ d.server = c.server
                    /\ d.notify = c.notify /\ d.dev = p
BY DEF Contents

\* Contents that agree in every kind of settings are equal.
LEMMA SameContents ==
  ASSUME NEW c \in Contents, NEW d \in Contents,
         c.server = d.server, c.notify = d.notify, c.dev = d.dev
  PROVE  c = d
BY DEF Contents

\* Contents are told from the marks.
LEMMA NoMark ==
  ASSUME NEW c \in Contents
  PROVE  c # Hole /\ c # Broken /\ c # Unknown
BY StoreAssumption DEF StoreAssumption

\* The program's own settings.
LEMMA StartTyped ==
  ASSUME NEW rs \in SUBSET Radars, NEW sensors \in [rs -> Texts]
  PROVE  AtStart(sensors) \in Contents /\ DOMAIN AtStart(sensors).dev = rs
<1> DEFINE p == [r \in rs |-> [place |-> DefaultPlace, sensor |-> sensors[r]]]
<1>1. DefaultServer \in Servers /\ NoText \in Texts /\ DefaultPlace \in Texts
  BY StoreAssumption DEF StoreAssumption, Answers
<1>2. p \in [rs -> Entries]
  BY <1>1 DEF Entries
<1>3. p \in Devices
  BY <1>2, InDevices
<1>4. AtStart(sensors) = [server |-> DefaultServer, notify |-> NoText, dev |-> p]
  BY DEF AtStart
<1> QED
  BY <1>1, <1>3, <1>4 DEF Contents

\* ... and those without any radar.
LEMMA NothingTyped == Nothing \in Contents /\ DOMAIN Nothing.dev = {}
<1>1. [r \in {} |-> NoText] \in [{} -> Texts] /\ {} \in SUBSET Radars
  OBVIOUS
<1> QED
  BY <1>1, StartTyped DEF Nothing

\* What is restricted to some radars has an entry for those it had.
LEMMA RestrictTyped ==
  ASSUME NEW p \in Devices, NEW rs, rs \subseteq DOMAIN p
  PROVE  /\ Restrict(p, rs) \in Devices
         /\ DOMAIN Restrict(p, rs) = rs
         /\ \A r \in rs : Restrict(p, rs)[r] = p[r]
<1>1. DOMAIN p \in SUBSET Radars /\ p \in [DOMAIN p -> Entries]
  BY DevicesTyped
<1>2. Restrict(p, rs) \in [rs -> Entries]
  BY <1>1 DEF Restrict
<1> QED
  BY <1>1, <1>2, InDevices DEF Restrict

\* What is entered under the names of radars are settings, with the entries of
\* the radars that are known.
LEMMA EnteredTyped ==
  ASSUME NEW c \in Contents, known \subseteq DOMAIN c.dev
  PROVE  /\ Entered(c) \in Contents
         /\ Entered(c).server = c.server /\ Entered(c).notify = c.notify
         /\ DOMAIN Entered(c).dev = known
         /\ \A r \in known : Entered(c).dev[r] = c.dev[r]
<1>1. c.dev \in Devices
  BY DEF Contents
<1>2. /\ Restrict(c.dev, known) \in Devices
      /\ DOMAIN Restrict(c.dev, known) = known
      /\ \A r \in known : Restrict(c.dev, known)[r] = c.dev[r]
  BY <1>1, RestrictTyped
<1>3. Entered(c) = [c EXCEPT !.dev = Restrict(c.dev, known)]
  BY DEF Entered, Contents
<1> QED
  BY <1>2, <1>3, SetPart

\* fprintf gives settings or no JSON; the settings as they are if no text has
\* a '%'.
LEMMA PrintedTyped ==
  ASSUME NEW c \in Contents, known \subseteq DOMAIN c.dev
  PROVE  /\ Printed(c) \subseteq Contents \cup {Broken}
         /\ Plain(c) => Printed(c) = {Entered(c)}
<1>1. CASE Plain(c)
  BY <1>1, EnteredTyped DEF Printed
<1>2. CASE ~Plain(c)
  <2> DEFINE servers == [name : Garbled(c.server.name),
                         velocity : Garbled(c.server.velocity),
                         zero : {c.server.zero}]
             devs == {p \in [known -> Entries] :
                        \A r \in known : p[r] \in GarbledEntry(c.dev[r])}
  <2>1. /\ c.server.name \in Texts /\ c.server.velocity \in Texts
        /\ c.server.zero \in BOOLEAN /\ c.notify \in Texts /\ c.dev \in Devices
    BY DEF Contents, Servers
  <2>2. \A t \in Texts : Garbled(t) \subseteq Texts
    BY DEF Garbled
  <2>3. servers \subseteq Servers
    BY <2>1, <2>2 DEF Servers
  <2>4. devs \subseteq Devices
    <3>1. known \in SUBSET Radars
      BY <2>1, DevicesTyped
    <3> QED
      BY <3>1, InDevices
  <2>5. [server : servers, notify : Garbled(c.notify), dev : devs]
          \subseteq Contents
    <3> SUFFICES ASSUME NEW s \in servers, NEW n \in Garbled(c.notify),
                        NEW p \in devs
                 PROVE  [server |-> s, notify |-> n, dev |-> p] \in Contents
      OBVIOUS
    <3> QED
      BY <2>1, <2>2, <2>3, <2>4 DEF Contents
  <2>6. Printed(c) = {Broken} \cup
                     [server : servers, notify : Garbled(c.notify), dev : devs]
    BY <1>2 DEF Printed
  <2> QED
    BY <1>2, <2>5, <2>6
<1> QED
  BY <1>1, <1>2

\* fromJSON takes the server's settings of the file, and its entries of the
\* radars that are known.
LEMMA LoadedTyped ==
  ASSUME NEW j \in Contents, mem \in Contents, found \in SUBSET Radars,
         DOMAIN mem.dev = found
  PROVE  /\ Loaded(j) \in Contents
         /\ Loaded(j).server = j.server
         /\ DOMAIN Loaded(j).dev = found
         /\ \A r \in found \cap known \cap DOMAIN j.dev :
              Loaded(j).dev[r] = j.dev[r]
<1> DEFINE p == [r \in found |-> IF r \in known \cap DOMAIN j.dev
                                 THEN j.dev[r] ELSE mem.dev[r]]
<1>1. /\ j.dev \in Devices /\ j.dev \in [DOMAIN j.dev -> Entries]
      /\ mem.dev \in [found -> Entries]
  BY DevicesTyped DEF Contents
<1>2. p \in [found -> Entries]
  BY <1>1
<1>3. p \in Devices
  BY <1>2, InDevices
<1>4. Loaded(j) = [j EXCEPT !.dev = p]
  BY DEF Loaded
<1>5. Loaded(j) \in Contents /\ Loaded(j).server = j.server /\ Loaded(j).dev = p
  BY <1>3, <1>4, SetPart
<1> QED
  BY <1>5

\* Parsing the file gives contents, or fails.
LEMMA ReadingsTyped ==
  ASSUME file \in [{"front", "rest"} -> Contents \cup {Hole, Broken}]
  PROVE  Readings \subseteq Contents \cup {Broken}
<1> DEFINE front == file["front"]
           rest == file["rest"]
<1>1. /\ front \in Contents \cup {Hole, Broken}
      /\ rest \in Contents \cup {Hole, Broken}
  OBVIOUS
<1>2. CASE Hole \in {front, rest} \/ Broken \in {front, rest}
  BY <1>2 DEF Readings
<1>3. CASE front \in Contents /\ rest \in Contents
  <2>1. rest.dev \in Devices
    BY <1>3 DEF Contents
  <2>2. [front EXCEPT !.dev = rest.dev] \in Contents
    BY <1>3, <2>1, SetPart
  <2> QED
    BY <1>3, <2>2 DEF Readings
<1> QED
  BY <1>1, <1>2, <1>3

\* Reading the radars back changes nothing but what was read.
LEMMA ConfigureTyped ==
  ASSUME mem \in Contents, found \in SUBSET Radars, DOMAIN mem.dev = found,
         Configure
  PROVE  /\ mem' \in Contents /\ DOMAIN mem'.dev = found
         /\ mem'.server = mem.server
         /\ \A r \in found : mem'.dev[r].place = mem.dev[r].place
<1>1. PICK sensors \in [found -> Texts] :
        mem' = [mem EXCEPT !.dev =
                  [r \in found |-> [@[r] EXCEPT !.sensor = sensors[r]]]]
  BY DEF Configure
<1> DEFINE p == [r \in found |-> [mem.dev[r] EXCEPT !.sensor = sensors[r]]]
<1>2. mem.dev \in [found -> Entries]
  BY DevicesTyped DEF Contents
<1>3. p \in [found -> Entries] /\ \A r \in found : p[r].place = mem.dev[r].place
  BY <1>1, <1>2 DEF Entries
<1>4. p \in Devices
  BY <1>3, InDevices
<1>5. mem' = [mem EXCEPT !.dev = p]
  BY <1>1 DEF Contents
<1>6. mem' \in Contents /\ mem'.server = mem.server /\ mem'.dev = p
  BY <1>4, <1>5, SetPart
<1> QED
  BY <1>3, <1>6

-----------------------------------------------------------------------------
(* Who writes when: main while it makes the default file, the requests     *)
(* after it; no one finds the file gone that it has opened; and a snapshot *)
(* has an entry for every radar.                                           *)

Quiet ==
  /\ phase \in {"down", "load", "configure"} => Idle
  /\ pc[Main] # "idle" => phase = "default" /\ pc[Main] \in {"front", "rest"}
  /\ phase \in {"load", "default", "configure"} => fresh
  /\ fresh => \A h \in Handlers : pc[h] = "idle"
  /\ \A w \in Writers : pc[w] \in {"front", "rest"} => file # Missing
  /\ \A w \in Writers : pc[w] \in {"open", "front"} => DOMAIN snap[w].dev = found

\* At the start the program is down.
LEMMA TypeInit == Init => TypeOK /\ Quiet
<1> SUFFICES ASSUME Init PROVE TypeOK /\ Quiet
  OBVIOUS
<1>1. NoForm \in Forms
  BY StoreAssumption DEF StoreAssumption, NoForm
<1>2. 0 \in 0 .. MaxForms /\ 0 \in 0 .. MaxFaults
  BY StoreAssumption DEF StoreAssumption
<1>3. TypeOK
  BY <1>1, <1>2, NothingTyped DEF Init, TypeOK, Phases, Steps
<1>4. Quiet
  BY DEF Init, Quiet, Idle, Writers
<1> QED
  BY <1>3, <1>4

\* The steps that end the process.
Ends ==
  \/ LoadEmpty \/ ConfigureEnds \/ ClientThrows \/ NoThreads \/ Stop \/ Throws
  \/ \E w \in Writers : WriterEnds(w)
  \/ \E h \in Handlers : FormThrows(h)

\* They leave nobody writing, and the file as it was unless it was empty.
LEMMA EndsGone ==
  ASSUME TypeOK, Ends
  PROVE  /\ Gone
         /\ file' = file \/ (file = Blank /\ file' = Missing)
         /\ faults' \in 0 .. MaxFaults
<1>1. CASE GoneByItself
  BY <1>1 DEF GoneByItself, TypeOK
<1>2. CASE LoadEmpty
  BY <1>2 DEF LoadEmpty, TypeOK
<1>3. CASE Stop
  BY <1>3, StoreAssumption DEF Stop, TypeOK, StoreAssumption
<1> QED
  BY <1>1, <1>2, <1>3
     DEF Ends, ConfigureEnds, ClientThrows, NoThreads, Throws, WriterEnds,
         PrintEnds, DumpThrows, FormThrows

\* The process may end anywhere.
LEMMA GoneStep ==
  ASSUME TypeOK, Ends
  PROVE  TypeOK' /\ Quiet'
<1>1. /\ Gone /\ faults' \in 0 .. MaxFaults
      /\ file' \in [{"front", "rest"} -> Contents \cup {Hole, Broken}]
                     \cup {Missing}
  <2>1. Blank \in [{"front", "rest"} -> Contents \cup {Hole, Broken}]
    BY DEF Blank
  <2> QED
    BY <2>1, EndsGone DEF TypeOK
<1>2. NoForm \in Forms
  BY StoreAssumption DEF StoreAssumption, NoForm
<1>3. \A w \in Writers : pc'[w] = "idle"
  BY <1>1 DEF Gone
<1>4. TypeOK'
  BY <1>1, <1>2, <1>3, NothingTyped DEF Gone, TypeOK, Phases, Steps
<1>5. phase' = "down" /\ Main \in Writers /\ Handlers \subseteq Writers
  BY <1>1 DEF Gone, Writers
<1>6. Quiet'
  BY <1>3, <1>5 DEF Quiet, Idle
<1> QED
  BY <1>4, <1>6

\* What a step of a request leaves alone.
LEMMA HandleFrame ==
  ASSUME NEW h \in Handlers, Handle(h)
  PROVE  UNCHANGED <<phase, found, known, forms, faults, fresh, alone, matched>>
BY DEF Handle, SetServer, SetNotify, SetDev, GetServer, GetDev, Open,
       WriteFront, Saved, histVars, radarVars

\* A step of a request moves only that request on.
LEMMA HandleMoves ==
  ASSUME TypeOK, NEW h \in Handlers, Handle(h)
  PROVE  /\ pc[h] # "idle"
         /\ pc' \in [Writers -> Steps]
         /\ \A w \in Writers \ {h} : pc'[w] = pc[w] /\ snap'[w] = snap[w]
         /\ pc'[h] \in {"front", "rest"} => pc[h] = "front" \/ file' = Blank
         /\ \/ file' \in {file, Blank}
            \/ /\ pc[h] \in {"front", "rest"}
               /\ \E part \in {"front", "rest"} :
                    file' = [file EXCEPT ![part] = text'[h]]
                      \/ file' = [file EXCEPT ![part] = text[h]]
<1>1. h \in Writers
  BY DEF Writers
<1>2. CASE SetServer(h) \/ SetNotify(h) \/ SetDev(h) \/ GetServer(h) \/ GetDev(h)
  BY <1>1, <1>2 DEF SetServer, SetNotify, SetDev, GetServer, GetDev, Step,
                    TypeOK, Steps
<1>3. CASE Open(h)
  BY <1>1, <1>3 DEF Open, Step, TypeOK, Steps
<1>4. CASE WriteFront(h)
  <2>1. /\ pc[h] = "front" /\ pc' = [pc EXCEPT ![h] = "rest"]
        /\ snap' = [snap EXCEPT ![h] = Nothing]
    BY <1>4 DEF WriteFront, Step
  <2>2. PICK t : text' = [text EXCEPT ![h] = t]
                   /\ file' = [file EXCEPT !["front"] = t]
    BY <1>4 DEF WriteFront
  <2>3. text'[h] = t
    BY <1>1, <2>2 DEF TypeOK
  <2> QED
    BY <1>1, <2>1, <2>2, <2>3 DEF TypeOK, Steps
<1>5. CASE Saved(h)
  BY <1>1, <1>5 DEF Saved, Step, TypeOK, Steps
<1> QED
  BY <1>2, <1>3, <1>4, <1>5 DEF Handle

\* What a request does to the settings in memory.
LEMMA HandleMem ==
  ASSUME TypeOK, NEW h \in Handlers, Handle(h)
  PROVE  mem' \in Contents /\ DOMAIN mem'.dev = found
<1>1. /\ mem \in Contents /\ DOMAIN mem.dev = found
      /\ form[h] \in [server : Servers, notify : Texts,
                      dev : [Radars -> Entries], numbers : BOOLEAN]
  BY StoreAssumption DEF TypeOK, StoreAssumption
<1>2. CASE SetServer(h)
  BY <1>1, <1>2, SetPart DEF SetServer
<1>3. CASE SetNotify(h)
  BY <1>1, <1>3, SetPart DEF SetNotify
<1>4. CASE SetDev(h)
  <2>1. form[h].dev \in Devices /\ found \subseteq DOMAIN form[h].dev
    BY <1>1, InDevices DEF TypeOK
  <2>2. /\ Restrict(form[h].dev, found) \in Devices
        /\ DOMAIN Restrict(form[h].dev, found) = found
    BY <2>1, RestrictTyped
  <2> QED
    BY <1>1, <1>4, <2>2, SetPart DEF SetDev
<1>5. CASE GetServer(h) \/ GetDev(h) \/ Open(h) \/ WriteFront(h) \/ Saved(h)
  BY <1>1, <1>5 DEF GetServer, GetDev, Open, WriteFront, Saved
<1> QED
  BY <1>2, <1>3, <1>4, <1>5 DEF Handle

\* The snapshot of a request has the server's settings, and then the entries
\* of every radar.
LEMMA HandleSnap ==
  ASSUME TypeOK, Quiet, NEW h \in Handlers, Handle(h)
  PROVE  /\ snap' \in [Writers -> Contents]
         /\ pc'[h] \in {"open", "front"} => DOMAIN snap'[h].dev = found
         /\ GetServer(h) => /\ snap'[h].server = mem.server
                            /\ snap'[h].notify = mem.notify
         /\ GetDev(h) => /\ snap'[h].server = snap[h].server
                         /\ snap'[h].notify = snap[h].notify
                         /\ snap'[h].dev = mem.dev
<1>1. h \in Writers /\ snap[h] \in Contents /\ mem \in Contents
  BY DEF Writers, TypeOK
<1>2. mem.server \in Servers /\ mem.notify \in Texts /\ mem.dev \in Devices
  BY <1>1 DEF Contents
<1>3. CASE GetServer(h)
  <2> DEFINE c == [Nothing EXCEPT !.server = mem.server]
             d == [c EXCEPT !.notify = mem.notify]
  <2>1. c \in Contents /\ c.server = mem.server
    BY <1>2, NothingTyped, SetPart
  <2>2. d \in Contents /\ d.server = c.server /\ d.notify = mem.notify
    BY <1>2, <2>1, SetPart
  <2>3. snap' = [snap EXCEPT ![h] = d]
    BY <1>3 DEF GetServer
  <2>4. pc'[h] = "getDev" /\ pc[h] # "getDev"
    BY <1>1, <1>3 DEF GetServer, Step, TypeOK
  <2>5. ~GetDev(h)
    BY <2>4 DEF GetDev, Step
  <2> HIDE DEF d
  <2> QED
    BY <1>1, <2>1, <2>2, <2>3, <2>4, <2>5 DEF TypeOK
<1>4. CASE GetDev(h)
  <2> DEFINE d == [snap[h] EXCEPT !.dev = mem.dev]
  <2>1. /\ d \in Contents /\ d.server = snap[h].server
        /\ d.notify = snap[h].notify /\ d.dev = mem.dev
    BY <1>1, <1>2, SetPart
  <2>2. snap' = [snap EXCEPT ![h] = d]
    BY <1>1, <1>4 DEF GetDev, TypeOK
  <2>3. pc[h] # "getServer"
    BY <1>4 DEF GetDev, Step
  <2>4. ~GetServer(h)
    BY <2>3 DEF GetServer, Step
  <2> HIDE DEF d
  <2> QED
    BY <1>1, <2>1, <2>2, <2>4 DEF TypeOK
<1>5. CASE Open(h)
  <2>1. pc[h] = "open" /\ snap' = snap
    BY <1>5 DEF Open, Step
  <2> QED
    BY <1>1, <2>1 DEF Quiet, TypeOK, GetServer, GetDev, Step
<1>6. CASE WriteFront(h)
  <2>1. /\ pc[h] = "front" /\ pc'[h] = "rest"
        /\ snap' = [snap EXCEPT ![h] = Nothing]
    BY <1>1, <1>6 DEF WriteFront, Step, TypeOK
  <2> QED
    BY <1>1, <2>1, NothingTyped DEF TypeOK, GetServer, GetDev, Step
<1>7. CASE SetServer(h) \/ SetNotify(h) \/ SetDev(h) \/ Saved(h)
  <2>1. /\ pc'[h] \notin {"open", "front"} /\ snap' = snap
        /\ pc[h] \notin {"getServer", "getDev"}
    BY <1>1, <1>7 DEF SetServer, SetNotify, SetDev, Saved, Step, TypeOK
  <2> QED
    BY <2>1 DEF TypeOK, GetServer, GetDev, Step
<1> QED
  BY <1>3, <1>4, <1>5, <1>6, <1>7 DEF Handle

\* Printing gives settings or no JSON, also to what was in the file.
LEMMA FrontTyped ==
  ASSUME TypeOK, Quiet, NEW w \in Writers, WriteFront(w)
  PROVE  /\ text' \in [Writers -> Contents \cup {Broken}]
         /\ file \in [{"front", "rest"} -> Contents \cup {Hole, Broken}]
         /\ file' \in [{"front", "rest"} -> Contents \cup {Hole, Broken}]
         /\ file'["front"] = text'[w]
         /\ Plain(snap[w]) => text'[w] = Entered(snap[w])
<1>1. pc[w] = "front" /\ snap[w] \in Contents /\ known \subseteq DOMAIN snap[w].dev
  BY DEF WriteFront, Step, TypeOK, Quiet
<1>2. PICK t \in Printed(snap[w]) : /\ text' = [text EXCEPT ![w] = t]
                                    /\ file' = [file EXCEPT !["front"] = t]
  BY DEF WriteFront
<1>3. t \in Contents \cup {Broken} /\ (Plain(snap[w]) => t = Entered(snap[w]))
  BY <1>1, <1>2, PrintedTyped
<1>4. file \in [{"front", "rest"} -> Contents \cup {Hole, Broken}]
  BY <1>1 DEF Quiet, TypeOK
<1> QED
  BY <1>2, <1>3, <1>4 DEF TypeOK

\* What a request prints, and what becomes of the file.
LEMMA HandleFile ==
  ASSUME TypeOK, Quiet, NEW h \in Handlers, Handle(h)
  PROVE  /\ text' \in [Writers -> Contents \cup {Broken}]
         /\ file' \in [{"front", "rest"} -> Contents \cup {Hole, Broken}]
                        \cup {Missing}
         /\ file' = Missing => file = Missing /\ pc[h] \notin {"front", "rest"}
<1>1. /\ h \in Writers
      /\ Blank \in [{"front", "rest"} -> Contents \cup {Hole, Broken}]
      /\ Missing \notin [{"front", "rest"} -> Contents \cup {Hole, Broken}]
  BY StoreAssumption DEF Writers, Blank, StoreAssumption
<1>2. CASE WriteFront(h)
  BY <1>1, <1>2, FrontTyped
<1>3. CASE Saved(h)
  <2>1. pc[h] = "rest"
    BY <1>3 DEF Saved, Step
  <2>2. file \in [{"front", "rest"} -> Contents \cup {Hole, Broken}]
    BY <1>1, <2>1 DEF Quiet, TypeOK
  <2> QED
    BY <1>1, <1>3, <2>2 DEF Saved, TypeOK
<1>4. CASE Open(h)
  BY <1>1, <1>4 DEF Open, TypeOK
<1>5. CASE SetServer(h) \/ SetNotify(h) \/ SetDev(h) \/ GetServer(h) \/ GetDev(h)
  BY <1>1, <1>5 DEF SetServer, SetNotify, SetDev, GetServer, GetDev, Step, TypeOK
<1> QED
  BY <1>2, <1>3, <1>4, <1>5 DEF Handle

\* A request keeps the types and the order of the writers.
LEMMA HandleStep ==
  ASSUME TypeOK, Quiet, NEW h \in Handlers, Handle(h)
  PROVE  TypeOK' /\ Quiet'
<1>1. /\ UNCHANGED <<phase, found, known, forms, faults, fresh, alone, matched>>
      /\ pc[h] # "idle" /\ pc' \in [Writers -> Steps]
      /\ \A w \in Writers \ {h} : pc'[w] = pc[w] /\ snap'[w] = snap[w]
      /\ pc'[h] \in {"front", "rest"} => pc[h] = "front" \/ file' = Blank
  BY HandleFrame, HandleMoves
<1>2. h \in Writers /\ h # Main /\ Main \in Writers /\ Blank # Missing
  <2>1. Blank \in [{"front", "rest"} -> Contents \cup {Hole, Broken}]
    BY DEF Blank
  <2> QED
    BY <2>1, StoreAssumption DEF Writers, StoreAssumption
<1>3. ~fresh /\ phase \in {"serve", "up"}
  BY <1>1, <1>2 DEF Quiet, Idle, TypeOK, Phases
<1>4. /\ disk' \in Contents \cup {Unknown}
      /\ form' \in [Handlers -> Forms]
  <2>1. Entered(mem) \in Contents /\ NoForm \in Forms
    BY StoreAssumption, EnteredTyped DEF TypeOK, StoreAssumption, NoForm
  <2> QED
    BY <2>1 DEF Handle, SetServer, SetNotify, SetDev, GetServer, GetDev, Open,
            WriteFront, Saved, histVars, TypeOK
<1>5. TypeOK'
  BY <1>1, <1>3, <1>4, HandleMem, HandleSnap, HandleFile DEF TypeOK
<1>6. \A w \in Writers : pc'[w] \in {"front", "rest"} => file' # Missing
  BY <1>1, <1>2, HandleFile DEF Quiet
<1>7. pc'[Main] = "idle"
  BY <1>1, <1>2, <1>3 DEF Quiet
<1>8. \A w \in Writers : pc'[w] \in {"open", "front"} => DOMAIN snap'[w].dev = found'
  BY <1>1, HandleSnap DEF Quiet
<1>9. Quiet'
  BY <1>1, <1>3, <1>6, <1>7, <1>8 DEF Quiet
<1> QED
  BY <1>5, <1>9

\* The start and the load.
LEMMA LoadStep ==
  ASSUME TypeOK, Quiet, Boot \/ LoadNothing \/ LoadText
  PROVE  TypeOK' /\ Quiet'
<1>1. Main \in Writers /\ Handlers \subseteq Writers
  BY DEF Writers
<1>2. CASE Boot
  <2>1. PICK failed \in SUBSET found', sensors \in [found' -> Texts] :
          Read(found', failed, sensors) /\ mem' = AtStart(sensors)
    BY <1>2 DEF Boot
  <2>2. /\ known' \in SUBSET found' /\ faults' <= MaxFaults
        /\ faults' = faults \/ faults' = faults + 1
    BY <2>1 DEF Read
  <2>3. faults' \in 0 .. MaxFaults
    BY <2>2, StoreAssumption DEF TypeOK, StoreAssumption
  <2>4. /\ phase = "down" /\ phase' = "load" /\ found' \in SUBSET Radars
        /\ fresh' = TRUE /\ matched' = {}
        /\ UNCHANGED <<file, disk, pc, form, snap, text, forms, alone>>
    BY <1>2 DEF Boot, Move, MainAlone
  <2>5. mem' \in Contents /\ DOMAIN mem'.dev = found'
    BY <2>1, <2>4, StartTyped
  <2>6. TypeOK'
    BY <2>2, <2>3, <2>4, <2>5 DEF TypeOK, Phases
  <2>7. Quiet'
    BY <1>1, <2>4 DEF Quiet, Idle
  <2> QED
    BY <2>6, <2>7
<1>3. CASE LoadNothing \/ LoadText
  <2>1. /\ phase = "load" /\ phase' \in {"default", "configure"}
        /\ matched' = known
        /\ UNCHANGED <<found, known, file, faults, fresh, disk, pc, form, snap,
                      text, forms, alone>>
    BY <1>3 DEF LoadNothing, LoadText, Move, MainAlone, radarVars
  <2>2. mem' \in Contents /\ DOMAIN mem'.dev = found
    <3>1. CASE LoadNothing
      BY <3>1 DEF LoadNothing, TypeOK
    <3>2. CASE LoadText
      <4>1. PICK j \in Readings : mem' = IF j = Broken THEN mem ELSE Loaded(j)
        BY <3>2 DEF LoadText
      <4>2. j \in Contents \cup {Broken}
        BY <3>2, ReadingsTyped DEF LoadText, TypeOK
      <4> QED
        BY <4>1, <4>2, LoadedTyped DEF TypeOK
    <3> QED
      BY <1>3, <3>1, <3>2
  <2>3. TypeOK'
    BY <2>1, <2>2 DEF TypeOK, Phases
  <2>4. Quiet'
    BY <1>1, <2>1 DEF Quiet, Idle
  <2> QED
    BY <2>3, <2>4
<1> QED
  BY <1>2, <1>3

\* main makes the default file.
LEMMA DefaultStep ==
  ASSUME TypeOK, Quiet, CreateDefault \/ WriteFront(Main) \/ DefaultWritten
  PROVE  TypeOK' /\ Quiet'
<1>1. /\ Main \in Writers /\ Handlers \subseteq Writers /\ Main \notin Handlers
      /\ Writers \ {Main} = Handlers
      /\ Blank # Missing
      /\ Blank \in [{"front", "rest"} -> Contents \cup {Hole, Broken}]
      /\ Missing \notin [{"front", "rest"} -> Contents \cup {Hole, Broken}]
  BY StoreAssumption DEF Writers, Blank, StoreAssumption
<1>2. CASE CreateDefault
  <2>1. /\ phase = "default" /\ pc[Main] = "idle"
        /\ pc' = [pc EXCEPT ![Main] = "front"] /\ file' = Blank
        /\ mem' = [mem EXCEPT !.notify = DefaultNotify]
        /\ snap' = [snap EXCEPT ![Main] = mem']
        /\ UNCHANGED <<phase, found, known, form, text, forms, faults, fresh,
                      alone, matched, disk>>
    BY <1>2 DEF CreateDefault, Step, histVars, radarVars
  <2>2. mem' \in Contents /\ DOMAIN mem'.dev = found
    <3>1. DefaultNotify \in Texts
      BY StoreAssumption DEF StoreAssumption, Answers
    <3> QED
      BY <2>1, <3>1, SetPart DEF TypeOK
  <2>3. TypeOK'
    BY <1>1, <2>1, <2>2 DEF TypeOK, Steps
  <2>4. \A w \in Writers : pc'[w] \in {"open", "front"} => DOMAIN snap'[w].dev = found'
    BY <1>1, <2>1, <2>2 DEF Quiet, TypeOK
  <2>5. Quiet'
    BY <1>1, <2>1, <2>4 DEF Quiet, TypeOK
  <2> QED
    BY <2>3, <2>5
<1>3. CASE WriteFront(Main)
  <2>1. /\ pc[Main] = "front" /\ pc' = [pc EXCEPT ![Main] = "rest"]
        /\ snap' = [snap EXCEPT ![Main] = Nothing] /\ phase = "default"
        /\ UNCHANGED <<phase, found, known, mem, form, forms, faults, fresh,
                      alone, matched, disk>>
    BY <1>3 DEF WriteFront, Step, histVars, radarVars, Quiet
  <2>2. /\ text' \in [Writers -> Contents \cup {Broken}]
        /\ file' \in [{"front", "rest"} -> Contents \cup {Hole, Broken}]
    BY <1>1, <1>3, FrontTyped
  <2>3. TypeOK'
    BY <1>1, <2>1, <2>2, NothingTyped DEF TypeOK, Steps
  <2>4. Quiet'
    BY <1>1, <2>1, <2>2 DEF Quiet, TypeOK
  <2> QED
    BY <2>3, <2>4
<1>4. CASE DefaultWritten
  <2>1. /\ phase = "default" /\ phase' = "configure"
        /\ pc[Main] = "rest" /\ pc' = [pc EXCEPT ![Main] = "idle"]
        /\ file' = [file EXCEPT !["rest"] = text[Main]]
        /\ text' = [text EXCEPT ![Main] = Broken]
        /\ UNCHANGED <<found, known, mem, form, snap, forms, faults, fresh,
                      alone, matched>>
    BY <1>4 DEF DefaultWritten, Step, radarVars
  <2>2. /\ file' \in [{"front", "rest"} -> Contents \cup {Hole, Broken}]
        /\ text' \in [Writers -> Contents \cup {Broken}]
    BY <1>1, <2>1 DEF Quiet, TypeOK
  <2>3. disk' \in Contents \cup {Unknown}
    <3>1. CASE disk = Unknown \/ ~Plain(mem)
      BY <1>4, <3>1 DEF DefaultWritten
    <3>2. CASE disk # Unknown /\ Plain(mem)
      <4>1. disk \in Contents /\ disk.dev \in Devices
        BY <3>2 DEF TypeOK, Contents
      <4>2. Restrict(disk.dev, known \cap DOMAIN disk.dev) \in Devices
        BY <4>1, RestrictTyped
      <4>3. disk' = [disk EXCEPT
                       !.dev = Restrict(disk.dev, known \cap DOMAIN disk.dev)]
        BY <1>4, <3>2, <4>1 DEF DefaultWritten, Contents
      <4> QED
        BY <4>1, <4>2, <4>3, SetPart
    <3> QED
      BY <3>1, <3>2
  <2>4. TypeOK'
    BY <1>1, <2>1, <2>2, <2>3 DEF TypeOK, Phases, Steps
  <2>5. \A h \in Handlers : pc'[h] = "idle"
    BY <1>1, <2>1 DEF Quiet, TypeOK
  <2>6. pc'[Main] = "idle"
    BY <1>1, <2>1 DEF TypeOK
  <2>7. Quiet'
    BY <1>1, <2>1, <2>5, <2>6 DEF Quiet, Idle
  <2> QED
    BY <2>4, <2>7
<1> QED
  BY <1>2, <1>3, <1>4

\* Every step keeps the types, and the order of the writers.
LEMMA TypeStep == TypeOK /\ Quiet /\ [Next]_vars => TypeOK' /\ Quiet'
<1> SUFFICES ASSUME TypeOK, Quiet, [Next]_vars PROVE TypeOK' /\ Quiet'
  OBVIOUS
<1>1. /\ Main \in Writers /\ Handlers \subseteq Writers /\ Main \notin Handlers
  BY StoreAssumption DEF Writers, StoreAssumption
<1>2. CASE Configure
  <2>1. PICK failed \in SUBSET found, sensors \in [found -> Texts] :
          Read(found, failed, sensors)
    BY <1>2 DEF Configure
  <2>2. /\ known' \in SUBSET found /\ faults' <= MaxFaults
        /\ faults' = faults \/ faults' = faults + 1
    BY <2>1 DEF Read
  <2>3. faults' \in 0 .. MaxFaults
    BY <2>2, StoreAssumption DEF TypeOK, StoreAssumption
  <2>4. /\ phase = "configure" /\ phase' = "serve"
        /\ UNCHANGED <<found, file, fresh, matched, disk, pc, form, snap, text,
                      forms, alone>>
    BY <1>2 DEF Configure, Move, MainAlone
  <2>5. mem' \in Contents /\ DOMAIN mem'.dev = found
    BY <1>2, ConfigureTyped DEF TypeOK
  <2>6. TypeOK'
    BY <2>2, <2>3, <2>4, <2>5 DEF TypeOK, Phases
  <2>7. Quiet'
    BY <1>1, <2>4 DEF Quiet, Idle
  <2> QED
    BY <2>6, <2>7
<1>3. CASE StartClient
  <2>1. /\ phase = "serve" /\ phase' = "up"
        /\ UNCHANGED <<found, known, mem, file, faults, fresh, matched, disk, pc,
                      form, snap, text, forms, alone>>
    BY <1>3 DEF StartClient, Move, MainAlone, radarVars
  <2>2. TypeOK'
    BY <2>1 DEF TypeOK, Phases
  <2>3. Quiet'
    BY <1>1, <2>1 DEF Quiet
  <2> QED
    BY <2>2, <2>3
<1>4. ASSUME NEW h \in Handlers, Request(h) PROVE TypeOK' /\ Quiet'
  <2>1. /\ phase \in {"serve", "up"} /\ h \in Writers /\ h # Main
        /\ pc' = [pc EXCEPT ![h] = "setServer"] /\ fresh' = FALSE
        /\ UNCHANGED <<phase, found, known, mem, file, snap, text, faults, matched>>
    BY <1>1, <1>4 DEF Request, Serving, Step, radarVars
  <2>2. forms' \in 0 .. MaxForms
    BY <1>4, StoreAssumption DEF Request, TypeOK, StoreAssumption
  <2>3. form' \in [Handlers -> Forms] /\ alone' \in BOOLEAN /\ disk' = Unknown
    BY <1>4 DEF Request, TypeOK
  <2>4. TypeOK'
    BY <2>1, <2>2, <2>3 DEF TypeOK, Steps
  <2>5. Quiet'
    BY <1>1, <2>1 DEF Quiet, TypeOK
  <2> QED
    BY <2>4, <2>5
<1>5. CASE UNCHANGED vars
  BY <1>5 DEF vars, histVars, radarVars, TypeOK, Quiet, Idle
<1>6. CASE WriterEnds(Main) \/ \E h \in Handlers : WriterEnds(h) \/ FormThrows(h)
  BY <1>1, <1>6, GoneStep DEF Ends
<1> QED
  BY <1>2, <1>3, <1>4, <1>5, <1>6, GoneStep, LoadStep, DefaultStep, HandleStep
     DEF Next, MainStep, HandlerStep, Ends

\* Memory, snapshots and file hold settings, and memory those of the radars
\* that were found, through any stops, requests and half-written files.
THEOREM TypeCorrect == Spec => []TypeOK
BY TypeInit, TypeStep, PTL DEF Spec

-----------------------------------------------------------------------------
(* A request that had no other beside it.  Nobody else touches memory or   *)
(* file, so the snapshot is what memory has, and what it has written is    *)
(* that, printed; it is not known what the file holds until it has ended.  *)

Whole(j) == file # Missing /\ file["front"] = j /\ file["rest"] = j

\* Writer w has printed memory, and the front of the file is what it printed.
Wrote(w) ==
  file["front"] = text[w] /\ (Plain(mem) => text[w] = Entered(mem))

AloneInv ==
  /\ \A h \in Handlers : pc[h] # "idle" => disk = Unknown
  /\ alone =>
       /\ \A h, k \in Handlers : pc[h] # "idle" /\ pc[k] # "idle" => h = k
       /\ \A h \in Handlers :
            /\ pc[h] = "getDev" => /\ snap[h].server = mem.server
                                   /\ snap[h].notify = mem.notify
            /\ pc[h] \in {"open", "front"} => snap[h] = mem
            /\ pc[h] = "rest" => Wrote(h)

SavedInv == Serving /\ Idle /\ ~fresh /\ disk # Unknown => Whole(Entered(mem))

\* At the start nobody writes.
LEMMA AloneInit == Init => AloneInv /\ SavedInv
BY DEF Init, AloneInv, SavedInv, Serving, Writers

\* With no request under way there is nothing to keep.
LEMMA NoneUnderWay ==
  ASSUME \A h \in Handlers : pc'[h] = "idle"
  PROVE  AloneInv'
BY DEF AloneInv

\* The steps of main and those that end the process: no request is under way,
\* or the requests, their snapshots, the settings and the file stay.
LEMMA AloneMain ==
  ASSUME TypeOK, Quiet, AloneInv,
         \/ Boot \/ LoadNothing \/ LoadText \/ CreateDefault \/ WriteFront(Main)
         \/ DefaultWritten \/ Configure \/ StartClient \/ Ends \/ UNCHANGED vars
  PROVE  AloneInv'
<1>1. Handlers \subseteq Writers /\ Main \notin Handlers
  BY StoreAssumption DEF Writers, StoreAssumption
<1>2. CASE Ends
  <2>1. \A h \in Handlers : pc'[h] = "idle"
    BY <1>1, <1>2, EndsGone DEF Gone
  <2> QED
    BY <2>1, NoneUnderWay
<1>3. CASE StartClient \/ UNCHANGED vars
  <2>1. UNCHANGED <<pc, disk, alone, snap, text, mem, known, file>>
    BY <1>3 DEF StartClient, MainAlone, vars, histVars, radarVars
  <2> QED
    BY <2>1 DEF AloneInv, Wrote, Entered
<1>4. CASE Boot \/ LoadNothing \/ LoadText \/ Configure
  <2>1. phase \in {"down", "load", "configure"} /\ pc' = pc
    BY <1>4 DEF Boot, LoadNothing, LoadText, Configure, Move, MainAlone
  <2>2. \A h \in Handlers : pc'[h] = "idle"
    BY <1>1, <2>1 DEF Quiet, Idle
  <2> QED
    BY <2>2, NoneUnderWay
<1>5. CASE CreateDefault \/ WriteFront(Main) \/ DefaultWritten
  <2>1. phase = "default"
    BY <1>5 DEF CreateDefault, WriteFront, DefaultWritten, Step, Quiet
  <2>2. \A h \in Handlers : pc'[h] = pc[h]
    BY <1>1, <1>5
       DEF CreateDefault, WriteFront, DefaultWritten, Step, TypeOK
  <2>3. \A h \in Handlers : pc'[h] = "idle"
    BY <2>1, <2>2 DEF Quiet
  <2> QED
    BY <2>3, NoneUnderWay
<1> QED
  BY <1>2, <1>3, <1>4, <1>5

\* A new request is alone only if no other is under way.
LEMMA AloneRequest ==
  ASSUME TypeOK, AloneInv, NEW h \in Handlers, Request(h)
  PROVE  AloneInv'
<1>1. /\ h \in Writers /\ pc' = [pc EXCEPT ![h] = "setServer"]
      /\ alone' = (\A k \in Handlers : pc[k] = "idle")
      /\ disk' = Unknown
  BY DEF Request, Step, Writers
<1>2. pc'[h] = "setServer" /\ \A k \in Handlers \ {h} : pc'[k] = pc[k]
  BY <1>1 DEF TypeOK, Writers
<1>3. alone' => \A k \in Handlers \ {h} : pc'[k] = "idle"
  BY <1>1, <1>2
<1> QED
  BY <1>1, <1>2, <1>3 DEF AloneInv

\* What a request that is alone knows of memory, snapshot and file.
LEMMA AloneKnows ==
  ASSUME TypeOK, Quiet, AloneInv, alone, NEW h \in Handlers, Handle(h)
  PROVE  /\ pc'[h] = "getDev" => /\ snap'[h].server = mem'.server
                                 /\ snap'[h].notify = mem'.notify
         /\ pc'[h] \in {"open", "front"} => snap'[h] = mem'
         /\ pc'[h] = "rest" => Wrote(h)'
<1>1. h \in Writers /\ snap[h] \in Contents /\ mem \in Contents
  BY DEF Writers, TypeOK
<1>2. CASE SetServer(h) \/ SetNotify(h) \/ SetDev(h) \/ Saved(h)
  <2>1. pc'[h] \in {"setNotify", "setDev", "getServer", "idle"}
    BY <1>1, <1>2 DEF SetServer, SetNotify, SetDev, Saved, Step, TypeOK
  <2> QED
    BY <2>1
<1>3. CASE GetServer(h)
  <2>1. pc'[h] = "getDev" /\ mem' = mem
    BY <1>1, <1>3 DEF GetServer, Step, TypeOK
  <2> QED
    BY <1>3, <2>1, HandleSnap
<1>4. CASE GetDev(h)
  <2>1. /\ pc[h] = "getDev" /\ pc'[h] = "open" /\ mem' = mem
        /\ snap'[h] \in Contents
    BY <1>1, <1>4, HandleSnap DEF GetDev, Step, TypeOK
  <2>2. snap[h].server = mem.server /\ snap[h].notify = mem.notify
    BY <2>1 DEF AloneInv
  <2>3. snap'[h] = mem
    BY <1>1, <1>4, <2>1, <2>2, HandleSnap, SameContents
  <2> QED
    BY <2>1, <2>3
<1>5. CASE Open(h)
  <2>1. pc[h] = "open" /\ pc'[h] = "front" /\ mem' = mem /\ snap' = snap
    BY <1>1, <1>5 DEF Open, Step, TypeOK
  <2> QED
    BY <2>1 DEF AloneInv
<1>6. CASE WriteFront(h)
  <2>1. /\ pc[h] = "front" /\ pc'[h] = "rest" /\ mem' = mem /\ known' = known
        /\ snap[h] = mem
    BY <1>1, <1>6 DEF WriteFront, Step, TypeOK, AloneInv, radarVars
  <2>2. /\ file'["front"] = text'[h]
        /\ Plain(mem) => text'[h] = Entered(mem)
    BY <1>1, <1>6, <2>1, FrontTyped
  <2>3. Plain(mem)' = Plain(mem) /\ Entered(mem)' = Entered(mem)
    BY <2>1 DEF Plain, TextsOf, Entered
  <2> QED
    BY <2>1, <2>2, <2>3 DEF Wrote
<1> QED
  BY <1>2, <1>3, <1>4, <1>5, <1>6 DEF Handle

\* A request that has no other beside it knows memory and file.
LEMMA AloneHandle ==
  ASSUME TypeOK, Quiet, AloneInv, NEW h \in Handlers, Handle(h)
  PROVE  AloneInv'
<1>1. /\ pc[h] # "idle" /\ \A k \in Writers \ {h} : pc'[k] = pc[k]
      /\ alone' = alone /\ h \in Writers
  BY HandleMoves, HandleFrame DEF Writers
<1>2. disk = Unknown
  BY <1>1 DEF AloneInv
<1>3. alone => \A k \in Handlers \ {h} : pc[k] = "idle" /\ pc'[k] = "idle"
  BY <1>1 DEF AloneInv, Writers
<1>4. \A k \in Handlers : pc'[k] # "idle" => disk' = Unknown
  <2>1. CASE Saved(h)
    <3>1. pc'[h] = "idle" /\ (~alone => disk' = Unknown)
      BY <1>1, <2>1 DEF Saved, Step, TypeOK
    <3> QED
      BY <1>3, <3>1
  <2>2. CASE ~Saved(h)
    BY <1>2, <2>2 DEF Handle, SetServer, SetNotify, SetDev, GetServer, GetDev,
       Open, WriteFront, histVars
  <2> QED
    BY <2>1, <2>2
<1> QED
  BY <1>1, <1>3, <1>4, AloneKnows DEF AloneInv

\* What such a request has saved is whole, and is what memory has.
LEMMA SavedStep ==
  TypeOK /\ TypeOK' /\ Quiet /\ AloneInv /\ SavedInv /\ [Next]_vars => SavedInv'
<1> SUFFICES ASSUME TypeOK, TypeOK', Quiet, AloneInv, SavedInv, [Next]_vars
             PROVE  SavedInv'
  OBVIOUS
<1>1. CASE Ends
  BY <1>1, EndsGone DEF Gone, SavedInv, Serving
<1>2. CASE \/ Boot \/ LoadNothing \/ LoadText \/ CreateDefault
           \/ WriteFront(Main) \/ DefaultWritten \/ Configure
  <2>1. phase' # "load" => fresh' = fresh /\ phase \in {"load", "default", "configure"}
    BY <1>2 DEF Boot, LoadNothing, LoadText, CreateDefault, WriteFront,
                DefaultWritten, Configure, Step, Move, Quiet, histVars
  <2> QED
    BY <2>1 DEF SavedInv, Serving, Quiet
<1>3. CASE StartClient \/ UNCHANGED vars
  <2>1. /\ UNCHANGED <<pc, disk, fresh, mem, known, file>>
        /\ Serving' => Serving
    BY <1>3 DEF StartClient, Move, MainAlone, vars, histVars, radarVars, Serving
  <2> QED
    BY <2>1 DEF SavedInv, Idle, Whole, Entered
<1>4. ASSUME NEW h \in Handlers, Request(h) PROVE SavedInv'
  BY <1>4 DEF Request, SavedInv
<1>5. ASSUME NEW h \in Handlers, Handle(h) PROVE SavedInv'
  <2>1. pc[h] # "idle" /\ h \in Writers
    BY <1>5, HandleMoves DEF Writers
  <2>2. CASE Saved(h)
    <3>1. /\ pc[h] = "rest" /\ mem' = mem /\ known' = known
          /\ file' = [file EXCEPT !["rest"] = text[h]]
          /\ disk' # Unknown => alone /\ Plain(mem)
      BY <2>2 DEF Saved, Step, radarVars
    <3>2. ASSUME disk' # Unknown PROVE Whole(Entered(mem))'
      <4>1. /\ text[h] = Entered(mem) /\ file["front"] = text[h]
            /\ file # Missing
        BY <2>1, <3>1, <3>2 DEF AloneInv, Wrote, Quiet
      <4>2. file'["front"] = Entered(mem) /\ file'["rest"] = Entered(mem)
        BY <3>1, <4>1 DEF TypeOK
      <4>3. file' # Missing
        BY <1>5, <4>1, HandleFile
      <4>4. Entered(mem)' = Entered(mem)
        BY <3>1 DEF Entered
      <4> QED
        BY <4>2, <4>3, <4>4 DEF Whole
    <3> QED
      BY <3>2 DEF SavedInv
  <2>3. CASE ~Saved(h)
    <3>1. pc'[h] # "idle"
      BY <1>5, <2>1, <2>3 DEF Handle, SetServer, SetNotify, SetDev, GetServer,
         GetDev, Open, WriteFront, Step, TypeOK
    <3> QED
      BY <2>1, <3>1 DEF SavedInv, Idle
  <2> QED
    BY <2>2, <2>3
<1>6. CASE WriterEnds(Main) \/ \E h \in Handlers : WriterEnds(h) \/ FormThrows(h)
  BY <1>1, <1>6 DEF Ends, Writers
<1> QED
  BY <1>1, <1>2, <1>3, <1>4, <1>5, <1>6 DEF Next, MainStep, HandlerStep, Ends

\* Every step of the program keeps what a request alone knows.
LEMMA AloneStep == TypeOK /\ Quiet /\ AloneInv /\ [Next]_vars => AloneInv'
<1> SUFFICES ASSUME TypeOK, Quiet, AloneInv, [Next]_vars PROVE AloneInv'
  OBVIOUS
<1>1. CASE WriterEnds(Main) \/ \E h \in Handlers : WriterEnds(h) \/ FormThrows(h)
  BY <1>1, AloneMain DEF Ends, Writers
<1> QED
  BY <1>1, AloneMain, AloneRequest, AloneHandle DEF Next, MainStep, HandlerStep, Ends

\* A file that is whole is read as what was written.
LEMMA WholeReads ==
  ASSUME NEW j \in Contents, Whole(j)
  PROVE  Readings = {j}
BY NoMark DEF Whole, Readings

\* Once a request that had no other beside it has been answered, the file has
\* what the program works with, whatever the requests before it did, unless
\* there is a '%' in it.
THEOREM QuietRequestsAreSaved == Spec => []QuietSaved
<1>1. TypeOK /\ SavedInv => QuietSaved
  <2> SUFFICES ASSUME TypeOK, SavedInv, Serving, Idle, ~fresh, disk # Unknown
               PROVE  Readings = {Entered(mem)}
    BY DEF QuietSaved
  <2>1. Entered(mem) \in Contents
    BY EnteredTyped DEF TypeOK
  <2> QED
    BY <2>1, WholeReads DEF SavedInv
<1> QED
  BY <1>1, TypeInit, TypeStep, AloneInit, AloneStep, SavedStep, PTL DEF Spec

-----------------------------------------------------------------------------
(* What a request alone saved is in the file whenever nobody writes, and in *)
(* memory from the load to the first request.  While main makes the default *)
(* file it is only in memory and in main's snapshot, and a stop then leaves *)
(* it unknown what the file holds.                                          *)

OnDisk ==
  \E j \in Contents :
    /\ Whole(j)
    /\ j.server = disk.server
    /\ \A r \in DOMAIN disk.dev :
         r \in DOMAIN j.dev /\ j.dev[r].place = disk.dev[r].place

\* Memory has the server's settings that were saved, and the positions of the
\* radars that the load recognised.
Agrees ==
  /\ mem.server = disk.server
  /\ \A r \in matched \cap DOMAIN disk.dev :
       mem.dev[r].place = disk.dev[r].place

AfterLoad == {"default", "configure", "serve", "up"}

RestoreInv ==
  /\ disk # Unknown /\ Idle => OnDisk
  /\ disk # Unknown /\ phase \in AfterLoad /\ fresh => Agrees
  /\ phase = "default" => matched = known
  /\ pc[Main] = "front" => snap[Main] = mem
  /\ pc[Main] = "rest" => Wrote(Main)

\* At the start nothing was saved.
LEMMA RestoreInit == Init => RestoreInv
BY DEF Init, RestoreInv, Writers

\* The start after a stop, and the end of the program, which forgets what the
\* file holds when somebody was writing.
LEMMA RestoreEnds ==
  ASSUME TypeOK, Quiet, RestoreInv, Boot \/ Ends
  PROVE  RestoreInv'
<1>1. Main \in Writers /\ Blank["front"] = Hole
  BY DEF Writers, Blank
<1>2. CASE Boot
  <2>1. /\ UNCHANGED <<pc, disk, file>> /\ phase' = "load" /\ Idle
    BY <1>2 DEF Boot, Move, MainAlone, Quiet
  <2>2. pc'[Main] = "idle" /\ (Idle' <=> Idle)
    BY <1>1, <2>1 DEF Idle
  <2>3. OnDisk => OnDisk'
    BY <2>1 DEF OnDisk, Whole
  <2> QED
    BY <2>1, <2>2, <2>3 DEF RestoreInv, AfterLoad
<1>3. CASE Ends
  <2>1. Gone /\ (file' = file \/ file = Blank)
    BY <1>3, EndsGone
  <2>2. phase' = "down" /\ pc'[Main] = "idle"
    BY <1>1, <2>1 DEF Gone
  <2>3. disk' # Unknown => disk' = disk /\ Idle
    BY <2>1 DEF Gone, Idle
  <2>4. ASSUME disk' # Unknown PROVE OnDisk'
    <3>1. OnDisk /\ disk' = disk
      BY <2>3, <2>4 DEF RestoreInv
    <3>2. PICK j \in Contents :
            /\ Whole(j)
            /\ j.server = disk.server
            /\ \A r \in DOMAIN disk.dev :
                 r \in DOMAIN j.dev /\ j.dev[r].place = disk.dev[r].place
      BY <3>1 DEF OnDisk
    <3>3. file # Blank
      BY <1>1, <3>2, NoMark DEF Whole
    <3> QED
      BY <2>1, <3>1, <3>2, <3>3 DEF OnDisk, Whole
  <2> QED
    BY <2>2, <2>4 DEF RestoreInv, AfterLoad
<1> QED
  BY <1>2, <1>3

\* The load.
LEMMA RestoreLoad ==
  ASSUME TypeOK, Quiet, RestoreInv, LoadNothing \/ LoadText
  PROVE  RestoreInv'
<1>1. /\ UNCHANGED <<pc, disk, file, found, known, fresh>> /\ phase = "load"
      /\ Idle /\ matched' = known /\ phase' \in {"default", "configure"}
  BY DEF LoadNothing, LoadText, Move, MainAlone, Quiet, radarVars
<1>2. pc'[Main] = "idle" /\ (Idle' <=> Idle)
  BY <1>1 DEF Idle, Writers
<1>3. OnDisk => OnDisk'
  BY <1>1 DEF OnDisk, Whole
<1>4. ASSUME disk # Unknown PROVE Agrees'
  <2>1. PICK j \in Contents :
          /\ Whole(j)
          /\ j.server = disk.server
          /\ \A r \in DOMAIN disk.dev :
               r \in DOMAIN j.dev /\ j.dev[r].place = disk.dev[r].place
    BY <1>1, <1>4 DEF RestoreInv, OnDisk
  <2>2. LoadText /\ Readings = {j} /\ j # Broken
    BY <2>1, WholeReads, NoMark DEF LoadNothing, Whole
  <2>3. mem' = Loaded(j)
    BY <2>2 DEF LoadText
  <2>4. /\ Loaded(j).server = j.server
        /\ \A r \in found \cap known \cap DOMAIN j.dev :
             Loaded(j).dev[r] = j.dev[r]
    BY LoadedTyped DEF TypeOK
  <2>5. known \subseteq found
    BY DEF TypeOK
  <2> QED
    BY <1>1, <2>1, <2>3, <2>4, <2>5 DEF Agrees
<1> QED
  BY <1>1, <1>2, <1>3, <1>4 DEF RestoreInv

\* The radars are configured.
LEMMA RestoreConfigure ==
  ASSUME TypeOK, Quiet, RestoreInv, Configure
  PROVE  RestoreInv'
<1>1. /\ UNCHANGED <<pc, disk, file, found, fresh, matched>>
      /\ phase = "configure" /\ phase' = "serve" /\ Idle
  BY DEF Configure, Move, MainAlone, Quiet
<1>2. pc'[Main] = "idle" /\ (Idle' <=> Idle) /\ (OnDisk' <=> OnDisk)
  BY <1>1 DEF Idle, Writers, OnDisk, Whole
<1>3. Agrees => Agrees'
  <2>1. /\ mem'.server = mem.server
        /\ \A r \in found : mem'.dev[r].place = mem.dev[r].place
    BY ConfigureTyped DEF TypeOK
  <2>2. matched \subseteq found
    BY DEF TypeOK
  <2> QED
    BY <1>1, <2>1, <2>2 DEF Agrees
<1> QED
  BY <1>1, <1>2, <1>3 DEF RestoreInv, AfterLoad

\* main makes the default file.
LEMMA RestoreDefault ==
  ASSUME TypeOK, Quiet, RestoreInv,
         CreateDefault \/ WriteFront(Main) \/ DefaultWritten
  PROVE  RestoreInv'
<1>1. /\ Main \in Writers /\ phase = "default" /\ fresh /\ mem \in Contents
      /\ UNCHANGED <<found, known, matched, fresh>> /\ matched = known
  BY DEF CreateDefault, WriteFront, DefaultWritten, Step, Quiet, Writers,
         histVars, radarVars, TypeOK, RestoreInv
<1>2. CASE CreateDefault
  <2>1. /\ pc' = [pc EXCEPT ![Main] = "front"]
        /\ mem' = [mem EXCEPT !.notify = DefaultNotify]
        /\ snap' = [snap EXCEPT ![Main] = mem']
        /\ UNCHANGED <<phase, disk>>
    BY <1>2 DEF CreateDefault, Step, histVars
  <2>2. pc'[Main] = "front" /\ ~Idle' /\ snap'[Main] = mem'
    BY <1>1, <2>1 DEF Idle, TypeOK
  <2>3. mem'.server = mem.server /\ mem'.dev = mem.dev
    <3>1. DefaultNotify \in Texts
      BY StoreAssumption DEF StoreAssumption, Answers
    <3> QED
      BY <1>1, <2>1, <3>1, SetPart
  <2>4. disk # Unknown => Agrees'
    BY <1>1, <2>1, <2>3 DEF RestoreInv, Agrees, AfterLoad
  <2> QED
    BY <1>1, <2>1, <2>2, <2>4 DEF RestoreInv
<1>3. CASE WriteFront(Main)
  <2>1. /\ pc[Main] = "front" /\ pc' = [pc EXCEPT ![Main] = "rest"]
        /\ UNCHANGED <<phase, mem, disk>>
    BY <1>3 DEF WriteFront, Step, histVars
  <2>2. pc'[Main] = "rest" /\ ~Idle' /\ snap[Main] = mem
    BY <1>1, <2>1 DEF Idle, TypeOK, RestoreInv
  <2>3. Wrote(Main)'
    <3>1. /\ file'["front"] = text'[Main]
          /\ Plain(mem) => text'[Main] = Entered(mem)
      BY <1>1, <1>3, <2>2, FrontTyped
    <3>2. Plain(mem)' = Plain(mem) /\ Entered(mem)' = Entered(mem)
      BY <1>1, <2>1 DEF Plain, TextsOf, Entered
    <3> QED
      BY <2>1, <3>1, <3>2 DEF Wrote
  <2>4. Agrees' <=> Agrees
    BY <1>1, <2>1 DEF Agrees
  <2> QED
    BY <1>1, <2>1, <2>2, <2>3, <2>4 DEF RestoreInv
<1>4. CASE DefaultWritten
  <2>1. /\ pc[Main] = "rest" /\ pc' = [pc EXCEPT ![Main] = "idle"]
        /\ file' = [file EXCEPT !["rest"] = text[Main]]
        /\ disk' = IF disk = Unknown \/ ~Plain(mem) THEN Unknown
                   ELSE [disk EXCEPT !.dev = Restrict(@, known \cap DOMAIN @)]
        /\ phase' = "configure" /\ UNCHANGED mem
    BY <1>4 DEF DefaultWritten, Step
  <2>2. pc'[Main] = "idle" /\ Wrote(Main)
    BY <1>1, <2>1 DEF TypeOK, RestoreInv
  <2>3. ASSUME disk' # Unknown PROVE Agrees' /\ OnDisk'
    <3>1. disk # Unknown /\ disk \in Contents /\ Plain(mem)
      BY <2>1, <2>3 DEF TypeOK
    <3> DEFINE p == Restrict(disk.dev, known \cap DOMAIN disk.dev)
               j == Entered(mem)
    <3>2. disk.dev \in Devices
      BY <3>1 DEF Contents
    <3>3. /\ p \in Devices /\ DOMAIN p = known \cap DOMAIN disk.dev
          /\ \A r \in known \cap DOMAIN disk.dev : p[r] = disk.dev[r]
      BY <3>2, RestrictTyped
    <3>4. disk' = [disk EXCEPT !.dev = p]
      BY <2>1, <3>1 DEF Contents
    <3>5. disk'.server = disk.server /\ disk'.dev = p
      BY <3>1, <3>3, <3>4, SetPart
    <3>6. Agrees
      BY <1>1, <3>1 DEF RestoreInv, AfterLoad
    <3>7. Agrees'
      BY <1>1, <2>1, <3>3, <3>5, <3>6 DEF Agrees
    <3>8. /\ j \in Contents /\ j.server = mem.server /\ DOMAIN j.dev = known
          /\ \A r \in known : j.dev[r] = mem.dev[r]
      BY <1>1, EnteredTyped DEF TypeOK
    <3>9. file' # Missing /\ file'["front"] = j /\ file'["rest"] = j
      <4>1. file # Missing
        BY <1>1, <2>1 DEF Quiet
      <4>2. file'["front"] = j /\ file'["rest"] = j
        BY <2>1, <2>2, <3>1, <4>1 DEF TypeOK, Wrote
      <4>3. file' \in [{"front", "rest"} -> Contents \cup {Hole, Broken}]
        BY <2>1, <2>2, <3>1, <3>8, <4>1 DEF TypeOK, Wrote
      <4> QED
        BY <4>2, <4>3, StoreAssumption DEF StoreAssumption
    <3>10. OnDisk'
      <4>1. j.server = disk'.server
        BY <3>5, <3>6, <3>8 DEF Agrees
      <4>2. \A r \in DOMAIN disk'.dev :
              r \in DOMAIN j.dev /\ j.dev[r].place = disk'.dev[r].place
        BY <1>1, <3>3, <3>5, <3>6, <3>8 DEF Agrees
      <4> HIDE DEF j
      <4>3. PICK c \in Contents : c = j
        BY <3>8
      <4> QED
        BY <3>9, <4>1, <4>2, <4>3 DEF OnDisk, Whole
    <3> QED
      BY <3>7, <3>10
  <2> QED
    BY <1>1, <2>1, <2>2, <2>3 DEF RestoreInv
<1> QED
  BY <1>2, <1>3, <1>4

\* A request forgets what was saved, and one that was alone saves anew.
LEMMA RestoreHandle ==
  ASSUME TypeOK, TypeOK', Quiet, Quiet', AloneInv, SavedInv', RestoreInv,
         NEW h \in Handlers, Request(h) \/ Handle(h)
  PROVE  RestoreInv'
<1>1. /\ pc'[Main] = "idle" /\ ~fresh' /\ phase' \in {"serve", "up"}
  <2>1. Main \in Writers /\ Main # h /\ h \in Writers
    BY StoreAssumption DEF Writers, StoreAssumption
  <2>2. CASE Request(h)
    BY <2>1, <2>2 DEF Request, Serving, Step, Quiet, TypeOK
  <2>3. CASE Handle(h)
    <3>1. pc[h] # "idle" /\ pc'[Main] = pc[Main] /\ phase' = phase /\ fresh' = fresh
      BY <2>1, <2>3, HandleMoves, HandleFrame
    <3> QED
      BY <2>1, <3>1 DEF Quiet, Idle, TypeOK, Phases
  <2> QED
    BY <2>2, <2>3
<1>2. ASSUME disk' # Unknown, Idle' PROVE OnDisk'
  <2> DEFINE j == Entered(mem)
  <2>1. Whole(Entered(mem))'
    BY <1>1, <1>2 DEF SavedInv, Serving
  <2>2. Saved(h)
    <3>1. ~Request(h)
      BY <1>2 DEF Request
    <3>2. pc[h] # "idle" /\ h \in Writers
      BY <3>1, HandleMoves DEF Writers
    <3> QED
      BY <1>2, <3>1, <3>2 DEF Handle, SetServer, SetNotify, SetDev,
         GetServer, GetDev, Open, WriteFront, Step, TypeOK, Idle
  <2>3. mem' = mem /\ known' = known /\ disk' = Entered(mem)
    BY <1>2, <2>2 DEF Saved, radarVars
  <2>4. Entered(mem)' = j /\ j \in Contents
    BY <2>3, EnteredTyped DEF Entered, TypeOK
  <2>5. file' # Missing /\ file'["front"] = j /\ file'["rest"] = j
    BY <2>1, <2>4 DEF Whole
  <2>6. disk' = j
    BY <2>3
  <2> HIDE DEF j
  <2>7. PICK c \in Contents : c = j
    BY <2>4
  <2> QED
    BY <2>5, <2>6, <2>7 DEF OnDisk, Whole
<1> QED
  BY <1>1, <1>2 DEF RestoreInv

\* Every step keeps what was saved.
LEMMA RestoreStep ==
  TypeOK /\ TypeOK' /\ Quiet /\ Quiet' /\ AloneInv /\ SavedInv'
    /\ RestoreInv /\ [Next]_vars => RestoreInv'
<1> SUFFICES ASSUME TypeOK, TypeOK', Quiet, Quiet', AloneInv, SavedInv',
                    RestoreInv, [Next]_vars
             PROVE  RestoreInv'
  OBVIOUS
<1>1. CASE StartClient \/ UNCHANGED vars
  <2>1. /\ UNCHANGED <<pc, disk, fresh, mem, snap, text, file, known, matched>>
        /\ \/ phase' = phase
           \/ phase = "serve" /\ phase' = "up"
    BY <1>1 DEF StartClient, Move, MainAlone, vars, histVars, radarVars
  <2>2. /\ (Idle' <=> Idle) /\ (OnDisk' <=> OnDisk) /\ (Agrees' <=> Agrees)
        /\ (Wrote(Main)' <=> Wrote(Main))
    BY <2>1 DEF Idle, OnDisk, Whole, Agrees, Wrote, Plain, TextsOf, Entered
  <2> QED
    BY <2>1, <2>2 DEF RestoreInv, AfterLoad
<1>2. CASE WriterEnds(Main) \/ \E h \in Handlers : WriterEnds(h) \/ FormThrows(h)
  BY <1>2, RestoreEnds DEF Ends, Writers
<1> QED
  BY <1>1, <1>2, RestoreEnds, RestoreLoad, RestoreConfigure, RestoreDefault,
     RestoreHandle DEF Next, MainStep, HandlerStep, Ends

\* What a request alone saved the program works with after any number of stops
\* and starts, with the file read, written anew or not, unless there is a '%'
\* in it.
THEOREM RestartsRestore == Spec => []RestartRestores
<1>1. TypeOK /\ RestoreInv => RestartRestores
  BY DEF TypeOK, RestoreInv, Agrees, RestartRestores, Serving, AfterLoad
<1> QED
  BY <1>1, TypeInit, TypeStep, AloneInit, AloneStep, SavedStep, RestoreInit,
     RestoreStep, PTL DEF Spec
=============================================================================
