---------------------------- MODULE StartupProofs ----------------------------
(***************************************************************************)
(* Proofs about Startup, for every number of radars, every wiring, all     *)
(* margins, and any number of failing calls and restarts.                  *)
(***************************************************************************)
EXTENDS Startup, FiniteSetTheorems, TLAPS

\* A text that stoi converts gives a margin.
LEMMA ConvertedTyped ==
  ASSUME NEW text \in Margins \cup {Junk}
  PROVE  Converted(text) \ {Throws} \subseteq Margins
BY DEF Converted

\* main's loops stay within the radars.
LEMMA OnwardTyped ==
  ASSUME TypeOK, NEW step \in Steps, NEW after \in Steps, Onward(step, after)
  PROVE  i' \in Radars /\ pc' \in Steps
BY StartupAssumption DEF TypeOK, Onward, Radars, StartupAssumption

\* A failing call counts, and the radar it was for is no longer sound.
LEMMA FailTyped ==
  ASSUME TypeOK, NEW r, NEW n \in {0, 1}, Fail(r, n)
  PROVE  /\ faults' \in 0 .. MaxFaults
         /\ sound' \subseteq sound
         /\ n = 0 => sound' = sound
         /\ n = 1 => sound' = sound \ {r}
BY StartupAssumption DEF TypeOK, Fail, StartupAssumption

-----------------------------------------------------------------------------
(* The types. *)

\* The initial state has the declared types.
LEMMA TypeInit == Init => TypeOK
<1> SUFFICES ASSUME Init PROVE TypeOK
  OBVIOUS
<1>1. 1 \in Radars /\ 0 \in 0 .. MaxFaults /\ 0 \in 0 .. MaxCrashes
  BY StartupAssumption DEF Radars, StartupAssumption
<1>2. /\ ram \in [Radars -> [near : Margins, main : Margins]]
      /\ cfg \in [Radars -> Texts]
      /\ file \in [Radars -> Texts \cup {NotInFile}]
  BY DEF Init, AsMade, Unread, AsSaved, Margins, Texts
<1> QED
  BY <1>1, <1>2 DEF Init, TypeOK, Steps, Retries

\* Reading a radar's configuration leaves its texts or junk.
LEMMA ReadTyped ==
  ASSUME TypeOK, NEW failed \in SUBSET {"near", "main", "serial"},
         ReadConfig(failed)
  PROVE  /\ cfg' \in [Radars -> Texts]
         /\ known' \in SUBSET Radars
         /\ faults' \in 0 .. MaxFaults
         /\ sound' \subseteq sound
         /\ \A r \in Radars \ {i} :
              /\ cfg'[r] = cfg[r]
              /\ r \in known' <=> r \in known
              /\ r \in sound' <=> r \in sound
         /\ i \in sound' => /\ cfg'[i].main = ram[i].main
                            /\ i \in known'
<1> DEFINE n == IF failed = {} THEN 0 ELSE 1
           near == IF "near" \in failed THEN Junk ELSE ram[i].near
           main == IF "main" \in failed THEN near ELSE ram[i].main
<1>1. /\ n \in {0, 1} /\ Fail(i, n)
      /\ cfg' = [cfg EXCEPT ![i] = [near |-> near, main |-> main]]
      /\ known' = IF "serial" \in failed THEN known \ {i} ELSE known \cup {i}
  BY DEF ReadConfig
<1>2. near \in Margins \cup {Junk} /\ main \in Margins \cup {Junk}
  BY DEF TypeOK
<1>3. [near |-> near, main |-> main] \in Texts
  BY <1>2 DEF Texts
<1>4. cfg' \in [Radars -> Texts] /\ known' \in SUBSET Radars
  BY <1>1, <1>3 DEF TypeOK
<1>5. /\ faults' \in 0 .. MaxFaults /\ sound' \subseteq sound
      /\ n = 0 => sound' = sound
      /\ n = 1 => sound' = sound \ {i}
  BY <1>1, FailTyped
<1>6. i \in sound' => failed = {}
  BY <1>5
<1>7. i \in sound' => cfg'[i].main = ram[i].main /\ i \in known'
  BY <1>1, <1>6 DEF TypeOK
<1>8. \A r \in Radars \ {i} : /\ cfg'[r] = cfg[r]
                              /\ r \in known' <=> r \in known
  BY <1>1 DEF TypeOK
<1>9. \A r \in Radars \ {i} : r \in sound' <=> r \in sound
  BY <1>5
<1> QED
  BY <1>4, <1>5, <1>7, <1>8, <1>9

\* The next interface, or the next try.
LEMMA NextPortTyped ==
  ASSUME TypeOK, pc = "scan", NextPort \/ NextTry
  PROVE  j' \in Radars /\ try' \in 1 .. Retries /\ pc' \in Steps
BY StartupAssumption
   DEF TypeOK, NextPort, NextTry, Radars, Retries, Steps, StartupAssumption

\* No step of main, and no restart, leaves the types.
LEMMA TypeStep == TypeOK /\ [Next]_vars => TypeOK'
<1> SUFFICES ASSUME TypeOK, [Next]_vars PROVE TypeOK'
  OBVIOUS
<1>1. ASSUME NEW n \in Margins
      PROVE  /\ [ram EXCEPT ![i].near = n] \in
                  [Radars -> [near : Margins, main : Margins]]
             /\ [ram EXCEPT ![i].main = n] \in
                  [Radars -> [near : Margins, main : Margins]]
  BY <1>1 DEF TypeOK
<1>2. ASSUME NEW n \in Margins, NEW m \in Margins
      PROVE  [ram EXCEPT ![i] = [near |-> n, main |-> m]] \in
               [Radars -> [near : Margins, main : Margins]]
  BY <1>2 DEF TypeOK
<1>3. /\ Converted(cfg[i].near) \ {Throws} \subseteq Margins
      /\ Converted(cfg[i].main) \ {Throws} \subseteq Margins
  BY ConvertedTyped DEF TypeOK, Texts
<1>4. 1 \in Radars /\ 0 \in Nat /\ 1 \in 1 .. Retries
  BY StartupAssumption DEF Radars, StartupAssumption, Retries
<1>5. CASE Identify
  <2>1. i' \in Radars /\ pc' \in Steps
    BY <1>5, OnwardTyped DEF Identify, Steps
  <2> QED
    BY <1>5, <2>1, ReadTyped
       DEF Identify, TypeOK, sensorVars, searchVars, envVars, crashVars
<1>6. CASE Load
  <2>1. cfg' \in [Radars -> Texts]
    BY <1>6 DEF Load, TypeOK
  <2>2. file' \in [Radars -> Texts \cup {NotInFile}]
    BY <1>6, <2>1 DEF Load, TypeOK
  <2> QED
    BY <1>6, <2>1, <2>2
       DEF Load, TypeOK, Steps, sensorVars, searchVars, envVars, countVars,
           crashVars
<1>7. CASE Configure \/ ConfigureFails \/ ConfigureThrows
  <2>1. ram' \in [Radars -> [near : Margins, main : Margins]]
    <3>1. CASE Configure
      BY <1>2, <1>3, <3>1 DEF Configure
    <3>2. CASE ConfigureFails
      <4> SUFFICES ASSUME NEW n \in Converted(cfg[i].near) \ {Throws},
                          \/ ram' = [ram EXCEPT ![i].near = n]
                          \/ \E m \in Converted(cfg[i].main) \ {Throws} :
                               ram' = [ram EXCEPT ![i] = [near |-> n, main |-> m]]
                   PROVE  ram' \in [Radars -> [near : Margins, main : Margins]]
        BY <3>2 DEF ConfigureFails, TypeOK
      <4>1. n \in Margins
        BY <1>3
      <4>2. CASE ram' = [ram EXCEPT ![i].near = n]
        BY <1>1, <4>1, <4>2
      <4>3. CASE \E m \in Converted(cfg[i].main) \ {Throws} :
                   ram' = [ram EXCEPT ![i] = [near |-> n, main |-> m]]
        BY <1>2, <1>3, <4>1, <4>3
      <4> QED
        BY <4>2, <4>3
    <3>3. CASE ConfigureThrows
      <4>1. \/ UNCHANGED ram
            \/ \E n \in Margins : ram' = [ram EXCEPT ![i].near = n]
        BY <1>3, <3>3 DEF ConfigureThrows
      <4> QED
        BY <1>1, <4>1 DEF TypeOK
    <3> QED
      BY <1>7, <3>1, <3>2, <3>3
  <2>2. pc' \in Steps /\ faults' \in 0 .. MaxFaults /\ sound' \subseteq sound
    BY <1>7, FailTyped DEF Configure, ConfigureFails, ConfigureThrows, Steps
  <2> QED
    BY <1>7, <2>1, <2>2
       DEF Configure, ConfigureFails, ConfigureThrows, ConfigureUnchanged,
           TypeOK, searchVars, envVars, crashVars
<1>8. CASE ReadBack
  BY <1>8, ReadTyped DEF ReadBack, TypeOK, Steps, sensorVars, searchVars,
                         envVars, crashVars
<1>9. CASE Sensitize
  <2>1. i' \in Radars /\ pc' \in Steps
    BY <1>9, OnwardTyped DEF Sensitize, Steps
  <2>2. Disc \in Margins
    BY DEF Margins
  <2>3. /\ ram' \in [Radars -> [near : Margins, main : Margins]]
        /\ faults' \in 0 .. MaxFaults /\ sound' \subseteq sound
    BY <1>1, <1>9, <2>2, FailTyped DEF Sensitize, May, TypeOK
  <2> QED
    BY <1>9, <2>1, <2>3 DEF Sensitize, TypeOK, searchVars, envVars, crashVars
<1>10. CASE OpenPorts
  <2>1. PICK ports \in SUBSET Radars :
          /\ opened' = ports
          /\ faults' = faults + Cardinality(Radars \ ports)
          /\ faults' <= MaxFaults
          /\ sound' \subseteq sound
    BY <1>10 DEF OpenPorts
  <2>2. Cardinality(Radars \ ports) \in Nat
    <3>1. IsFiniteSet(Radars)
      BY StartupAssumption, FS_Interval DEF Radars, StartupAssumption
    <3> QED
      BY <3>1, FS_Subset, FS_CardinalityType
  <2>3. faults' \in 0 .. MaxFaults
    BY <2>1, <2>2, StartupAssumption DEF TypeOK, StartupAssumption
  <2> QED
    BY <1>10, <2>1, <2>3
       DEF OpenPorts, TypeOK, Steps, sensorVars, envVars, crashVars
<1>11. CASE StopRadar
  <2>1. /\ acq' \in SUBSET Radars
        /\ faults' \in 0 .. MaxFaults /\ sound' \subseteq sound
    BY <1>11, FailTyped DEF StopRadar, May, TypeOK
  <2>2. rx' \in SUBSET Radars
    BY <1>11 DEF StopRadar, TypeOK
  <2> QED
    BY <1>4, <1>11, <2>1, <2>2
       DEF StopRadar, TypeOK, Steps, envVars, crashVars
<1>12. CASE Silent
  <2>1. faults' \in 0 .. MaxFaults /\ sound' \subseteq sound
    BY <1>12, FailTyped DEF Silent
  <2>2. spi' \in [Radars -> Radars \cup {None}] /\ rx' \in SUBSET Radars
    BY <1>12 DEF Silent, TypeOK
  <2> QED
    BY <1>12, <2>1, <2>2
       DEF Silent, ScanUnchanged, TypeOK, Steps, sensorVars, envVars, crashVars
<1>13. CASE ReadData \/ ReadFails
  <2>1. faults' \in 0 .. MaxFaults /\ sound' \subseteq sound
    BY <1>13, FailTyped DEF ReadData, ReadFails
  <2>2. j' \in Radars /\ try' \in 1 .. Retries /\ pc' \in Steps
    BY <1>13, NextPortTyped DEF ReadData, ReadFails
  <2>3. rx' \subseteq rx /\ spi' = spi
    BY <1>13 DEF ReadData, ReadFails
  <2> QED
    BY <1>13, <2>1, <2>2, <2>3
       DEF ReadData, ReadFails, ScanUnchanged, TypeOK, sensorVars, envVars,
           crashVars
<1>14. CASE StartRadar
  <2>1. i' \in Radars /\ pc' \in Steps
    BY <1>14, OnwardTyped DEF StartRadar, Steps
  <2>2. /\ acq' \in SUBSET Radars
        /\ faults' \in 0 .. MaxFaults /\ sound' \subseteq sound
    BY <1>14, FailTyped DEF StartRadar, May, TypeOK
  <2> QED
    BY <1>14, <2>1, <2>2 DEF StartRadar, TypeOK, searchVars, envVars, crashVars
<1>15. CASE Restore
  <2>1. i' \in Radars /\ pc' \in Steps
    BY <1>15, OnwardTyped DEF Restore, Steps
  <2>2. PICK m \in Converted(cfg[i].main) \ {Throws} :
          May(i, ram' = [ram EXCEPT ![i].main = m], UNCHANGED ram)
    BY <1>15 DEF Restore
  <2>3. faults' \in 0 .. MaxFaults /\ sound' \subseteq sound
    <3>1. Fail(i, 0) \/ Fail(i, 1)
      BY <2>2 DEF May
    <3> QED
      BY <3>1, FailTyped
  <2>4. ram' \in [Radars -> [near : Margins, main : Margins]]
    <3>1. ram' = ram \/ ram' = [ram EXCEPT ![i].main = m]
      BY <2>2 DEF May
    <3>2. m \in Margins
      BY <1>3
    <3>3. CASE ram' = ram
      BY <3>3 DEF TypeOK
    <3>4. CASE ram' = [ram EXCEPT ![i].main = m]
      BY <1>1, <3>2, <3>4
    <3> QED
      BY <3>1, <3>3, <3>4
  <2> QED
    BY <1>15, <2>1, <2>3, <2>4 DEF Restore, TypeOK, searchVars, envVars, crashVars
<1>16. CASE RestoreThrows \/ UNCHANGED vars
  BY <1>16 DEF RestoreThrows, TypeOK, Steps, vars, sensorVars, searchVars,
               envVars, countVars, crashVars
<1>17. CASE Crash
  <2>1. cfg' \in [Radars -> Texts] /\ spi' \in [Radars -> Radars \cup {None}]
    BY <1>17 DEF Crash, Unread, Texts
  <2>2. crashes' \in 0 .. MaxCrashes /\ exposed' \in SUBSET Radars
    BY <1>17, StartupAssumption DEF Crash, TypeOK, StartupAssumption
  <2> QED
    BY <1>4, <1>17, <2>1, <2>2
       DEF Crash, TypeOK, Steps, sensorVars, envVars
<1> QED
  BY <1>5, <1>6, <1>7, <1>8, <1>9, <1>10, <1>11, <1>12, <1>13, <1>14, <1>15,
     <1>16, <1>17 DEF Next

\* Every variable keeps its type, and main stays within the radars and the
\* interfaces there are, whatever fails and however often it is started again.
THEOREM TypeCorrect == Spec => []TypeOK
BY TypeInit, TypeStep, PTL DEF Spec

-----------------------------------------------------------------------------
(* A sound radar measures, except while it is the one that is stopped for  *)
(* the search, and its interface is open: it is not silent when another    *)
(* radar's interface is sought.                                            *)

Wired == \A r, s \in Radars : wire[r] = wire[s] => r = s

Measuring ==
  /\ \A s \in sound : s \in acq \/ (s = i /\ pc \in {"scan", "start"})
  /\ pc \in {"stop", "scan", "start", "restore", "done"} =>
       \A s \in sound : wire[s] \in opened

\* At the start each radar has an interface of its own, and a sound radar is
\* one that measures.
LEMMA MeasuringInit == Init => Wired /\ Measuring
BY DEF Init, Wired, Measuring

\* A step that stops no radar and opens or closes no interface.
LEMMA MeasuringKept ==
  ASSUME Measuring, acq' = acq, sound' \subseteq sound, opened' = opened,
         wire' = wire,
         \/ pc \in {"scan", "start"} /\ pc' \in {"scan", "start"} /\ i' = i
         \/ pc \notin {"scan", "start"} /\ pc' \notin {"scan", "start"},
         pc' \in {"stop", "scan", "start", "restore", "done"} =>
           pc \in {"stop", "scan", "start", "restore", "done"}
  PROVE  Measuring'
BY DEF Measuring

\* The wiring stays, and sound radars keep measuring.
LEMMA MeasuringStep ==
  TypeOK /\ Wired /\ Measuring /\ [Next]_vars => Wired' /\ Measuring'
<1> SUFFICES ASSUME TypeOK, Wired, Measuring, [Next]_vars
             PROVE  wire' = wire /\ Measuring'
  BY DEF Wired
<1>1. CASE Identify \/ ReadBack
  <2>1. /\ UNCHANGED <<acq, opened, wire>>
        /\ pc \in {"identify", "readback"}
        /\ pc' \in {"identify", "load", "sensitize"}
    BY <1>1 DEF Identify, ReadBack, Onward, sensorVars, searchVars, envVars
  <2>2. sound' \subseteq sound
    BY <1>1, ReadTyped DEF Identify, ReadBack
  <2> QED
    BY <2>1, <2>2, MeasuringKept
<1>2. CASE Load \/ RestoreThrows \/ UNCHANGED vars
  <2>1. /\ UNCHANGED <<acq, opened, wire, sound, i>>
        /\ \/ pc = "load" /\ pc' = "configure"
           \/ pc = "restore" /\ pc' = "down"
           \/ pc' = pc
    BY <1>2 DEF Load, RestoreThrows, vars, sensorVars, searchVars, envVars,
                countVars
  <2> QED
    BY <2>1 DEF Measuring
<1>3. CASE Configure \/ ConfigureFails \/ ConfigureThrows \/ Sensitize
  <2>1. /\ UNCHANGED <<acq, opened, wire>>
        /\ pc \in {"configure", "sensitize"}
        /\ pc' \in {"readback", "sensitize", "down", "configure", "open"}
    BY <1>3 DEF Configure, ConfigureFails, ConfigureThrows, Sensitize, Onward,
                ConfigureUnchanged, searchVars, envVars
  <2>2. sound' \subseteq sound
    BY <1>3, FailTyped
       DEF Configure, ConfigureFails, ConfigureThrows, Sensitize, May
  <2> QED
    BY <2>1, <2>2, MeasuringKept
<1>4. CASE OpenPorts
  <2>1. PICK ports \in SUBSET Radars :
          /\ opened' = ports
          /\ sound' = {r \in sound : wire[r] \notin Radars \ ports}
    BY <1>4 DEF OpenPorts
  <2>2. UNCHANGED <<acq, wire>> /\ pc = "open" /\ pc' = "stop"
    BY <1>4 DEF OpenPorts, sensorVars, envVars
  <2>3. \A s \in sound : wire[s] \in Radars
    BY DEF TypeOK
  <2> QED
    BY <2>1, <2>2, <2>3 DEF Measuring
<1>5. CASE StopRadar
  <2>1. /\ UNCHANGED <<opened, wire, i>> /\ pc = "stop" /\ pc' = "scan"
        /\ acq' = acq \ {i} \/ acq' = acq
    BY <1>5 DEF StopRadar, envVars, May
  <2>2. sound' \subseteq sound
    BY <1>5, FailTyped DEF StopRadar, May
  <2> QED
    BY <2>1, <2>2 DEF Measuring
<1>6. CASE Silent \/ ReadData \/ ReadFails
  <2>1. /\ UNCHANGED <<acq, opened, wire, i>>
        /\ pc = "scan" /\ pc' \in {"scan", "start"}
    BY <1>6 DEF Silent, ReadData, ReadFails, ScanUnchanged, NextPort, NextTry,
                sensorVars, envVars
  <2>2. sound' \subseteq sound
    BY <1>6, FailTyped DEF Silent, ReadData, ReadFails
  <2> QED
    BY <2>1, <2>2, MeasuringKept
<1>7. CASE StartRadar
  <2>1. /\ UNCHANGED <<opened, wire>>
        /\ pc = "start" /\ pc' \in {"stop", "restore"}
    BY <1>7 DEF StartRadar, Onward, searchVars, envVars
  <2>2. \/ acq' = acq \cup {i} /\ sound' \subseteq sound
        \/ acq' = acq /\ sound' = sound \ {i}
    BY <1>7, FailTyped DEF StartRadar, May
  <2> QED
    BY <2>1, <2>2 DEF Measuring
<1>8. CASE Restore
  <2>1. /\ UNCHANGED <<acq, opened, wire>>
        /\ pc = "restore" /\ pc' \in {"restore", "done"}
    BY <1>8 DEF Restore, Onward, searchVars, envVars
  <2>2. sound' \subseteq sound
    BY <1>8, FailTyped DEF Restore, May
  <2> QED
    BY <2>1, <2>2, MeasuringKept
<1>9. CASE Crash
  BY <1>9 DEF Crash, Measuring, sensorVars, envVars
<1> QED
  BY <1>1, <1>2, <1>3, <1>4, <1>5, <1>6, <1>7, <1>8, <1>9 DEF Next

-----------------------------------------------------------------------------
(* The search.                                                             *)

\* The owner of an interface that some radar is wired to is that radar.
LEMMA OwnerWired ==
  ASSUME Wired, NEW s \in Radars
  PROVE  Owner(wire[s]) = s
BY DEF Wired, Owner

\* An interface found silent by an answer, not by a failure, belongs to no
\* sound radar but the one that is stopped.
LEMMA SilentIsNobodys ==
  ASSUME TypeOK, Wired, Measuring, Silent, NEW s \in sound', s # i
  PROVE  wire[s] # j
<1> SUFFICES ASSUME wire[s] = j PROVE FALSE
  OBVIOUS
<1>1. Fail(Owner(j), 0) \/ Fail(Owner(j), 1)
  BY DEF Silent
<1>2. s \in sound /\ s \in Radars
  BY <1>1, FailTyped DEF TypeOK
<1>3. Owner(j) = s
  BY <1>2, OwnerWired
<1>4. s \in acq /\ j \in opened
  BY <1>2 DEF Measuring, Silent
<1>5. Fail(s, 1)
  BY <1>3, <1>4 DEF Silent
<1> QED
  BY <1>5, FailTyped

\* At the start no radar has an interface.
LEMMA GivenInit == Init => NotGivenAway
BY StartupAssumption DEF Init, NotGivenAway, StartupAssumption

\* No step gives the interface of a sound radar to another.
LEMMA GivenStep ==
  TypeOK /\ TypeOK' /\ Wired /\ Measuring /\ NotGivenAway /\ [Next]_vars
    => NotGivenAway'
<1> SUFFICES ASSUME TypeOK, TypeOK', Wired, Measuring, NotGivenAway, [Next]_vars
             PROVE  NotGivenAway'
  OBVIOUS
<1>1. ASSUME UNCHANGED <<spi, wire>>, sound' \subseteq sound PROVE NotGivenAway'
  BY <1>1 DEF NotGivenAway
<1>2. CASE Silent
  <2>1. /\ spi' = [spi EXCEPT ![i] = j] /\ wire' = wire
        /\ Fail(Owner(j), 0) \/ Fail(Owner(j), 1)
    BY <1>2 DEF Silent, ScanUnchanged, envVars
  <2>2. sound' \subseteq sound
    BY <2>1, FailTyped
  <2>3. \A s \in sound' : s # i => wire[s] # j
    BY <1>2, SilentIsNobodys
  <2> QED
    BY <2>1, <2>2, <2>3 DEF NotGivenAway, TypeOK
<1>3. CASE Crash
  BY <1>3, StartupAssumption
     DEF Crash, NotGivenAway, TypeOK, envVars, StartupAssumption
<1>4. CASE Identify \/ ReadBack
  <2>1. sound' \subseteq sound
    BY <1>4, ReadTyped DEF Identify, ReadBack
  <2> QED
    BY <1>1, <1>4, <2>1 DEF Identify, ReadBack, searchVars, envVars
<1>5. CASE Load \/ OpenPorts \/ RestoreThrows \/ UNCHANGED vars
  BY <1>1, <1>5 DEF Load, OpenPorts, RestoreThrows, vars, searchVars, envVars,
                    countVars
<1>6. CASE \/ Configure \/ ConfigureFails \/ ConfigureThrows \/ Sensitize
           \/ StopRadar \/ ReadData \/ ReadFails \/ StartRadar \/ Restore
  <2>1. sound' \subseteq sound
    BY <1>6, FailTyped
       DEF Configure, ConfigureFails, ConfigureThrows, Sensitize, StopRadar,
           ReadData, ReadFails, StartRadar, Restore, May
  <2>2. UNCHANGED <<spi, wire>>
    BY <1>6 DEF Configure, ConfigureFails, ConfigureThrows, Sensitize,
       StopRadar, ReadData, ReadFails, StartRadar, Restore, ScanUnchanged,
       ConfigureUnchanged, searchVars, envVars
  <2> QED
    BY <1>1, <2>1, <2>2
<1> QED
  BY <1>2, <1>3, <1>4, <1>5, <1>6 DEF Next

\* Whatever fails for the other radars, and whenever the program is started
\* again, nobody else is attached to the interface of a sound radar.
THEOREM NeverGivenAway == Spec => []NotGivenAway
BY TypeInit, TypeStep, MeasuringInit, MeasuringStep, GivenInit, GivenStep, PTL
   DEF Spec

-----------------------------------------------------------------------------
(* With every radar sound the search finds each radar's own interface: the *)
(* others send, and what the stopped one had left is read away the first   *)
(* time.  So from the second try on main never passes its interface, and   *)
(* two tries are enough.                                                   *)

\* The radars that have been through the search.
Attached == {r \in Radars : \/ pc \in {"stop", "scan"} /\ r < i
                            \/ pc = "start" /\ r <= i
                            \/ Searched}

Scanning ==
  pc = "scan" =>
    /\ i \notin acq
    /\ try > 1 => j <= wire[i]
    /\ try > 1 \/ j > wire[i] => wire[i] \notin rx

Found ==
  /\ sound = Radars => (\A r \in Attached : spi[r] = wire[r]) /\ Scanning
  /\ pc = "open" => i = 1

\* Each interface is some radar's: there are as many as radars.
LEMMA EveryPortOwned ==
  ASSUME TypeOK, Wired, NEW port \in Radars
  PROVE  Owner(port) \in Radars /\ wire[Owner(port)] = port
<1>1. IsFiniteSet(Radars)
  BY StartupAssumption, FS_Interval DEF Radars, StartupAssumption
<1>2. wire \in Injection(Radars, Radars)
  BY DEF TypeOK, Wired, Injection, IsInjective
<1>3. wire \in Surjection(Radars, Radars)
  BY <1>1, <1>2, FS_Injection
<1>4. \E r \in Radars : wire[r] = port
  BY <1>3 DEF Surjection
<1> QED
  BY <1>4 DEF Owner

\* At the start no radar has been through the search.
LEMMA FoundInit == Init => Found
<1> SUFFICES ASSUME Init PROVE Found
  OBVIOUS
<1>1. pc = "identify"
  BY DEF Init
<1> QED
  BY <1>1 DEF Found, Attached, Searched, Scanning

\* With every radar sound no call has failed in the step.
LEMMA NothingFailed ==
  ASSUME TypeOK, NEW r \in Radars, NEW n \in {0, 1}, Fail(r, n), sound' = Radars
  PROVE  n = 0 /\ sound = Radars
BY FailTyped DEF TypeOK

\* A scan ends with the radar's own interface, or goes on.
LEMMA ScanFinds ==
  ASSUME TypeOK, TypeOK', Wired, Measuring, Found, sound' = Radars,
         Silent \/ ReadData \/ ReadFails
  PROVE  (\A r \in Attached' : spi'[r] = wire'[r]) /\ Scanning'
<1>1. /\ pc = "scan" /\ i \in Radars /\ j \in Radars /\ wire[i] \in Radars
      /\ try \in 1 .. Retries /\ NumRadars \in Nat
      /\ UNCHANGED <<i, acq, wire>>
  BY StartupAssumption
     DEF Silent, ReadData, ReadFails, ScanUnchanged, sensorVars, envVars,
         TypeOK, StartupAssumption
<1>2. Owner(j) \in Radars /\ wire[Owner(j)] = j
  BY <1>1, EveryPortOwned
<1>3. sound = Radars /\ ~Fail(Owner(j), 1)
  <2>1. ~Fail(Owner(j), 1)
    BY <1>2, NothingFailed
  <2>2. Fail(Owner(j), 0)
    BY <2>1 DEF Silent, ReadData, ReadFails
  <2> QED
    BY <1>2, <2>1, <2>2, NothingFailed
<1>4. /\ \A r \in Radars : r < i => spi[r] = wire[r]
      /\ Scanning
  BY <1>1, <1>3 DEF Found, Attached, Radars
<1>5. \A s \in Radars : wire[s] \in opened /\ (s # i => s \in acq)
  BY <1>1, <1>3 DEF Measuring
<1>6. CASE Silent
  <2>1. j = wire[i]
    BY <1>1, <1>2, <1>3, <1>5, <1>6 DEF Silent
  <2>2. pc' = "start" /\ spi' = [spi EXCEPT ![i] = j]
    BY <1>6 DEF Silent
  <2>3. \A r \in Radars : r <= i => spi'[r] = wire[r]
    BY <1>1, <1>4, <2>1, <2>2 DEF TypeOK, Radars
  <2>4. (\A r \in Attached' : r <= i) /\ Scanning'
    BY <1>1, <2>2 DEF Attached, Searched, Scanning
  <2> QED
    BY <1>1, <2>3, <2>4 DEF Attached
<1>7. CASE ReadData
  <2>1. rx' = rx \ {j} /\ spi' = spi /\ Data /\ NextPort
    BY <1>7 DEF ReadData
  <2>2. j = wire[i] => j \in rx
    <3> SUFFICES ASSUME j = wire[i] PROVE j \in rx
      OBVIOUS
    <3>1. Owner(j) = i
      BY <1>1, OwnerWired
    <3> QED
      BY <1>1, <1>4, <2>1, <3>1 DEF Data, Scanning
  <2>3. try > 1 => j < wire[i]
    BY <1>1, <1>4, <2>2 DEF Scanning, Radars
  <2>4. j >= wire[i] => wire[i] \notin rx'
    BY <1>1, <1>4, <2>1 DEF Scanning, Radars
  <2>5. CASE j < NumRadars
    <3>1. j' = j + 1 /\ UNCHANGED <<pc, try>>
      BY <2>1, <2>5 DEF NextPort
    <3>2. \A r \in Attached' : r \in Radars /\ r < i
      BY <1>1, <3>1 DEF Attached, Searched
    <3>3. Scanning'
      BY <1>1, <1>4, <2>1, <2>3, <2>4, <3>1 DEF Scanning, Radars
    <3> QED
      BY <1>1, <1>4, <2>1, <3>2, <3>3
  <2>6. CASE ~(j < NumRadars)
    <3>1. j = NumRadars /\ wire[i] <= j /\ try = 1
      BY <1>1, <2>3, <2>6 DEF Radars, Retries
    <3>2. j' = 1 /\ try' = 2 /\ pc' = "scan"
      BY <2>1, <2>6, <3>1 DEF NextPort, NextTry, Retries
    <3>3. \A r \in Attached' : r \in Radars /\ r < i
      BY <1>1, <3>2 DEF Attached, Searched
    <3>4. Scanning'
      BY <1>1, <1>4, <2>1, <2>4, <3>1, <3>2 DEF Scanning, Radars
    <3> QED
      BY <1>1, <1>4, <2>1, <3>3, <3>4
  <2> QED
    BY <2>5, <2>6
<1>8. CASE ReadFails
  BY <1>3, <1>8 DEF ReadFails
<1> QED
  BY <1>6, <1>7, <1>8

\* Every step keeps what has been found.
LEMMA FoundStep ==
  TypeOK /\ TypeOK' /\ Wired /\ Measuring /\ Found /\ [Next]_vars => Found'
<1> SUFFICES ASSUME TypeOK, TypeOK', Wired, Measuring, Found, [Next]_vars
             PROVE  Found'
  OBVIOUS
<1>1. i \in Radars /\ NumRadars \in Nat \ {0} /\ Radars = 1 .. NumRadars
  BY StartupAssumption DEF TypeOK, Radars, StartupAssumption
<1>2. ASSUME pc' \in {"identify", "load", "configure", "readback", "sensitize",
                      "down"}
      PROVE  Found'
  BY <1>2 DEF Found, Attached, Searched, Scanning
<1>3. CASE \/ Identify \/ Load \/ Configure \/ ConfigureFails
           \/ ConfigureThrows \/ ReadBack \/ RestoreThrows \/ Crash
  BY <1>2, <1>3 DEF Identify, Load, Configure, ConfigureFails,
     ConfigureThrows, ReadBack, RestoreThrows, Crash, Onward
<1>4. CASE Sensitize
  <2>1. \/ pc' = "configure"
        \/ pc' = "open" /\ i' = 1
    BY <1>4 DEF Sensitize, Onward
  <2> QED
    BY <1>2, <2>1 DEF Found, Attached, Searched, Scanning
<1>5. CASE UNCHANGED vars
  <2>1. UNCHANGED <<pc, i, acq, try, j, rx, spi, wire, sound>>
    BY <1>5 DEF vars, sensorVars, searchVars, envVars, countVars
  <2> QED
    BY <2>1 DEF Found, Attached, Searched, Scanning
<1>6. CASE OpenPorts
  <2>1. i = 1 /\ pc' = "stop" /\ i' = i
    BY <1>6 DEF OpenPorts, Found
  <2>2. Attached' = {}
    BY <1>1, <2>1 DEF Attached, Searched
  <2> QED
    BY <2>1, <2>2 DEF Found, Scanning
<1>7. SUFFICES ASSUME sound' = Radars, pc' # "open"
               PROVE  (\A r \in Attached' : spi'[r] = wire'[r]) /\ Scanning'
  <2>1. CASE pc' # "open"
    BY <1>7, <2>1 DEF Found
  <2>2. CASE pc' = "open"
    BY <1>3, <1>4, <1>5, <1>6, <2>2
       DEF Next, StopRadar, Silent, ReadData, ReadFails, NextPort, NextTry,
           StartRadar, Restore, Onward
  <2> QED
    BY <2>1, <2>2
<1>8. CASE StopRadar
  <2>1. /\ pc = "stop" /\ pc' = "scan" /\ try' = 1 /\ j' = 1
        /\ UNCHANGED <<i, spi, wire>>
    BY <1>8 DEF StopRadar, envVars
  <2>2. sound = Radars /\ acq' = acq \ {i}
    BY <1>1, <1>7, <1>8, NothingFailed DEF StopRadar, May
  <2>3. \A r \in Radars : r < i => spi[r] = wire[r]
    BY <2>1, <2>2 DEF Found, Attached
  <2>4. \A r \in Attached' : r \in Radars /\ r < i
    BY <2>1 DEF Attached, Searched
  <2>5. wire[i] \in 1 .. NumRadars
    BY <1>1 DEF TypeOK
  <2>6. Scanning'
    BY <1>1, <2>1, <2>2, <2>5 DEF Scanning
  <2> QED
    BY <2>1, <2>3, <2>4, <2>6
<1>9. CASE Silent \/ ReadData \/ ReadFails
  BY <1>7, <1>9, ScanFinds
<1>10. CASE StartRadar
  <2>1. /\ pc = "start" /\ Onward("stop", "restore") /\ UNCHANGED <<spi, wire>>
    BY <1>10 DEF StartRadar, searchVars, envVars
  <2>2. sound = Radars
    BY <1>1, <1>7, <1>10, NothingFailed DEF StartRadar, May
  <2>3. \A r \in Radars : r <= i => spi[r] = wire[r]
    BY <2>1, <2>2 DEF Found, Attached
  <2>4. /\ pc' # "scan"
        /\ \A r \in Attached' : r \in Radars /\ r <= i
    BY <1>1, <2>1 DEF Attached, Searched, Onward
  <2> QED
    BY <2>1, <2>3, <2>4 DEF Scanning
<1>11. CASE Restore
  <2>1. /\ pc = "restore" /\ pc' \in {"restore", "done"}
        /\ UNCHANGED <<spi, wire>>
    BY <1>11 DEF Restore, Onward, searchVars, envVars
  <2>2. sound = Radars
    <3>1. Fail(i, 0) \/ Fail(i, 1)
      BY <1>11 DEF Restore, May
    <3> QED
      BY <1>1, <1>7, <3>1, NothingFailed
  <2>3. \A r \in Radars : spi[r] = wire[r]
    BY <2>1, <2>2 DEF Found, Attached, Searched
  <2> QED
    BY <2>1, <2>3 DEF Attached, Scanning
<1>12. CASE Found'
  BY <1>7, <1>12 DEF Found
<1> QED
  BY <1>3, <1>4, <1>5, <1>6, <1>8, <1>9, <1>10, <1>11, <1>12 DEF Next

\* With no call failing the search gives every radar its own interface, for
\* any wiring and whatever waits in the interfaces.
THEOREM FindsOwnInterface == Spec => []OwnInterface
<1>1. TypeOK /\ Found => OwnInterface
  <2> SUFFICES ASSUME TypeOK, Found, Searched, sound = Radars PROVE spi = wire
    BY DEF OwnInterface
  <2>1. \A r \in Radars : spi[r] = wire[r]
    BY DEF Found, Attached
  <2>2. spi \in [Radars -> Radars \cup {None}] /\ wire \in [Radars -> Radars]
    BY DEF TypeOK
  <2> QED
    BY <2>1, <2>2
<1> QED
  BY <1>1, TypeInit, TypeStep, MeasuringInit, MeasuringStep, FoundInit,
     FoundStep, PTL DEF Spec

-----------------------------------------------------------------------------
(* The margins of a sound radar that no crash exposed.  Its main margin is *)
(* in the file, or the sensor still has it until it was read; from then on *)
(* its text has it, whatever the search sets in the sensor.                *)

MarginInv ==
  \A r \in sound \ exposed :
    /\ file[r] # NotInFile => file[r].main = wanted[r]
    /\ file[r] = NotInFile =>
         /\ ram[r].main \in {Disc, wanted[r]}
         /\ pc \in {"identify", "load"} => ram[r].main = wanted[r]
    /\ (pc = "identify" /\ r < i) \/ pc = "load" =>
         r \in known /\ (file[r] = NotInFile => cfg[r].main = wanted[r])
    /\ pc \notin {"identify", "load"} => cfg[r].main = wanted[r]
    /\ pc = "readback" /\ r = i => ram[r].main = wanted[r]
    /\ pc = "restore" /\ r < i => ram[r].main = wanted[r]
    /\ pc = "done" => ram[r].main = wanted[r]

\* A wanted margin is a number, so stoi gives it back.
LEMMA WantedConverts ==
  ASSUME TypeOK, NEW r \in Radars, NEW m, m \in Converted(wanted[r])
  PROVE  m = wanted[r] /\ m \in Margins
BY StartupAssumption DEF TypeOK, Converted, Margins, StartupAssumption

\* What setting a margin of one sensor changes.
LEMMA SetMargin ==
  ASSUME TypeOK, NEW n \in Margins, NEW m \in Margins
  PROVE  /\ ram' = [ram EXCEPT ![i].near = n] =>
              \A r \in Radars : ram'[r].main = ram[r].main
         /\ ram' = [ram EXCEPT ![i].main = m] =>
              /\ ram'[i].main = m
              /\ \A r \in Radars \ {i} : ram'[r] = ram[r]
         /\ ram' = [ram EXCEPT ![i] = [near |-> n, main |-> m]] =>
              /\ ram'[i].main = m
              /\ \A r \in Radars \ {i} : ram'[r] = ram[r]
BY DEF TypeOK

\* At the start every sensor has the margin it is to end up with, or the file
\* has it.
LEMMA MarginInit == Init => MarginInv
<1> SUFFICES ASSUME Init, NEW r \in Radars
             PROVE  /\ file[r] # NotInFile => file[r].main = wanted[r]
                    /\ file[r] = NotInFile => ram[r].main = wanted[r]
                    /\ pc = "identify" /\ ~(r < i)
  BY StartupAssumption
     DEF Init, MarginInv, Radars, StartupAssumption
<1> QED
  BY StartupAssumption
     DEF Init, AsMade, AsSaved, Radars, StartupAssumption

\* The margins while the radars are read: a sound one was read without error.
LEMMA MarginRead ==
  ASSUME TypeOK, MarginInv, NEW failed \in SUBSET {"near", "main", "serial"},
         ReadConfig(failed), UNCHANGED <<ram, file, wanted, exposed>>,
         \/ pc = "identify" /\ Onward("identify", "load")
         \/ pc = "readback" /\ pc' = "sensitize" /\ i' = i
  PROVE  MarginInv'
<1> SUFFICES ASSUME NEW r \in sound' \ exposed'
             PROVE  /\ file'[r] # NotInFile => file'[r].main = wanted'[r]
                    /\ file'[r] = NotInFile =>
                         /\ ram'[r].main \in {Disc, wanted'[r]}
                         /\ pc' \in {"identify", "load"} =>
                              ram'[r].main = wanted'[r]
                    /\ (pc' = "identify" /\ r < i') \/ pc' = "load" =>
                         /\ r \in known'
                         /\ file'[r] = NotInFile => cfg'[r].main = wanted'[r]
                    /\ pc' = "sensitize" => cfg'[r].main = wanted'[r]
                    /\ pc' \in {"identify", "load", "sensitize"}
  BY DEF MarginInv
<1>1. r \in sound \ exposed /\ r \in Radars
  BY ReadTyped DEF TypeOK
<1>2. /\ r = i => r \in known' /\ cfg'[r].main = ram[r].main
      /\ r # i => (r \in known' <=> r \in known) /\ cfg'[r] = cfg[r]
  BY <1>1, ReadTyped
<1>3. i \in Nat /\ r \in Nat /\ NumRadars \in Nat /\ i <= NumRadars
      /\ r <= NumRadars
  BY <1>1, StartupAssumption DEF TypeOK, Radars, StartupAssumption
<1>4. CASE pc = "identify"
  <2>1. \/ pc' = "identify" /\ i' = i + 1
        \/ pc' = "load" /\ i = NumRadars
    BY <1>3, <1>4 DEF Onward
  <2>2. (pc' = "identify" /\ r < i') \/ pc' = "load" => r < i \/ r = i
    BY <1>3, <2>1 DEF TypeOK, StartupAssumption
  <2> QED
    BY <1>1, <1>2, <1>4, <2>1, <2>2 DEF MarginInv
<1>5. CASE pc = "readback"
  BY <1>1, <1>2, <1>5 DEF MarginInv
<1> QED
  BY <1>4, <1>5

\* The margins while the sensors are set from their texts.
LEMMA MarginSet ==
  ASSUME TypeOK, MarginInv,
         Configure \/ ConfigureFails \/ ConfigureThrows \/ Sensitize \/ Restore
  PROVE  MarginInv'
<1>1. /\ sound' \subseteq sound
      /\ ConfigureFails => i \notin sound'
    BY FailTyped DEF Configure, ConfigureFails, ConfigureThrows, Sensitize,
                     Restore, May
<1>2. /\ UNCHANGED <<cfg, file, wanted, exposed>>
      /\ \/ pc = "configure" /\ pc' \in {"readback", "sensitize", "down"}
         \/ pc = "sensitize" /\ pc' \in {"configure", "open"}
         \/ pc = "restore" /\ pc' \in {"restore", "done"}
  BY DEF Configure, ConfigureFails, ConfigureThrows, Sensitize, Restore,
         ConfigureUnchanged, Onward, envVars, crashVars
<1>3. SUFFICES ASSUME NEW r \in sound' \ exposed'
               PROVE  /\ file'[r] # NotInFile => file'[r].main = wanted'[r]
                      /\ file'[r] = NotInFile => ram'[r].main \in {Disc, wanted'[r]}
                      /\ cfg'[r].main = wanted'[r]
                      /\ pc' = "readback" /\ r = i' => ram'[r].main = wanted'[r]
                      /\ pc' = "restore" /\ r < i' => ram'[r].main = wanted'[r]
                      /\ pc' = "done" => ram'[r].main = wanted'[r]
  BY <1>2 DEF MarginInv
<1>4. /\ r \in sound' /\ r \in Radars /\ i \in Radars
      /\ file[r] # NotInFile => file[r].main = wanted[r]
      /\ file[r] = NotInFile => ram[r].main \in {Disc, wanted[r]}
      /\ cfg[r].main = wanted[r]
      /\ pc = "restore" /\ r < i => ram[r].main = wanted[r]
  BY <1>1, <1>2, <1>3 DEF MarginInv, TypeOK
<1> SUFFICES /\ ram'[r].main \in {ram[r].main, wanted[r], Disc}
             /\ pc' = "readback" /\ r = i' => ram'[r].main = wanted[r]
             /\ pc' = "restore" /\ r < i' => ram'[r].main = wanted[r]
             /\ pc' = "done" => ram'[r].main = wanted[r]
  BY <1>2, <1>4
<1>5. i \in Nat /\ r \in Nat /\ NumRadars \in Nat /\ i <= NumRadars
      /\ r <= NumRadars
  BY <1>4, StartupAssumption DEF TypeOK, Radars, StartupAssumption
<1>6. /\ Converted(cfg[i].near) \ {Throws} \subseteq Margins
      /\ Converted(cfg[i].main) \ {Throws} \subseteq Margins
  BY ConvertedTyped DEF TypeOK, Texts
<1>7. CASE Configure
  <2>1. PICK n \in Margins, m \in Converted(cfg[i].main) \ {Throws} :
          ram' = [ram EXCEPT ![i] = [near |-> n, main |-> m]]
    BY <1>6, <1>7 DEF Configure
  <2>2. m \in Margins /\ (r = i => m = wanted[r])
    BY <1>4, <1>6, <2>1, WantedConverts
  <2>3. ram'[i].main = m /\ \A q \in Radars \ {i} : ram'[q] = ram[q]
    BY <2>1, <2>2, SetMargin
  <2>4. pc' = "readback" /\ i' = i
    BY <1>7 DEF Configure, ConfigureUnchanged
  <2> QED
    BY <1>4, <2>2, <2>3, <2>4
<1>8. CASE ConfigureFails
  <2>1. r # i /\ pc' = "sensitize"
    BY <1>1, <1>8 DEF ConfigureFails
  <2>2. ram'[r] = ram[r]
    BY <1>4, <1>8, <2>1 DEF ConfigureFails, TypeOK
  <2> QED
    BY <2>1, <2>2
<1>9. CASE ConfigureThrows
  <2>1. \/ ram' = ram
        \/ \E n \in Margins : ram' = [ram EXCEPT ![i].near = n]
    BY <1>6, <1>9 DEF ConfigureThrows
  <2>2. Disc \in Margins
    BY DEF Margins
  <2>3. ram'[r].main = ram[r].main
    BY <1>4, <2>1, <2>2, SetMargin
  <2> QED
    BY <1>9, <2>3 DEF ConfigureThrows
<1>10. CASE Sensitize
  <2>1. ram' = ram \/ ram' = [ram EXCEPT ![i].main = Disc]
    BY <1>10 DEF Sensitize, May
  <2>2. Disc \in Margins
    BY DEF Margins
  <2>3. ram'[r].main \in {ram[r].main, Disc}
    BY <1>4, <2>1, <2>2, SetMargin
  <2> QED
    BY <1>10, <2>3 DEF Sensitize, Onward
<1>11. CASE Restore
  <2>1. PICK m \in Converted(cfg[i].main) \ {Throws} :
          May(i, ram' = [ram EXCEPT ![i].main = m], UNCHANGED ram)
    BY <1>11 DEF Restore
  <2>2. m \in Margins /\ (r = i => m = wanted[r])
    BY <1>4, <1>6, <2>1, WantedConverts
  <2>3. /\ ram' = ram \/ ram' = [ram EXCEPT ![i].main = m]
        /\ ram' = ram \/ Fail(i, 0) \/ r # i
        /\ ram' = [ram EXCEPT ![i].main = m] \/ Fail(i, 1)
    BY <2>1 DEF May
  <2>4. r = i => ram' = [ram EXCEPT ![i].main = m]
    BY <1>4, <2>3, FailTyped
  <2>5. /\ r = i => ram'[r].main = wanted[r]
        /\ r # i => ram'[r] = ram[r]
    BY <1>4, <2>2, <2>3, <2>4, SetMargin
  <2>6. \/ pc' = "restore" /\ i' = i + 1
        \/ pc' = "done" /\ i = NumRadars
    BY <1>5, <1>11 DEF Restore, Onward
  <2>7. pc' = "done" \/ r < i' => r = i \/ r < i
    BY <1>5, <2>6 DEF TypeOK
  <2>8. pc = "restore"
    BY <1>11 DEF Restore
  <2> QED
    BY <1>4, <2>5, <2>6, <2>7, <2>8
<1> QED
  BY <1>7, <1>8, <1>9, <1>10, <1>11

\* Every step keeps the margins.
LEMMA MarginStep ==
  TypeOK /\ TypeOK' /\ MarginInv /\ [Next]_vars => MarginInv'
<1> SUFFICES ASSUME TypeOK, TypeOK', MarginInv, [Next]_vars PROVE MarginInv'
  OBVIOUS
<1>1. CASE Identify
  BY <1>1, MarginRead DEF Identify, sensorVars, envVars, crashVars
<1>2. CASE ReadBack
  BY <1>2, MarginRead DEF ReadBack, sensorVars, envVars, crashVars
<1>3. CASE \/ Configure \/ ConfigureFails \/ ConfigureThrows \/ Sensitize
           \/ Restore
  BY <1>3, MarginSet
<1>4. CASE Load
  <2>1. /\ pc = "load" /\ pc' = "configure"
        /\ UNCHANGED <<ram, wanted, sound, exposed>>
    BY <1>4 DEF Load, sensorVars, envVars, countVars, crashVars
  <2>2. \A r \in sound \ exposed : /\ r \in Radars /\ r \in known
                                   /\ cfg'[r].main = wanted[r]
    BY <1>4, <2>1 DEF Load, MarginInv, TypeOK
  <2>3. \A r \in sound \ exposed :
          \/ file'[r] = file[r]
          \/ file'[r] = cfg'[r]
    BY <1>4, <2>2 DEF Load
  <2>4. \A r \in sound \ exposed :
          /\ file'[r] # NotInFile => file'[r].main = wanted[r]
          /\ file'[r] = NotInFile => file[r] = NotInFile
    <3>1. \A r \in Radars : cfg'[r] \in Texts
      BY DEF TypeOK
    <3> QED
      BY <2>1, <2>2, <2>3, <3>1, StartupAssumption
         DEF MarginInv, Texts, StartupAssumption
  <2> QED
    BY <2>1, <2>2, <2>4 DEF MarginInv
<1>5. CASE OpenPorts \/ StopRadar \/ Silent \/ ReadData \/ ReadFails
  <2>1. /\ UNCHANGED <<ram, cfg, file, wanted, exposed>>
        /\ pc \in {"open", "stop", "scan"} /\ pc' \in {"stop", "scan", "start"}
    BY <1>5 DEF OpenPorts, StopRadar, Silent, ReadData, ReadFails, NextPort,
                NextTry, ScanUnchanged, sensorVars, envVars, crashVars
  <2>2. sound' \subseteq sound
    BY <1>5, FailTyped
       DEF OpenPorts, StopRadar, Silent, ReadData, ReadFails, May
  <2> QED
    BY <2>1, <2>2 DEF MarginInv
<1>6. CASE StartRadar
  <2>1. /\ UNCHANGED <<ram, cfg, file, wanted, exposed>> /\ pc = "start"
        /\ pc' = "stop" \/ (pc' = "restore" /\ i' = 1)
    BY <1>6 DEF StartRadar, Onward, searchVars, envVars, crashVars
  <2>2. sound' \subseteq sound
    BY <1>6, FailTyped DEF StartRadar, May
  <2>3. \A r \in sound : r \in Nat /\ ~(r < 1)
    BY StartupAssumption DEF TypeOK, Radars, StartupAssumption
  <2> QED
    BY <2>1, <2>2, <2>3 DEF MarginInv
<1>7. CASE RestoreThrows
  BY <1>7 DEF RestoreThrows, MarginInv, sensorVars, envVars, countVars,
              crashVars
<1>8. CASE Crash
  <2>1. /\ UNCHANGED <<ram, file, wanted>> /\ sound' \subseteq sound
        /\ pc' = "identify" /\ i' = 1
        /\ exposed' = exposed \cup {r \in Radars : file[r] = NotInFile
                                                   /\ ram[r].main = Disc}
    BY <1>8 DEF Crash, sensorVars, envVars
  <2>2. \A r \in sound : r \in Radars /\ ~(r < 1)
    BY StartupAssumption DEF TypeOK, Radars, StartupAssumption
  <2>3. \A r \in sound' \ exposed' :
          /\ r \in sound \ exposed
          /\ file[r] = NotInFile => ram[r].main # Disc
    BY <2>1, <2>2
  <2> QED
    BY <2>1, <2>2, <2>3 DEF MarginInv
<1>9. CASE UNCHANGED vars
  BY <1>9 DEF vars, sensorVars, envVars, countVars, crashVars, MarginInv
<1> QED
  BY <1>1, <1>2, <1>3, <1>4, <1>5, <1>6, <1>7, <1>8, <1>9 DEF Next

\* A sensor of which no call failed ends up with the margin of the file, or
\* the one it had, although the search has set another.
THEOREM MarginIsKept == Spec => []MarginKept
<1>1. MarginInv => MarginKept
  BY DEF MarginInv, MarginKept
<1> QED
  BY <1>1, TypeInit, TypeStep, MarginInit, MarginStep, PTL DEF Spec
=============================================================================
