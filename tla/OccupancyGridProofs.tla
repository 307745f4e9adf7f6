------------------------ MODULE OccupancyGridProofs ------------------------
(***************************************************************************)
(* Proofs about OccupancyGrid, for every startup configuration, every      *)
(* value the web form may set and every target.                            *)
(***************************************************************************)
EXTENDS OccupancyGrid, TLAPS

-----------------------------------------------------------------------------
(* The mapping of targets to cells. *)

\* The indices updateGrid computes for a target it counts are integers.
LEMMA IndicesAreInts ==
  ASSUME NEW c \in Confs, NEW t \in TargetType,
         c["rangeSeg"] # 0, c["angleSeg"] # 0
  PROVE  /\ RangeIndex(c, t) \in Int
         /\ AngleIndex(c, t) \in Int
         /\ Rows \in Int /\ Cols \in Int
<1>1. c["rangeSeg"] \in Nat \ {0} /\ c["angleSeg"] \in Nat \ {0}
  BY DEF Confs, Fields
<1>2. t.range \in Nat /\ Abs(t.angle) \in Nat
  BY DEF TargetType, Abs
<1>3. RangeIndex(c, t) \in Int /\ AngleSteps(c, t) \in Int
  BY <1>1, <1>2 DEF RangeIndex, AngleSteps
<1>4. Rows \in Int /\ Cols \in Int /\ Half \in Int
  BY GridAssumption DEF GridAssumption, Rows, Cols, Half, Confs, Fields
<1> QED
  BY <1>3, <1>4 DEF AngleIndex

\* A target that updateGrid counts under any configuration falls into the grid
\* that was built under another.
LEMMA CountedInGrid ==
  ASSUME NEW c \in Confs, NEW t \in TargetType, Counted(c, t)
  PROVE  CellOf(c, t) \in Cells
<1>1. c["rangeSeg"] # 0 /\ c["angleSeg"] # 0
  BY DEF Counted, InSector
<1>2. /\ RangeIndex(c, t) \in Int /\ Rows \in Int
      /\ AngleIndex(c, t) \in Int /\ Cols \in Int
  BY <1>1, IndicesAreInts
<1>3. RangeIndex(c, t) - 1 \in 0 .. Rows - 1
  BY <1>2 DEF Counted, InGrid
<1>4. AngleIndex(c, t) - 1 \in 0 .. Cols - 1
  BY <1>2 DEF Counted, InGrid
<1> QED
  BY <1>3, <1>4 DEF CellOf, Cells

-----------------------------------------------------------------------------
(* The type invariant. *)

\* One target keeps the count of its cell between zero and the largest maximum.
LEMMA CountStaysInRange ==
  ASSUME NEW c \in Confs, NEW t \in TargetType, NEW n \in 0 .. MaxCount,
         c["cellMax"] <= MaxCount
  PROVE  NewCount(c, t, n) \in 0 .. MaxCount
BY GridAssumption DEF GridAssumption, NewCount, Confs, Fields

\* So does the number of sightings.
LEMMA SightingsInRange ==
  ASSUME NEW t \in TargetType, NEW n \in 0 .. MaxCount, NEW m
  PROVE  Sightings(t, n, m) \in 0 .. MaxCount
BY GridAssumption DEF GridAssumption, Sightings

\* The count maximum in force is one of those configured.
ConfInv == conf \in Confs /\ conf["cellMax"] <= MaxCount

\* The configuration at the start is one the grid was built for.
LEMMA ConfInit == Init => ConfInv
BY GridAssumption DEF GridAssumption, Init, ConfInv

\* The maximum in force stays one that was configured.
LEMMA ConfStep == ConfInv /\ [Next]_vars => ConfInv'
<1> SUFFICES ASSUME ConfInv, [Next]_vars PROVE ConfInv'
  OBVIOUS
<1>1. CASE SetField
  <2>0. PICK f \in Fields : \E n \in Options[f] : conf' = [conf EXCEPT ![f] = n]
    BY <1>1 DEF SetField
  <2>1. PICK n \in Options[f] : conf' = [conf EXCEPT ![f] = n]
    BY <2>0
  <2>2. n \in Nat
    BY GridAssumption DEF GridAssumption
  <2>3. f = "cellMax" => n <= MaxCount
    BY GridAssumption DEF GridAssumption
  <2> QED
    BY <2>1, <2>2, <2>3 DEF ConfInv, Confs, Fields
<1>2. CASE TakeFrame \/ FilterFrame \/ Poll \/ Update \/ UNCHANGED vars
  BY <1>2 DEF TakeFrame, FilterFrame, StartUpdate, SkipUpdate, CountTarget,
              EndUpdate, Notify, Poll, PollEmpty, PollAges, Update, vars,
              webVars, ConfInv
<1> QED
  BY <1>1, <1>2 DEF Next

\* The initial state has the declared types.
LEMMA TypeInit == Init => TypeOK
<1> SUFFICES ASSUME Init PROVE TypeOK
  OBVIOUS
<1>1. grid \in [Cells -> 0 .. MaxCount]
  BY GridAssumption DEF GridAssumption, Init
<1>2. next \in 1 .. Len(list) + 1 /\ Len(list) = Len(input)
  BY DEF Init
<1>3. seen \in [Cells -> 0 .. MaxCount] /\ crowded \subseteq 1 .. Len(list)
  BY GridAssumption DEF GridAssumption, Init
<1> QED
  BY <1>1, <1>2, <1>3, GridAssumption DEF GridAssumption, Init, TypeOK

\* No step of the filter or of the web form leaves the types.
LEMMA TypeStep == TypeOK /\ ConfInv /\ ConfInv' /\ [Next]_vars => TypeOK'
<1> SUFFICES ASSUME TypeOK, ConfInv, ConfInv', [Next]_vars PROVE TypeOK'
  OBVIOUS
<1> USE DEF histVars
<1>1. CASE TakeFrame
  <2>1. PICK n \in 0 .. MaxTargets : input' \in [1 .. n -> Targets]
    BY <1>1 DEF TakeFrame, Lists
  <2>2. input' \in Seq(TargetType) /\ Len(input') = n
    BY <2>1, GridAssumption DEF GridAssumption
  <2>3. list' = input' /\ next' \in 1 .. Len(list') + 1
    BY <1>1, <2>2, GridAssumption DEF TakeFrame, GridAssumption
  <2>4. crowded' \subseteq 1 .. Len(list')
    BY <1>1 DEF TakeFrame
  <2> QED
    BY <1>1, <2>2, <2>3, <2>4 DEF TakeFrame, Move, TypeOK, webVars
<1>2. CASE StartUpdate \/ SkipUpdate \/ EndUpdate
  BY <1>2 DEF StartUpdate, SkipUpdate, EndUpdate, Move, TypeOK, webVars
<1>3. CASE CountTarget
  <2> DEFINE t == list[next]
             cell == CellOf(conf, t)
  <2>1. t \in TargetType /\ next' \in 1 .. Len(list) + 1 /\ next \in DOMAIN list
    BY <1>3 DEF CountTarget, TypeOK
  <2>2. Filtered(conf, t, grid[cell]) \in TargetType
    BY <2>1 DEF Filtered, Blank, TargetType, Velocities
  <2>3. CASE Counted(conf, t)
    <3>1. cell \in Cells
      BY <2>1, <2>3, CountedInGrid DEF ConfInv
    <3>2. NewCount(conf, t, grid[cell]) \in 0 .. MaxCount
      BY <2>1, <3>1, CountStaysInRange DEF ConfInv, TypeOK
    <3>3. grid' = [grid EXCEPT ![cell] = NewCount(conf, t, grid[cell])]
      BY <1>3, <2>3 DEF CountTarget
    <3>4. grid' \in [Cells -> 0 .. MaxCount]
      BY <3>2, <3>3 DEF TypeOK
    <3>5. list' = [list EXCEPT ![next] = Filtered(conf, t, grid[cell])]
      BY <1>3, <2>3 DEF CountTarget
    <3>6. list' \in Seq(TargetType) /\ Len(list') = Len(list)
      BY <2>1, <2>2, <3>5 DEF TypeOK
    <3>7. seen' = [seen EXCEPT ![cell] = Sightings(t, seen[cell], grid'[cell])]
      BY <1>3, <2>3 DEF CountTarget
    <3>8. seen' \in [Cells -> 0 .. MaxCount]
      BY <2>1, <3>1, <3>7, SightingsInRange DEF TypeOK
    <3>9. crowded' \subseteq 1 .. Len(list')
      BY <1>3, <2>1, <2>3, <3>6 DEF CountTarget, TypeOK
    <3> QED
      BY <1>3, <2>1, <3>4, <3>6, <3>8, <3>9 DEF CountTarget, TypeOK, webVars
  <2>4. CASE ~Counted(conf, t)
    BY <1>3, <2>1, <2>4 DEF CountTarget, TypeOK, webVars
  <2> QED
    BY <2>3, <2>4
<1>4. CASE Notify
  <2>1. message' \subseteq TargetType
    BY <1>4 DEF Notify, TypeOK
  <2>2. /\ input' \in Seq(TargetType) /\ list' \in Seq(TargetType)
        /\ Len(list') = Len(input') /\ next' \in 1 .. Len(list') + 1
        /\ crowded' \subseteq 1 .. Len(list')
    BY <1>4 DEF Notify
  <2> QED
    BY <1>4, <2>1, <2>2 DEF Notify, Move, TypeOK, webVars
<1>5. CASE PollEmpty
  BY <1>5, GridAssumption DEF PollEmpty, TypeOK, webVars, GridAssumption
<1>6. CASE PollAges
  <2>1. Aged \in [Cells -> 0 .. MaxCount]
    BY GridAssumption DEF Aged, TypeOK, GridAssumption
  <2>2. grid' \in [Cells -> 0 .. MaxCount]
    BY <1>6, <2>1 DEF PollAges, TypeOK
  <2>3. seen' \in [Cells -> 0 .. MaxCount]
    BY <1>6, GridAssumption DEF PollAges, TypeOK, GridAssumption
  <2> QED
    BY <1>6, <2>2, <2>3, GridAssumption DEF PollAges, TypeOK, webVars, GridAssumption
<1>7. CASE SetField
  BY <1>7, GridAssumption DEF SetField, TypeOK, ConfInv, GridAssumption
<1>8. CASE Update
  BY <1>8 DEF Update, TypeOK
<1>9. CASE UNCHANGED vars
  BY <1>9 DEF vars, webVars, TypeOK
<1> QED
  BY <1>1, <1>2, <1>3, <1>4, <1>5, <1>6, <1>7, <1>8, <1>9
     DEF Next, FilterFrame, Poll

\* Every behaviour is type correct: no sequence of targets and form entries
\* drives a count below zero or above every configured maximum.
THEOREM TypeCorrect == Spec => []TypeOK
BY ConfInit, ConfStep, TypeInit, TypeStep, PTL DEF Spec

\* No configuration the web form can make sends a target out of the grid.
THEOREM AlwaysInBounds == Spec => []InBounds
<1>1. ConfInv => InBounds
  BY CountedInGrid, GridAssumption DEF ConfInv, InBounds, GridAssumption
<1> QED
  BY <1>1, ConfInit, ConfStep, PTL DEF Spec

-----------------------------------------------------------------------------
(* Action properties of the filter. *)

\* A moving target of the list is as it was taken from the queue, all the way
\* from TakeFrame to Notify.
MovingInv == \A i \in DOMAIN input : ~Still(input[i]) => list[i] = input[i]

\* There is no list at the start.
LEMMA MovingInit == Init => MovingInv
BY DEF Init, MovingInv

\* No step marks a moving target of the list as still.
LEMMA MovingStep == TypeOK /\ MovingInv /\ [Next]_vars => MovingInv'
<1> SUFFICES ASSUME TypeOK, MovingInv, [Next]_vars PROVE MovingInv'
  OBVIOUS
<1>1. CASE CountTarget
  <2>1. input' = input /\ DOMAIN input = DOMAIN list /\ next \in DOMAIN list
    BY <1>1 DEF CountTarget, TypeOK
  <2>2. ASSUME NEW i \in DOMAIN input, ~Still(input[i]) PROVE list'[i] = input[i]
    <3>1. list[i] = input[i] /\ ~Still(list[i])
      BY <2>2 DEF MovingInv
    <3>2. i = next => Filtered(conf, list[next], grid[CellOf(conf, list[next])])
                        = list[next]
      BY <3>1 DEF Filtered
    <3> QED
      BY <1>1, <2>1, <3>1, <3>2 DEF CountTarget, TypeOK
  <2> QED
    BY <2>1, <2>2 DEF MovingInv
<1>2. CASE TakeFrame \/ Notify
  BY <1>2 DEF TakeFrame, Notify, MovingInv
<1>3. CASE \/ StartUpdate \/ SkipUpdate \/ EndUpdate \/ Poll \/ SetField
           \/ Update \/ UNCHANGED vars
  BY <1>3 DEF StartUpdate, SkipUpdate, EndUpdate, Poll, PollEmpty, PollAges,
              SetField, Update, vars, MovingInv
<1> QED
  BY <1>1, <1>2, <1>3 DEF Next, FilterFrame

\* Every moving target within the limits reaches the message of its list.
THEOREM MovementIsReported == Spec => MovingPublished
<1>1. ASSUME TypeOK, MovingInv, [Next]_vars, fpc = "notify", fpc' = "take",
             NEW i \in DOMAIN input, ~Still(input[i]), Published(conf, input[i])
      PROVE  input[i] \in message'
  <2>1. Notify
    BY <1>1 DEF Next, TakeFrame, FilterFrame, StartUpdate, SkipUpdate,
                CountTarget, EndUpdate, Poll, PollEmpty, PollAges, SetField,
                Update, vars, Move
  <2>2. i \in DOMAIN list /\ list[i] = input[i]
    BY <1>1 DEF MovingInv, TypeOK
  <2> QED
    BY <1>1, <2>1, <2>2 DEF Notify
<1>2. TypeOK /\ MovingInv /\ [Next]_vars =>
        [(fpc = "notify" /\ fpc' = "take") =>
           \A i \in DOMAIN input :
             (~Still(input[i]) /\ Published(conf, input[i]))
               => input[i] \in message']_vars
  BY <1>1
<1> QED
  BY <1>2, ConfInit, ConfStep, TypeInit, TypeStep, MovingInit, MovingStep, PTL
     DEF Spec, MovingPublished

\* updateGrid never lowers the count of an expired cell.
THEOREM ExpiredStays == Spec => StickyCells
<1>1. ASSUME TypeOK, [Next]_vars, NEW cell \in Cells,
             grid[cell] >= conf["cellExpired"], grid'[cell] < grid[cell],
             conf \in Confs
      PROVE  fpc = "take"
  <2>1. CASE CountTarget
    <3> DEFINE t == list[next]
    <3>1. grid[cell] \in Nat /\ conf["cellExpired"] \in Nat
      BY <1>1 DEF TypeOK, Confs, Fields
    <3>2. /\ Counted(conf, t)
          /\ grid' = [grid EXCEPT ![CellOf(conf, t)] =
                        NewCount(conf, t, grid[CellOf(conf, t)])]
      BY <1>1, <2>1, <3>1 DEF CountTarget
    <3>3. cell = CellOf(conf, t) /\ grid'[cell] = NewCount(conf, t, grid[cell])
      BY <1>1, <3>1, <3>2 DEF TypeOK
    <3>4. NewCount(conf, t, grid[cell]) >= grid[cell]
      BY <1>1, <3>1 DEF NewCount
    <3>5. NewCount(conf, t, grid[cell]) \in Int
      BY <3>1 DEF NewCount
    <3> QED
      BY <1>1, <3>1, <3>3, <3>4, <3>5
  <2>2. CASE grid' = grid
    BY <1>1, <2>2 DEF TypeOK
  <2>3. CASE PollAges
    BY <2>3 DEF PollAges
  <2> QED
    BY <1>1, <2>1, <2>2, <2>3
       DEF Next, TakeFrame, FilterFrame, StartUpdate, SkipUpdate, EndUpdate,
           Notify, Poll, PollEmpty, SetField, Update, vars
<1>2. TypeOK /\ [Next]_vars =>
        [\A cell \in Cells :
           (grid[cell] >= conf["cellExpired"] /\ grid'[cell] < grid[cell])
             => fpc = "take"]_vars
  BY <1>1 DEF TypeOK
<1> QED
  BY <1>2, ConfInit, ConfStep, TypeInit, TypeStep, PTL
     DEF Spec, StickyCells

\* While paused, the filter is not in updateGrid and has not touched the list.
PauseInv == updating => fpc # "targets" /\ list = input

\* The pause precedes the first frame.
LEMMA PauseInit == Init => PauseInv
BY DEF Init, PauseInv

\* Nothing pauses the filter again, and a paused filter skips updateGrid.
LEMMA PauseStep == PauseInv /\ [Next]_vars => PauseInv'
BY DEF PauseInv, Next, TakeFrame, FilterFrame, StartUpdate, SkipUpdate,
       CountTarget, EndUpdate, Notify, Poll, PollEmpty, PollAges, SetField,
       Update, vars, webVars, Move

\* A filter that is left paused publishes every target within the limits.
THEOREM PausePassesAll == Spec => PausedPassesAll
<1>1. ASSUME PauseInv, [Next]_vars, fpc = "notify", fpc' = "take", updating
      PROVE  message' = {input[i] : i \in {k \in DOMAIN input :
                                              Published(conf, input[k])}}
  <2>1. CASE Notify
    BY <1>1, <2>1 DEF Notify, PauseInv
  <2>2. CASE ~Notify
    BY <1>1, <2>2
       DEF Next, TakeFrame, FilterFrame, StartUpdate, SkipUpdate, CountTarget,
           EndUpdate, Poll, PollEmpty, PollAges, SetField, Update, vars,
           webVars, Move
  <2> QED
    BY <2>1, <2>2
<1>2. PauseInv /\ [Next]_vars =>
        [(fpc = "notify" /\ fpc' = "take" /\ updating) =>
           message' = {input[i] : i \in {k \in DOMAIN input :
                                           Published(conf, input[k])}}]_vars
  BY <1>1
<1> QED
  BY <1>2, PauseInit, PauseStep, PTL DEF Spec, PausedPassesAll

\* No cell's count is above the number of still targets counted there since
\* it was last zero.
SeenInv == \A cell \in Cells : grid[cell] <= seen[cell]

\* A target of the list that was blanked was still, in a crowded cell.
BlankedInv ==
  \A i \in DOMAIN input :
    list[i] # input[i] => Still(input[i]) /\ i \in crowded

\* At the start nothing was counted.
LEMMA SeenInit == Init => SeenInv /\ BlankedInv
BY DEF Init, SeenInv, BlankedInv

\* A still target raises both numbers, and every other step lowers the count
\* alone; the number of sightings goes only when the count is zero.
LEMMA SeenStep ==
  TypeOK /\ TypeOK' /\ ConfInv /\ SeenInv /\ [Next]_vars => SeenInv'
<1> SUFFICES ASSUME TypeOK, TypeOK', ConfInv, SeenInv, [Next]_vars
             PROVE  SeenInv'
  OBVIOUS
<1>1. CASE CountTarget
  <2> DEFINE t == list[next]
             place == CellOf(conf, t)
  <2>1. CASE Counted(conf, t)
    <3>1. /\ t \in TargetType
          /\ grid' = [grid EXCEPT ![place] = NewCount(conf, t, grid[place])]
          /\ seen' = [seen EXCEPT ![place] =
                        Sightings(t, seen[place], grid'[place])]
      BY <1>1, <2>1 DEF CountTarget, TypeOK
    <3>2. place \in Cells
      BY <2>1, <3>1, CountedInGrid DEF ConfInv
    <3>3. /\ grid[place] \in 0 .. MaxCount /\ seen[place] \in 0 .. MaxCount
          /\ grid'[place] \in 0 .. MaxCount /\ grid[place] <= seen[place]
      BY <3>2 DEF TypeOK, SeenInv
    <3>4. grid'[place] = NewCount(conf, t, grid[place])
      BY <3>1, <3>2 DEF TypeOK
    <3>5. seen'[place] = Sightings(t, seen[place], grid'[place])
      BY <3>1, <3>2 DEF TypeOK
    <3>6. grid'[place] <= seen'[place]
      BY <3>3, <3>4, <3>5, GridAssumption
         DEF NewCount, Sightings, GridAssumption, ConfInv, Confs, Fields
    <3> QED
      BY <3>1, <3>2, <3>6 DEF TypeOK, SeenInv
  <2>2. CASE ~Counted(conf, t)
    BY <1>1, <2>2 DEF CountTarget, SeenInv, histVars
  <2> QED
    BY <2>1, <2>2
<1>2. CASE PollAges
  <2>1. ASSUME NEW cell \in Cells PROVE grid'[cell] <= seen'[cell]
    <3>1. /\ grid[cell] \in 0 .. MaxCount /\ grid[cell] <= seen[cell]
          /\ seen[cell] \in 0 .. MaxCount
      BY <2>1 DEF TypeOK, SeenInv
    <3>2. grid'[cell] <= grid[cell] /\ grid'[cell] \in 0 .. MaxCount
      BY <1>2, <2>1, <3>1, GridAssumption
         DEF PollAges, Aged, TypeOK, GridAssumption
    <3>3. seen'[cell] = IF grid'[cell] = 0 THEN 0 ELSE seen[cell]
      BY <1>2, <2>1 DEF PollAges
    <3> QED
      BY <3>1, <3>2, <3>3, GridAssumption DEF GridAssumption
  <2> QED
    BY <2>1 DEF SeenInv
<1>3. CASE \/ TakeFrame \/ StartUpdate \/ SkipUpdate \/ EndUpdate \/ Notify
           \/ PollEmpty \/ SetField \/ Update \/ UNCHANGED vars
  BY <1>3 DEF TakeFrame, StartUpdate, SkipUpdate, EndUpdate, Notify, PollEmpty,
              SetField, Update, vars, histVars, SeenInv
<1> QED
  BY <1>1, <1>2, <1>3 DEF Next, FilterFrame, Poll

\* updateGrid blanks a still target only where the count, and with it the
\* number of sightings, is above the limit.
LEMMA BlankedStep ==
  TypeOK /\ TypeOK' /\ ConfInv /\ SeenInv' /\ BlankedInv /\ [Next]_vars
    => BlankedInv'
<1> SUFFICES ASSUME TypeOK, TypeOK', ConfInv, SeenInv', BlankedInv, [Next]_vars
             PROVE  BlankedInv'
  OBVIOUS
<1>1. CASE CountTarget
  <2> DEFINE t == list[next]
             place == CellOf(conf, t)
  <2>1. /\ input' = input /\ DOMAIN input = DOMAIN list /\ next \in DOMAIN list
        /\ t \in TargetType /\ next \in Int
    BY <1>1 DEF CountTarget, TypeOK
  <2>2. CASE Counted(conf, t)
    <3>1. /\ list' = [list EXCEPT ![next] = Filtered(conf, t, grid[place])]
          /\ grid' = [grid EXCEPT ![place] = NewCount(conf, t, grid[place])]
          /\ crowded' = IF seen'[place] > conf["cellExpired"]
                        THEN crowded \cup {next} ELSE crowded
      BY <1>1, <2>2 DEF CountTarget
    <3>2. place \in Cells
      BY <2>1, <2>2, CountedInGrid DEF ConfInv
    <3>3. grid'[place] = NewCount(conf, t, grid[place])
      BY <3>1, <3>2 DEF TypeOK
    <3>4. /\ grid'[place] <= seen'[place] /\ conf["cellExpired"] \in Nat
          /\ grid'[place] \in Int /\ seen'[place] \in Int
      BY <3>2, GridAssumption DEF SeenInv, TypeOK, Confs, Fields, GridAssumption
    <3>5. ASSUME list'[next] # input[next]
          PROVE  Still(input[next]) /\ next \in crowded'
      <4>1. CASE list[next] # input[next]
        BY <2>1, <3>1, <4>1 DEF BlankedInv
      <4>2. CASE list[next] = input[next]
        <5>1. Filtered(conf, t, grid[place]) # t
          BY <2>1, <3>1, <3>5, <4>2
        <5>2. Still(t) /\ grid'[place] > conf["cellExpired"]
          BY <3>3, <5>1 DEF Filtered
        <5>3. seen'[place] > conf["cellExpired"]
          BY <3>4, <5>2
        <5> QED
          BY <3>1, <4>2, <5>2, <5>3
      <4> QED
        BY <4>1, <4>2
    <3>6. ASSUME NEW i \in DOMAIN input, i # next, list'[i] # input[i]
          PROVE  Still(input[i]) /\ i \in crowded'
      BY <2>1, <3>1, <3>6 DEF BlankedInv
    <3> QED
      BY <2>1, <3>5, <3>6 DEF BlankedInv
  <2>3. CASE ~Counted(conf, t)
    BY <1>1, <2>3 DEF CountTarget, BlankedInv, histVars
  <2> QED
    BY <2>2, <2>3
<1>2. CASE TakeFrame \/ Notify
  BY <1>2 DEF TakeFrame, Notify, BlankedInv
<1>3. CASE \/ StartUpdate \/ SkipUpdate \/ EndUpdate \/ Poll \/ SetField
           \/ Update \/ UNCHANGED vars
  BY <1>3 DEF StartUpdate, SkipUpdate, EndUpdate, Poll, PollEmpty, PollAges,
              SetField, Update, vars, histVars, BlankedInv
<1> QED
  BY <1>1, <1>2, <1>3 DEF Next, FilterFrame

\* What the filter withholds was still, where still targets had been counted
\* more often than cellExpired; paused, it withholds nothing.
THEOREM WithholdsOnlyStill == Spec => OnlyStillWithheld
<1>1. ASSUME TypeOK, PauseInv, BlankedInv, [Next]_vars,
             fpc = "notify", fpc' = "take", NEW i \in DOMAIN input,
             Published(conf, input[i]), input[i] \notin message'
      PROVE  ~updating /\ Still(input[i]) /\ i \in crowded
  <2>1. Notify
    BY <1>1 DEF Next, TakeFrame, FilterFrame, StartUpdate, SkipUpdate,
                CountTarget, EndUpdate, Poll, PollEmpty, PollAges, SetField,
                Update, vars, Move
  <2>2. i \in DOMAIN list /\ list[i] # input[i]
    BY <1>1, <2>1 DEF Notify, TypeOK
  <2> QED
    BY <1>1, <2>2 DEF BlankedInv, PauseInv
<1>2. TypeOK /\ PauseInv /\ BlankedInv /\ [Next]_vars =>
        [(fpc = "notify" /\ fpc' = "take") =>
           \A i \in DOMAIN input :
             (Published(conf, input[i]) /\ input[i] \notin message')
               => ~updating /\ Still(input[i]) /\ i \in crowded]_vars
  BY <1>1
<1> QED
  BY <1>2, ConfInit, ConfStep, TypeInit, TypeStep, PauseInit, PauseStep,
     SeenInit, SeenStep, BlankedStep, PTL DEF Spec, OnlyStillWithheld
=============================================================================
