--------------------------- MODULE OccupancyGrid ---------------------------
(***************************************************************************)
(* The still-target filter of one radar (Occupancy.cpp): updateGrid counts *)
(* per cell of a polar grid how often a still target was seen there and    *)
(* blanks the targets of cells that have been occupied too long;           *)
(* updateGridData counts all cells down when no frames come; and           *)
(* formatMQTTMessage publishes what is left.                               *)
(*                                                                         *)
(* The dimensions of the grid are fixed when the device is added; the web  *)
(* form goes on changing the configuration they came from, one field at a  *)
(* time and while the filter thread is inside updateGrid: webFormProcess   *)
(* never calls pause().  The flag `updating' is only set by fromJSON, at   *)
(* startup, and stays set if fromJSON throws between pause and update.     *)
(*                                                                         *)
(* Lengths and angles are integers in the unit of the segment sizes;       *)
(* velocities are the classes the code tells apart.                        *)
(***************************************************************************)
EXTENDS Integers, Sequences

CONSTANTS
  StartConf,   \* the configuration when addDevice builds the grid
  Options,     \* per field of it, the values the web form may set
  MaxSets,     \* bound: fields the web form sets in a behaviour
  Targets,     \* the targets a radar may report
  MaxTargets,  \* bound: targets in one list
  MaxCount,    \* the largest maximum count ever configured
  IdleRounds   \* the 15 of "++update_loop > 15"

Fields == {"rangeMax", "rangeSeg", "angleMax", "angleSeg", "cellMax",
           "cellExpired"}

Confs == [Fields -> Nat]

Velocities == {"zero", "noise", "slow", "fast"}

TargetType == [range : Nat, angle : Int, v : Velocities]

ASSUME GridAssumption ==
  /\ StartConf \in Confs
  /\ StartConf["rangeSeg"] # 0 /\ StartConf["angleSeg"] # 0
  /\ Options \in [Fields -> SUBSET Nat]
  /\ MaxSets \in Nat
  /\ Targets \subseteq TargetType
  /\ MaxTargets \in Nat
  /\ MaxCount \in Nat
  /\ \A n \in Options["cellMax"] \cup {StartConf["cellMax"]} : n <= MaxCount
  /\ IdleRounds \in Nat

VARIABLES
  conf,        \* the configuration as the filter reads it now
  sets,        \* how many fields the web form has set
  updating,    \* the filter is paused
  grid,        \* occRefCounts
  fpc,         \* where the filter thread is
  input,       \* history: the list as it was taken from the queue
  list,        \* the same list, targets blanked by updateGrid
  next,        \* updateGrid's loop index
  updateLoop,  \* run's counter of empty polls
  message,     \* which targets notify published of the last list
  seen,        \* history: how often a still target was counted in a cell since
               \* its count was last zero
  crowded      \* history: the targets of the list in whose cell that was more
               \* often than it took to expire when they were counted

webVars == <<conf, sets, updating>>
histVars == <<seen, crowded>>
vars == <<webVars, grid, fpc, input, list, next, updateLoop, message, histVars>>

-----------------------------------------------------------------------------
(* The cell of a target: buildRefCountVector and the top of updateGrid. *)

Abs(a) == IF a < 0 THEN -a ELSE a

Rows == StartConf["rangeMax"] \div StartConf["rangeSeg"]

Cols == StartConf["angleMax"] \div StartConf["angleSeg"]

Half == Cols \div 2

Cells == (0 .. Rows - 1) \X (0 .. Cols - 1)

RangeIndex(c, t) == t.range \div c["rangeSeg"]

AngleSteps(c, t) == Abs(t.angle) \div c["angleSeg"]

AngleIndex(c, t) == IF t.angle < 0 THEN Half - AngleSteps(c, t)
                                   ELSE Half + AngleSteps(c, t)

\* Inside the configured sector.  A segment size of zero, which the form
\* accepts, divides a float by zero; the conversion of the result to int gives
\* INT_MIN on x86 and every index guard then turns the target away.
InSector(c, t) ==
  /\ Abs(t.angle) <= c["angleMax"] \div 2
  /\ t.range <= c["rangeMax"]
  /\ c["rangeSeg"] # 0 /\ c["angleSeg"] # 0

\* The index guards before the two that also decrement.
InGrid_NoRangeGuard(c, t) ==
  /\ t.angle < 0 => AngleSteps(c, t) <= Half
  /\ AngleIndex(c, t) <= Cols

InGrid(c, t) ==
  /\ t.angle < 0 => AngleSteps(c, t) <= Half
  /\ AngleIndex(c, t) <= Cols
  /\ RangeIndex(c, t) <= Rows

\* updateGrid counts the target; otherwise it "continue"s.
Counted(c, t) == /\ InSector(c, t) /\ InGrid(c, t)
                 /\ RangeIndex(c, t) > 0 /\ AngleIndex(c, t) > 0

CellOf(c, t) == <<RangeIndex(c, t) - 1, AngleIndex(c, t) - 1>>

-----------------------------------------------------------------------------
(* The count of a cell and what it does to a target. *)

\* A velocity around 0.151 is an artefact of the radar, taken for zero.
Still(t) == t.v \in {"zero", "noise"}

NewCount_NotSticky(c, t, n) ==
  IF Still(t) THEN IF n < c["cellMax"] THEN n + 1 ELSE n
              ELSE IF n > 0 THEN n - 1 ELSE n

NewCount_Unguarded(c, t, n) ==
  IF Still(t) THEN IF n < c["cellMax"] THEN n + 1 ELSE n
              ELSE IF n < c["cellExpired"] THEN n - 1 ELSE n

NewCount(c, t, n) ==
  IF Still(t) THEN IF n < c["cellMax"] THEN n + 1 ELSE n
              ELSE IF n < c["cellExpired"] /\ n > 0 THEN n - 1 ELSE n

Blank == [range |-> 0, angle |-> 0, v |-> "zero"]

Filtered_AnyCell(c, t, n) == IF Still(t) THEN Blank ELSE t

Filtered(c, t, n) ==
  IF Still(t) /\ NewCount(c, t, n) > c["cellExpired"] THEN Blank ELSE t

\* What formatMQTTMessage puts into the message.
Published(c, t) == t.v # "fast" /\ t.range < c["rangeMax"] /\ t.range # 0

-----------------------------------------------------------------------------
Lists == UNION {[1 .. n -> Targets] : n \in 0 .. MaxTargets}

\* The types; a count neither underflows nor exceeds every configured maximum.
TypeOK ==
  /\ conf \in Confs
  /\ sets \in 0 .. MaxSets
  /\ updating \in BOOLEAN
  /\ grid \in [Cells -> 0 .. MaxCount]
  /\ fpc \in {"take", "check", "targets", "notify"}
  /\ input \in Seq(TargetType)
  /\ list \in Seq(TargetType) /\ Len(list) = Len(input)
  /\ next \in 1 .. Len(list) + 1
  /\ updateLoop \in 0 .. IdleRounds
  /\ message \subseteq TargetType
  /\ seen \in [Cells -> 0 .. MaxCount]
  /\ crowded \subseteq 1 .. Len(list)

\* updating is set from the start if the configuration file broke off between
\* pause and update.
Init ==
  /\ conf = StartConf
  /\ sets = 0
  /\ updating \in BOOLEAN
  /\ grid = [cell \in Cells |-> 0]
  /\ fpc = "take"
  /\ input = <<>>
  /\ list = <<>>
  /\ next = 1
  /\ updateLoop = 0
  /\ message = {}
  /\ seen = [cell \in Cells |-> 0]
  /\ crowded = {}

-----------------------------------------------------------------------------
(* The filter thread. *)

Move(from, to) == fpc = from /\ fpc' = to

\* run takes an item of this device from the queue (OccupancyQueue).
TakeFrame ==
  /\ Move("take", "check")
  /\ input' \in Lists
  /\ list' = input'
  /\ next' = 1
  /\ message' = {}
  /\ crowded' = {}
  /\ UNCHANGED <<webVars, grid, updateLoop, seen>>

StartUpdate ==
  /\ Move("check", "targets")
  /\ ~updating
  /\ UNCHANGED <<webVars, grid, input, list, next, updateLoop, message, histVars>>

SkipUpdate ==
  /\ Move("check", "notify")
  /\ updating
  /\ UNCHANGED <<webVars, grid, input, list, next, updateLoop, message, histVars>>

\* What becomes of n sightings in a cell when t has made its count m (capped at
\* MaxCount: no count and no limit that it is compared with goes further).
Sightings(t, n, m) ==
  IF m = 0 THEN 0 ELSE IF Still(t) /\ n < MaxCount THEN n + 1 ELSE n

\* One turn of updateGrid's loop.
CountTarget ==
  /\ fpc = "targets"
  /\ next <= Len(list)
  /\ next' = next + 1
  /\ LET t == list[next]
         cell == CellOf(conf, t)
     IN  IF Counted(conf, t)
         THEN /\ list' = [list EXCEPT ![next] = Filtered(conf, t, grid[cell])]
              /\ grid' = [grid EXCEPT ![cell] = NewCount(conf, t, @)]
              /\ seen' = [seen EXCEPT ![cell] = Sightings(t, @, grid'[cell])]
              /\ crowded' = IF seen'[cell] > conf["cellExpired"]
                            THEN crowded \cup {next} ELSE crowded
         ELSE UNCHANGED <<list, grid, histVars>>
  /\ UNCHANGED <<webVars, fpc, input, updateLoop, message>>

EndUpdate ==
  /\ Move("targets", "notify")
  /\ next > Len(list)
  /\ UNCHANGED <<webVars, grid, input, list, next, updateLoop, message, histVars>>

\* notify: the surviving targets become a message (none if there are none);
\* then run deletes the list.
Notify ==
  /\ Move("notify", "take")
  /\ message' = {list[i] : i \in {k \in DOMAIN list : Published(conf, list[k])}}
  /\ input' = <<>>
  /\ list' = <<>>
  /\ next' = 1
  /\ crowded' = {}
  /\ UNCHANGED <<webVars, grid, updateLoop, seen>>

\* An empty poll that only counts.
PollEmpty ==
  /\ fpc = "take"
  /\ updateLoop < IdleRounds
  /\ updateLoop' = updateLoop + 1
  /\ UNCHANGED <<webVars, grid, fpc, input, list, next, message, histVars>>

\* updateGridData.
Aged_OnlyExpired == [cell \in Cells |-> IF grid[cell] > conf["cellExpired"]
                                        THEN grid[cell] - 1 ELSE grid[cell]]

Aged == [cell \in Cells |-> IF grid[cell] > 0 THEN grid[cell] - 1
                                              ELSE grid[cell]]

\* The empty poll that ages the grid, unless the filter is paused.
PollAges ==
  /\ fpc = "take"
  /\ updateLoop = IdleRounds
  /\ updateLoop' = 0
  /\ grid' = IF updating THEN grid ELSE Aged
  /\ seen' = [cell \in Cells |-> IF grid'[cell] = 0 THEN 0 ELSE seen[cell]]
  /\ UNCHANGED <<webVars, fpc, input, list, next, message, crowded>>

Poll == PollEmpty \/ PollAges

FilterFrame == \/ StartUpdate \/ SkipUpdate \/ CountTarget \/ EndUpdate
               \/ Notify

-----------------------------------------------------------------------------
(* The web form: webFormProcess sets fields, handleAll ends with update(). *)

SetField ==
  /\ sets < MaxSets
  /\ sets' = sets + 1
  /\ \E f \in Fields : \E n \in Options[f] : conf' = [conf EXCEPT ![f] = n]
  /\ UNCHANGED <<updating, grid, fpc, input, list, next, updateLoop, message,
                 histVars>>

Update ==
  /\ updating
  /\ updating' = FALSE
  /\ UNCHANGED <<conf, sets, grid, fpc, input, list, next, updateLoop, message,
                 histVars>>

-----------------------------------------------------------------------------
Next == TakeFrame \/ FilterFrame \/ Poll \/ SetField \/ Update

Spec == Init /\ [][Next]_vars

(* The filter thread runs until the process ends: it finishes the frame it *)
(* took, and polls when there is none.  Nothing makes frames or forms come.*)
Fairness == WF_vars(FilterFrame) /\ WF_vars(Poll)

FairSpec == Spec /\ Fairness

-----------------------------------------------------------------------------
(* Correctness. *)

\* Whatever the form has made of the configuration, a counted target falls
\* into the grid that was sized when the device was added.
InBounds == \A t \in Targets : Counted(conf, t) => CellOf(conf, t) \in Cells

\* Movement is reported: a target that moves (below the maximum
\* velocity and inside the range) is in the message of its list, also when its
\* cell has expired and with the configuration changing under the filter.
MovingPublished ==
  [][(fpc = "notify" /\ fpc' = "take") =>
       \A i \in DOMAIN input :
         (~Still(input[i]) /\ Published(conf, input[i]))
           => input[i] \in message']_vars

\* A cell that has expired is not freed by targets moving through it, only by
\* idle polls: its count falls in no step of updateGrid.
StickyCells ==
  [][\A cell \in Cells :
       (grid[cell] >= conf["cellExpired"] /\ grid'[cell] < grid[cell])
         => fpc = "take"]_vars

\* A filter that a broken configuration file left paused withholds nothing,
\* however often a still target returns: the message is the whole of the list
\* within the limits, until a saved form ends the pause.
PausedPassesAll ==
  [][(fpc = "notify" /\ fpc' = "take" /\ updating) =>
       message' = {input[i] : i \in {k \in DOMAIN input :
                                       Published(conf, input[k])}}]_vars

\* Only what has stayed is withheld: a target within the limits that its
\* message lacks was still, and still targets had been counted in its cell more
\* often than cellExpired since the cell was last empty, as the form had set
\* cellExpired and the segments when the target was counted; and a paused
\* filter withholds none.
OnlyStillWithheld ==
  [][(fpc = "notify" /\ fpc' = "take") =>
       \A i \in DOMAIN input :
         (Published(conf, input[i]) /\ input[i] \notin message')
           => ~updating /\ Still(input[i]) /\ i \in crowded]_vars

\* With no more frames and the filter not paused, every cell fades to zero and
\* stays there: a place that is left is forgotten.
CellsFade ==
  (<>[](fpc = "take" /\ ~updating)) => <>[](\A cell \in Cells : grid[cell] = 0)
=============================================================================
