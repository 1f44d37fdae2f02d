------------------------------- MODULE FrameRate -------------------------------
(***************************************************************************)
(* uEyeHandle::setFPS (src/ueye_handle.cpp): sets the frame rate of a      *)
(* camera and, if the pixel clock does not allow for it, raises the clock  *)
(* step by step until it does. Every call of the driver may fail, which    *)
(* leaves the camera with whatever has been set by then.                   *)
(*                                                                         *)
(* Rates are natural numbers: the code compares doubles and computes with  *)
(* none but the reciprocals of the driver's frame times.                   *)
(***************************************************************************)
EXTENDS Naturals, Sequences

CONSTANTS
  Ranges,    \* the ranges [min, max, inc] of cameras with regular pixel clocks
  Lists,     \* lists of clocks, of cameras that have only a few or report a range too
  Limits,    \* the highest frame rate at each pixel clock
  Requests,  \* the rates that the application asks for
  MayFail    \* the calls that may fail

Ascending(s) == \A i, j \in 1 .. Len(s) : i < j => s[i] < s[j]
Elements(s) == {s[i] : i \in 1 .. Len(s)}

\* The clocks of a range: its maximum may or may not be one of them.
Grid(r) == {c \in r.min .. r.max : (c - r.min) % r.inc = 0}

\* Every clock of any of the cameras.
Clocks == UNION ({Grid(r) : r \in Ranges} \cup {Elements(s) : s \in Lists})

(* The driver reports clocks in MHz: no sum of the code leaves an unsigned   *)
(* int. A list is reported in ascending order.                               *)
ASSUME FrameRateAssumption ==
  /\ Ranges \subseteq [min : Nat, max : Nat, inc : Nat \ {0}]
  /\ \A r \in Ranges : r.min <= r.max
  /\ \A s \in Lists : s \in Seq(Nat) /\ s # <<>> /\ Ascending(s)
  /\ \A l \in Limits, c \in Clocks : l[c] \in Nat
  /\ Requests \subseteq Nat

NoRange == [min |-> 0, max |-> 0, inc |-> 0]

\* What a camera with range r may answer if it is asked for a list: none, or the
\* clocks of the range.
ListsOf(r) == {<<>>} \cup {s \in Lists : Elements(s) = Grid(r)}

VARIABLES
  \* the camera
  range,    \* its pixel clock range; NoRange: discrete clocks only
  list,     \* the list it reports, or <<>>
  limit,    \* its highest frame rate at each clock
  clk,      \* its pixel clock
  rate,     \* its frame rate
  \* setFPS
  pc,       \* its next step
  fps,      \* its parameter FPS
  maxFPS,   \* the highest frame rate at the current clock
  clkList,  \* the clocks found
  clkOpts,  \* those still to be tried
  outcome,  \* how the last call ended
  \* history
  old       \* the pixel clock before the call

cameraVars == <<range, list, limit, clk, rate>>
vars == <<cameraVars, pc, fps, maxFPS, clkList, clkOpts, outcome, old>>

\* The pixel clocks of the camera.
Available == IF range = NoRange THEN Elements(list) ELSE Grid(range)

TypeOK ==
  /\ range \in Ranges \cup {NoRange} /\ list \in Lists \cup {<<>>}
  /\ limit \in Limits
  /\ clk \in Available
  /\ rate \in Nat
  /\ pc \in {"idle", "first_range", "get_clock", "get_range", "fill", "get_number", "get_list",
             "choose", "loop", "next_range", "set_rate"}
  /\ fps \in Requests \cup {0} /\ maxFPS \in Nat
  /\ clkList \in Seq(Nat) /\ clkOpts \in Seq(Nat)
  /\ outcome \in {"none", "returned", "thrown"}
  /\ old \in Available

Init ==
  /\ \/ range \in Ranges /\ list \in ListsOf(range)
     \/ range = NoRange /\ list \in Lists
  /\ limit \in Limits
  /\ clk \in Available /\ rate = 0
  /\ pc = "idle" /\ fps = 0 /\ maxFPS = 0
  /\ clkList = <<>> /\ clkOpts = <<>>
  /\ outcome = "none" /\ old = clk

-------------------------------------------------------------------------------
(* Mutated forms of definitions below. *)

MutInRange(c) == c < range.max                        \* the maximum is left out
MutOnce == ~(maxFPS < fps) \/ clk > old                \* if instead of while
MutRaiseAll == FALSE                                  \* goes on to the highest clock
MutRemaining == clkOpts                               \* no pop_front

-------------------------------------------------------------------------------

Goto(step) == pc' = step

Call(f) ==
  /\ pc = "idle"
  /\ fps' = f /\ old' = clk
  /\ clkList' = <<>> /\ clkOpts' = <<>>
  /\ Goto("first_range")
  /\ UNCHANGED <<cameraVars, maxFPS, outcome>>

\* The requested rate is not possible with the current pixel clock.
TooSlow(max) == max < fps

GetFrameTimeRange ==
  /\ pc = "first_range"
  /\ maxFPS' = limit[clk]
  /\ Goto(IF TooSlow(limit[clk]) THEN "get_clock" ELSE "set_rate")
  /\ UNCHANGED <<cameraVars, fps, clkList, clkOpts, outcome, old>>

\* IS_PIXELCLOCK_CMD_GET: the code's clk is a copy of the camera's from here on,
\* and no other call changes that before the options are chosen.
GetPixelClock ==
  /\ pc = "get_clock"
  /\ Goto("get_range")
  /\ UNCHANGED <<cameraVars, fps, maxFPS, clkList, clkOpts, outcome, old>>

GetRange ==
  /\ pc = "get_range"
  /\ range # NoRange
  /\ Goto("fill")
  /\ UNCHANGED <<cameraVars, fps, maxFPS, clkList, clkOpts, outcome, old>>

\* The loop that builds the list from the range.
InRange(c) == c <= range.max
NextClock == range.min + Len(clkList) * range.inc

PushClock ==
  /\ pc = "fill"
  /\ InRange(NextClock)
  /\ clkList' = Append(clkList, NextClock)
  /\ UNCHANGED <<cameraVars, pc, fps, maxFPS, clkOpts, outcome, old>>

Filled ==
  /\ pc = "fill"
  /\ ~InRange(NextClock)
  /\ Goto("choose")
  /\ UNCHANGED <<cameraVars, fps, maxFPS, clkList, clkOpts, outcome, old>>

\* "got no info": the increment is 0, or the call has failed.
NoRangeInfo ==
  /\ pc = "get_range"
  /\ range = NoRange \/ "IS_PIXELCLOCK_CMD_GET_RANGE" \in MayFail
  /\ Goto("get_number")
  /\ UNCHANGED <<cameraVars, fps, maxFPS, clkList, clkOpts, outcome, old>>

GetNumber ==
  /\ pc = "get_number"
  /\ list # <<>>
  /\ Goto("get_list")
  /\ UNCHANGED <<cameraVars, fps, maxFPS, clkList, clkOpts, outcome, old>>

GetList ==
  /\ pc = "get_list"
  /\ clkList' = list
  /\ Goto("choose")
  /\ UNCHANGED <<cameraVars, fps, maxFPS, clkOpts, outcome, old>>

Greater(c) == c > clk

\* find_if: the options are what follows the first clock above the current one.
Choose ==
  /\ pc = "choose"
  /\ LET found == {i \in 1 .. Len(clkList) : Greater(clkList[i])}
     IN \/ found = {} /\ clkOpts' = <<>>
        \/ \E i \in found :
             /\ \A j \in found : i <= j
             /\ clkOpts' = SubSeq(clkList, i, Len(clkList))
  /\ Goto("loop")
  /\ UNCHANGED <<cameraVars, fps, maxFPS, clkList, outcome, old>>

Suffices == ~TooSlow(maxFPS)
Exhausted == clkOpts = <<>>

SetPixelClock ==
  /\ pc = "loop"
  /\ ~Suffices /\ ~Exhausted
  /\ clk' = Head(clkOpts)
  /\ Goto("next_range")
  /\ UNCHANGED <<range, list, limit, rate, fps, maxFPS, clkList, clkOpts, outcome, old>>

Remaining == Tail(clkOpts)

GetNextRange ==
  /\ pc = "next_range"
  /\ maxFPS' = limit[clk]
  /\ clkOpts' = Remaining
  /\ Goto("loop")
  /\ UNCHANGED <<cameraVars, fps, clkList, outcome, old>>

LoopEnds ==
  /\ pc = "loop"
  /\ Suffices \/ Exhausted
  /\ Goto("set_rate")
  /\ UNCHANGED <<cameraVars, fps, maxFPS, clkList, clkOpts, outcome, old>>

\* The driver sets the highest rate it can up to the requested one.
SetFrameRate ==
  /\ pc = "set_rate"
  /\ rate' = IF fps <= limit[clk] THEN fps ELSE limit[clk]
  /\ outcome' = "returned"
  /\ Goto("idle")
  /\ UNCHANGED <<range, list, limit, clk, fps, maxFPS, clkList, clkOpts, old>>

\* A call fails, or reports no clocks at all: an exception is thrown.
Fails ==
  /\ \/ pc \in {"first_range", "next_range"} /\ "is_GetFrameTimeRange" \in MayFail
     \/ pc = "get_clock" /\ "IS_PIXELCLOCK_CMD_GET" \in MayFail
     \/ pc = "get_number" /\ (list = <<>> \/ "IS_PIXELCLOCK_CMD_GET_NUMBER" \in MayFail)
     \/ pc = "get_list" /\ "IS_PIXELCLOCK_CMD_GET_LIST" \in MayFail
     \/ pc = "loop" /\ ~Suffices /\ ~Exhausted /\ "IS_PIXELCLOCK_CMD_SET" \in MayFail
     \/ pc = "set_rate" /\ "is_SetFrameRate" \in MayFail
  /\ outcome' = "thrown"
  /\ Goto("idle")
  /\ UNCHANGED <<cameraVars, fps, maxFPS, clkList, clkOpts, old>>

setFPS ==
  \/ GetFrameTimeRange \/ GetPixelClock \/ GetRange \/ PushClock \/ Filled \/ NoRangeInfo
  \/ GetNumber \/ GetList \/ Choose \/ SetPixelClock \/ GetNextRange \/ LoopEnds
  \/ SetFrameRate \/ Fails

Next == (\E f \in Requests : Call(f)) \/ setFPS

Spec == Init /\ [][Next]_vars

\* The application's thread is scheduled; it need not call setFPS.
FairSpec == Spec /\ WF_vars(setFPS)

-------------------------------------------------------------------------------
(* Properties. *)

\* The list the options are taken from has every clock of the camera, in
\* ascending order, whether computed from the range - whose maximum may or may
\* not be on the grid - or queried, because there is none or its query has failed.
ClocksComplete ==
  pc \in {"choose", "loop", "next_range"} => Elements(clkList) = Available /\ Ascending(clkList)

\* At every step, and after a call that has thrown in the middle: the pixel clock
\* has not been lowered, and no lower one than it, from the initial one on, would
\* have done ("lowest pixel clock capable of supporting desired FPS",
\* ueye_handle.cpp:760).
NoOvershoot ==
  /\ old <= clk
  /\ \A c \in Available : old <= c /\ c < clk => limit[c] < fps

\* The types, the list of clocks and the search in it, step by step.
RateInv == TypeOK /\ ClocksComplete /\ NoOvershoot

\* setFPS returns with less than the requested rate only if no clock of the
\* camera, from the initial one on, allows for it.
FallsShortOnlyIfMust ==
  pc = "idle" /\ outcome = "returned" /\ rate < fps =>
    \A c \in Available : old <= c => limit[c] < fps

(* The parts of an inductive invariant. *)

\* A camera has a range or a list, or a list that agrees with its range, and the loop
\* has filled part of the grid, or nothing yet.
ClocksFound ==
  /\ IF range = NoRange THEN list \in Lists ELSE range \in Ranges /\ list \in ListsOf(range)
  /\ pc \in {"first_range", "get_clock", "get_range", "get_number", "get_list"} => clkList = <<>>
  /\ pc = "get_list" => list # <<>>
  /\ pc = "fill" =>
       /\ range # NoRange
       /\ \A i \in 1 .. Len(clkList) :
            clkList[i] = range.min + (i - 1) * range.inc /\ clkList[i] <= range.max

\* The options are the clocks above the current one; the head of the list is the
\* current one between is_PixelClock and pop_front.
OptionsRight ==
  /\ pc = "loop" => Ascending(clkOpts) /\ Elements(clkOpts) = {c \in Available : c > clk}
  /\ pc = "next_range" =>
       /\ clkOpts # <<>> /\ Head(clkOpts) = clk
       /\ Ascending(clkOpts) /\ Elements(clkOpts) = {c \in Available : c >= clk}

\* What is known of the rate at the current clock.
RateKnown ==
  /\ pc \in {"get_clock", "get_range", "fill", "get_number", "get_list", "choose"} => maxFPS < fps
  /\ pc \in {"first_range", "get_clock", "get_range", "fill", "get_number", "get_list", "choose"} =>
       clk = old
  /\ pc \in {"get_clock", "get_range", "fill", "get_number", "get_list", "choose", "loop"} =>
       maxFPS = limit[clk]
  /\ pc = "set_rate" => fps <= limit[clk] \/ \A c \in Available : old <= c => limit[c] < fps

FInv == RateInv /\ ClocksFound /\ OptionsRight /\ RateKnown /\ FallsShortOnlyIfMust

\* Every call returns or throws: the search ends.
CallEnds == pc # "idle" ~> pc = "idle"
================================================================================
