--------------------------- MODULE SwitchStrategy ---------------------------
(***************************************************************************)
(* The three SwitchStrategies (switch_strategy.go) by which the monitor of *)
(* a DoubleBuffer decides whether to switch; DoubleBuffer_proofs shows     *)
(* what holds of them for every count, size and time.  The weights and the *)
(* threshold are another package's constants (0.4, 0.6 and 0.85 by the     *)
(* tests); here they are whole numbers of one unit, such as hundredths.    *)
(* The program divides in floating point what is multiplied crosswise      *)
(* here: rounding is left out.                                             *)
(***************************************************************************)
EXTENDS Integers

CONSTANTS TimeWeight, SizeWeight, FullCapacity

MinBufferSize == 1

(* DefaultStrategy: full, or due, or TimeWeight * elapsed / interval +     *)
(* SizeWeight * count / size has reached FullCapacity.                     *)
Size(bufferSize) == IF bufferSize < MinBufferSize THEN MinBufferSize ELSE bufferSize

Combined(count, size, elapsed, interval) ==
  TimeWeight * (elapsed * size) + SizeWeight * (count * interval)
    >= FullCapacity * (interval * size)

DefaultNeedSwitch(count, bufferSize, elapsed, interval) ==
  \/ count >= Size(bufferSize)
  \/ elapsed >= interval
  \/ Combined(count, Size(bufferSize), elapsed, interval)

SizeOnlyNeedSwitch(count, bufferSize, elapsed, interval) == count >= bufferSize

TimeWindowOnlyNeedSwitch(count, bufferSize, elapsed, interval) == elapsed >= interval
=============================================================================
