------------------------------ MODULE VadNoise ------------------------------
(***************************************************************************)
(* meowcaller/mlow/vad.go: the noise level the VAD tracks in one band, in  *)
(* fixed-point arithmetic that divides by what it has computed before.     *)
(* The bands share nothing but the frame counter, so one stands for all.   *)
(* Widths are constants: Int32Max is silkInt32Max, Int16Max silkInt16Max   *)
(* and Unit the 2^16 that smulwb, smlawb and smulww shift by.              *)
(***************************************************************************)
EXTENDS Integers

CONSTANTS Int32Max, Int16Max, Unit,
          SmoothCoef,   \* vadNoiseLevelSmoothCoefQ16
          NlCap,        \* 0x00FFFFFF
          Bias,         \* noiseLevelBias of the band
          FirstNl,      \* nl of the band in a new state (100 * Bias)
          FirstCounter, \* counter in a new state
          CounterStep,  \* the counter is divided by this (16)
          CounterMax,   \* the counter stops here (1000)
          Energies      \* the energies a frame may have in the band

NoiseAssumption ==
  /\ {Int32Max, Int16Max, Unit, SmoothCoef, NlCap, Bias, FirstNl, CounterStep} \subseteq Nat \ {0}
  /\ {FirstCounter, CounterMax} \subseteq Nat
  /\ Int16Max < Unit /\ 2 * Int32Max < Unit * Unit
  /\ 8 * NlCap <= Int32Max /\ Bias <= FirstNl /\ FirstNl <= NlCap
  /\ SmoothCoef <= Int16Max
  /\ Energies \subseteq 0..Int32Max

VARIABLES counter,  \* SmplVadState.counter
          nl,       \* SmplVadState.nl of the band
          invNl     \* SmplVadState.invNl of the band

vars == <<counter, nl, invNl>>

least(x, y) == IF x <= y THEN x ELSE y
most(x, y) == IF x >= y THEN x ELSE y

\* The fixed-point primitives, for operands that need no wrapping (NoiseInRange).
\* noiseLvlUpdateSpeed is never set, so the coefficient is not scaled by it.
addPosSat32(a, b) == least(a + b, Int32Max)
smulwb(a, b) == (a * b) \div Unit
smulww(a, b) == (a * b) \div Unit
smlawb(a, b, c) == a + (b * c) \div Unit

\* NewSmplVadState
Init == /\ counter = FirstCounter
        /\ nl = FirstNl
        /\ invNl = Int32Max \div FirstNl

\* The least smoothing coefficient, which is large for the first frames.
minCoef == IF counter < CounterMax THEN Int16Max \div (counter \div CounterStep + 1) ELSE 0

\* What the level is compared with: the energy and the bias of the band.
energy(x) == addPosSat32(x, Bias)

\* How fast the level follows: slowly up to a burst, fast down to silence.
smoothing(nrg) ==
  IF nrg > nl * 8 THEN SmoothCoef \div 8
  ELSE IF nrg < nl THEN SmoothCoef
  ELSE smulwb(smulww(Int32Max \div nrg, nl), SmoothCoef * 2)

\* Mutant of level: the level is not capped.
levelUncapped(inv) == Int32Max \div inv

level(inv) == least(Int32Max \div inv, NlCap)

\* The inverse level, a step nearer to the inverse energy.
smoothed(nrg) == smlawb(invNl, Int32Max \div nrg - invNl, most(smoothing(nrg), minCoef))

\* getNoiseLevels on a frame of energy x in the band.
getNoiseLevels(x) ==
  /\ invNl' = smoothed(energy(x))
  /\ nl' = level(invNl')
  /\ counter' = IF counter < CounterMax THEN counter + 1 ELSE counter

Next == \E x \in Energies : getNoiseLevels(x)

Spec == Init /\ [][Next]_vars

-----------------------------------------------------------------------------
\* Whatever energies came before, the next frame divides by positive numbers
\* only (the inverse level never reaches 0, neither does the energy) and nothing
\* wraps: the level may be shifted left by 3, the inverse level steps towards
\* the inverse energy and never past that of the bias, and every coefficient
\* fits the 16 bits smlawb takes of it.
NoiseInRange ==
  /\ invNl \in 1..(Int32Max \div Bias)
  /\ nl >= 1 /\ nl * 8 <= Int32Max
  /\ \A x \in Energies : energy(x) >= 1 /\ most(smoothing(energy(x)), minCoef) \in 0..Int16Max
=============================================================================
