-------------------------- MODULE SequentialProofs --------------------------
(***************************************************************************)
(* The parts of MCSequential, for every value of the constants: the order  *)
(* of a call's phases, the noise tracker and the hangover of the voice     *)
(* detection, one damaged packet, the send-side sequencer, the packet      *)
(* classifiers, the H.264 depacketizer, RTP headers and the Annex-B scan.  *)
(* Only one part moves, so each has an invariant of its own, guarded by    *)
(* part.                                                                   *)
(***************************************************************************)
EXTENDS MCSequential, FiniteSetTheorems, WellFoundedInduction, TLAPS

\* A step of the run is a step of the part that moves, and of no other.
LEMMA OnePartMoves ==
  ASSUME [SequentialNext]_allVars
  PROVE  /\ part' = part
         /\ part = "CallSession" => [Next]_vars
         /\ part = "RtpSender" => [Sender!Next]_(Sender!vars)
         /\ part = "RelayDemux" => [Demux!Next]_(Demux!vars)
         /\ part = "VadNoise" => [Noise!Next]_(Noise!vars)
         /\ part = "VadHangover" => [Hangover!Next]_(Hangover!vars)
         /\ part = "H264" => [Video!Next]_(Video!vars)
         /\ part = "DamagedPath" => [Noisy!Next]_(Noisy!vars)
         /\ part = "MlowToc" => [Toc!Next]_(Toc!vars)
<1>1. CASE UNCHANGED allVars
  BY <1>1 DEF allVars, vars, senderVars, Sender!vars, demuxVars, Demux!vars, noiseVars, Noise!vars,
              hangoverVars, Hangover!vars, videoVars, Video!vars, noisyVars, Noisy!vars,
              tocVars, Toc!vars
<1>2. CASE SequentialNext
  BY <1>2 DEF SequentialNext, SessionStep, SenderStep, AnnexStep, DemuxStep, NoiseStep, HangoverStep,
              VideoStep, StunStep, KeyStep, NoisyStep, CodecStep, TocStep, Only
<1> QED
  BY <1>1, <1>2

\* The same for the parts that read and write byte formats.
LEMMA WirePartMoves ==
  ASSUME [SequentialNext]_allVars
  PROVE  /\ part' = part
         /\ part = "AnnexB" => [Annex!Next]_(Annex!vars)
         /\ part = "StunMessage" => [Stun!Next]_(Stun!vars)
         /\ part = "Keystream" => [Keys!Next]_(Keys!vars)
         /\ part = "RtpHeader" => [Codec!Next]_(Codec!vars)
<1>1. CASE UNCHANGED allVars
  BY <1>1 DEF allVars, annexVars, Annex!vars, stunVars, Stun!vars, keyVars, Keys!vars, codecVars, Codec!vars
<1>2. CASE SequentialNext
  BY <1>2 DEF SequentialNext, SessionStep, SenderStep, AnnexStep, DemuxStep, NoiseStep, HangoverStep,
              VideoStep, StunStep, KeyStep, NoisyStep, CodecStep, TocStep, Only
<1> QED
  BY <1>1, <1>2

-----------------------------------------------------------------------------
(* CallSession.                                                            *)

\* visited says how far a call has come, so no phase ahead of a call is in it.
Ahead(p) == CASE p = "Idle" -> {"Calling", "Ringing", "Connecting", "Active", "Ended"}
              [] p = "Calling" -> {"Ringing", "Connecting", "Active", "Ended"}
              [] p = "Ringing" -> {"Connecting", "Active", "Ended"}
              [] p = "Connecting" -> {"Active", "Ended"}
              [] p = "Active" -> {"Ended"}
              [] OTHER -> {}

NothingAhead == \A c \in Calls : visited[c] \cap Ahead(phase[c]) = {}

SessionInv == TypeOK /\ SetupInOrder /\ NothingAhead /\ \A c \in Calls : phase[c] \in visited[c]

\* One transition of one call.
LEMMA TransitionInOrder ==
  ASSUME SessionInv, NEW c \in Calls, NEW to \in Phases, TransitionTo(c, to)
  PROVE  /\ SessionInv'
         /\ \A d \in Calls : phase'[d] # phase[d] => phase[d] # "Ended" /\ phase'[d] \notin visited[d]
<1>1. /\ phase' = [phase EXCEPT ![c] = to] /\ visited' = [visited EXCEPT ![c] = @ \cup {to}]
      /\ direction' = direction /\ Legal(direction[c], phase[c], to)
  BY DEF TransitionTo
<1>2. \A d \in Calls : d # c => phase'[d] = phase[d] /\ visited'[d] = visited[d]
  BY <1>1 DEF SessionInv, TypeOK
<1>3. phase'[c] = to /\ visited'[c] = visited[c] \cup {to}
  BY <1>1 DEF SessionInv, TypeOK
<1>4. TypeOK'
  BY <1>1 DEF SessionInv, TypeOK
<1>5. /\ Before(direction[c], to) \subseteq visited[c] \cup {to}
      /\ direction[c] = "incoming" => (visited[c] \cup {to}) \cap {"Idle", "Calling"} = {}
  <2>1. /\ Before(direction[c], phase[c]) \subseteq visited[c] /\ phase[c] \in visited[c]
        /\ direction[c] = "incoming" => visited[c] \cap {"Idle", "Calling"} = {}
        /\ direction[c] \in {"outgoing", "incoming"}
    BY DEF SessionInv, SetupInOrder, TypeOK
  <2> QED
    BY <1>1, <2>1 DEF Legal, Before
<1>6. phase[c] \in Phases /\ visited[c] \cap Ahead(phase[c]) = {}
  BY DEF SessionInv, TypeOK, NothingAhead
<1>7. (visited[c] \cup {to}) \cap Ahead(to) = {}
  BY <1>1, <1>6 DEF Legal, Ahead, Phases
<1>a. phase[c] # "Ended" /\ (to # phase[c] => to \in Ahead(phase[c]))
  <2>1. CASE phase[c] = "Idle"
    BY <1>1, <2>1 DEF Legal, Ahead, Phases
  <2>2. CASE phase[c] = "Calling"
    BY <1>1, <2>2 DEF Legal, Ahead, Phases
  <2>3. CASE phase[c] = "Ringing"
    BY <1>1, <2>3 DEF Legal, Ahead, Phases
  <2>4. CASE phase[c] = "Connecting"
    BY <1>1, <2>4 DEF Legal, Ahead, Phases
  <2>5. CASE phase[c] = "Active"
    BY <1>1, <2>5 DEF Legal, Ahead, Phases
  <2> QED
    BY <1>1, <1>6, <2>1, <2>2, <2>3, <2>4, <2>5 DEF Legal, Phases
<1>b. to # phase[c] => phase[c] # "Ended" /\ to \notin visited[c]
  BY <1>6, <1>a
<1>8. SetupInOrder'
  BY <1>1, <1>2, <1>3, <1>5 DEF SessionInv, SetupInOrder
<1>9. NothingAhead' /\ \A d \in Calls : phase'[d] \in visited'[d]
  BY <1>2, <1>3, <1>7 DEF SessionInv, NothingAhead
<1> QED
  BY <1>2, <1>3, <1>4, <1>b, <1>8, <1>9 DEF SessionInv

\* A call is set up phase by phase, in order, and goes through each phase once.
THEOREM CallsMoveForward == Spec => []SetupInOrder /\ NeverBack
<1>1. Init => SessionInv
  BY DEF Init, SessionInv, TypeOK, SetupInOrder, NothingAhead, Phases, Before, Ahead
<1>2. SessionInv /\ [Next]_vars => SessionInv'
  <2>1. SessionInv /\ UNCHANGED vars => SessionInv'
    BY DEF SessionInv, TypeOK, SetupInOrder, NothingAhead, vars
  <2> QED
    BY <2>1, TransitionInOrder DEF Next
<1>3. SessionInv /\ [Next]_vars =>
        [\A c \in Calls : phase'[c] # phase[c] => phase[c] # "Ended" /\ phase'[c] \notin visited[c]]_vars
  BY TransitionInOrder DEF Next
<1>4. SessionInv => SetupInOrder
  BY DEF SessionInv
<1> QED
  BY <1>1, <1>2, <1>3, <1>4, PTL DEF Spec, NeverBack

-----------------------------------------------------------------------------
(* VadNoise.                                                               *)

\* What \div means for a positive divisor.
LEMMA FloorDiv ==
  ASSUME NEW a \in Int, NEW b \in Nat \ {0}
  PROVE  /\ a \div b \in Int
         /\ b * (a \div b) <= a /\ a < b * (a \div b) + b
         /\ a >= 0 => a \div b \in 0..a
         /\ a >= b => a \div b >= 1
<1>1. a \div b \in Int
  OBVIOUS
<1>2. b * (a \div b) <= a /\ a < b * (a \div b) + b
  BY Z3T(30)
<1>3. ASSUME a >= 0, a \div b <= -1 PROVE FALSE
  <2>1. b * (a \div b) <= b * (-1)
    BY <1>1, <1>3
  <2> QED
    BY <1>1, <1>2, <1>3, <2>1
<1>4. ASSUME a >= 0, a \div b > a PROVE FALSE
  <2>1. b * (a \div b) >= 1 * (a \div b)
    BY <1>1, <1>4
  <2> QED
    BY <1>1, <1>2, <1>4, <2>1
<1>5. ASSUME a >= b, a \div b <= 0 PROVE FALSE
  <2>1. b * (a \div b) <= 0
    BY <1>1, <1>5
  <2> QED
    BY <1>1, <1>2, <1>5, <2>1
<1> QED
  BY <1>1, <1>2, <1>3, <1>4, <1>5

\* A product that stays under a multiple of the divisor.
LEMMA DivBounds ==
  ASSUME NEW a \in Int, NEW b \in Nat \ {0}, NEW lo \in Int, NEW hi \in Int
  PROVE  /\ b * lo <= a => lo <= a \div b
         /\ a <= b * hi => a \div b <= hi
<1> DEFINE q == a \div b
<1>1. q \in Int /\ b * q <= a /\ a < b * q + b
  BY FloorDiv
<1> HIDE DEF q
<1>2. ASSUME b * lo <= a, q < lo PROVE FALSE
  <2>1. b * (q + 1) <= b * lo
    BY <1>1, <1>2
  <2> QED
    BY <1>1, <1>2, <2>1
<1>3. ASSUME a <= b * hi, q > hi PROVE FALSE
  <2>1. b * (hi + 1) <= b * q
    BY <1>1, <1>3
  <2> QED
    BY <1>1, <1>3, <2>1
<1>4. (b * lo <= a => lo <= q) /\ (a <= b * hi => q <= hi)
  BY <1>1, <1>2, <1>3
<1> QED
  BY <1>4 DEF q

\* smlawb goes part of the way and never past the target.
LEMMA PartOfTheWay ==
  ASSUME NEW d \in Int, NEW u \in Nat \ {0}, NEW c \in 0..u
  PROVE  /\ d >= 0 => (d * c) \div u \in 0..d
         /\ d <= 0 => (d * c) \div u \in d..0
<1>1. d * c \in Int /\ (d * c) \div u \in Int
  OBVIOUS
<1>2. CASE d >= 0
  <2>1. u * 0 <= d * c /\ d * c <= u * d
    BY <1>2
  <2> QED
    BY <1>1, <1>2, <2>1, DivBounds
<1>3. CASE d <= 0
  <2>1. u * d <= d * c /\ d * c <= u * 0
    BY <1>3
  <2> QED
    BY <1>1, <1>3, <2>1, DivBounds
<1> QED
  BY <1>2, <1>3

\* The inverse energies the level can follow.
InvTop == Int32Max \div Bias

\* The state from which a frame stays in range, whatever its energy.
NoiseInv == counter \in Nat /\ invNl \in 1..InvTop /\ nl \in 1..NlCap

\* The facts about the constants the proofs use.
LEMMA NoiseConstants ==
  /\ Int32Max \in Nat \ {0} /\ Int16Max \in Nat \ {0} /\ Unit \in Nat \ {0} /\ SmoothCoef \in Nat \ {0}
  /\ NlCap \in Nat \ {0} /\ Bias \in Nat \ {0} /\ FirstNl \in Nat \ {0} /\ CounterStep \in Nat \ {0}
  /\ FirstCounter \in Nat /\ CounterMax \in Nat
  /\ Int16Max < Unit /\ 2 * Int32Max < Unit * Unit
  /\ 8 * NlCap <= Int32Max /\ Bias <= FirstNl /\ FirstNl <= NlCap
  /\ SmoothCoef <= Int16Max
  /\ Energies \subseteq 0..Int32Max
BY SequentialAssumption DEF Noise!NoiseAssumption

\* An energy, the bias added, divides Int32Max into a level between those of the
\* loudest frame and of the bias alone.
LEMMA EnergyInRange ==
  ASSUME NEW x \in Energies
  PROVE  /\ Noise!energy(x) \in Bias..Int32Max
         /\ Int32Max \div Noise!energy(x) \in 1..InvTop
<1> DEFINE e == Noise!energy(x)
<1>1. /\ Int32Max \in Nat \ {0} /\ Bias \in Nat \ {0} /\ Bias <= Int32Max
      /\ x \in 0..Int32Max
  BY NoiseConstants
<1>2. e \in Bias..Int32Max
  BY <1>1 DEF Noise!energy, Noise!addPosSat32, Noise!least
<1> HIDE DEF e
<1>3. e \in Nat \ {0} /\ e <= Int32Max /\ Bias <= e
  BY <1>1, <1>2
<1>4. Int32Max \div e \in Int /\ Int32Max \div e >= 1 /\ e * (Int32Max \div e) <= Int32Max
  BY <1>1, <1>3, FloorDiv
<1>5. Bias * (Int32Max \div e) <= e * (Int32Max \div e)
  BY <1>1, <1>3, <1>4
<1>6. Bias * (Int32Max \div e) <= Int32Max
  BY <1>1, <1>3, <1>4, <1>5
<1>7. Int32Max \div e <= InvTop
  BY <1>1, <1>4, <1>6, DivBounds DEF InvTop
<1>8. InvTop \in Int
  BY <1>1 DEF InvTop
<1> QED
  BY <1>2, <1>4, <1>7, <1>8 DEF e

\* Every smoothing coefficient is a non-negative 16-bit number.
LEMMA CoefficientInRange ==
  ASSUME NoiseInv, NEW nrg \in Bias..Int32Max
  PROVE  Noise!most(Noise!smoothing(nrg), Noise!minCoef) \in 0..Int16Max
<1>1. /\ Int32Max \in Nat /\ Int16Max \in Nat /\ Unit \in Nat \ {0} /\ SmoothCoef \in 1..Int16Max
      /\ CounterStep \in Nat \ {0} /\ CounterMax \in Nat /\ 2 * Int32Max < Unit * Unit
      /\ Bias \in Nat \ {0} /\ NlCap \in Nat
      /\ nrg \in Nat \ {0} /\ nl \in Nat \ {0} /\ counter \in Nat
  BY NoiseConstants DEF NoiseInv
<1>2. Noise!minCoef \in 0..Int16Max
  <2>1. counter \div CounterStep \in Nat
    BY <1>1, FloorDiv
  <2>2. Int16Max \div (counter \div CounterStep + 1) \in 0..Int16Max
    BY <1>1, <2>1, FloorDiv
  <2> QED
    BY <1>1, <2>2 DEF Noise!minCoef
<1>3. Noise!smoothing(nrg) \in 0..Int16Max
  <2>1. SmoothCoef \div 8 \in 0..SmoothCoef
    BY <1>1, FloorDiv
  <2>2. CASE nrg < nl
    BY <1>1, <2>1, <2>2 DEF Noise!smoothing
  <2>3. CASE nrg > nl * 8
    BY <1>1, <2>1, <2>3 DEF Noise!smoothing
  <2>4. CASE nl <= nrg /\ nrg <= nl * 8
    <3> DEFINE a == Int32Max \div nrg
               s == (a * nl) \div Unit
               c == (s * (SmoothCoef * 2)) \div Unit
    <3>1. a \in Nat /\ nrg * a <= Int32Max
      BY <1>1, FloorDiv
    <3>2. a * nl <= a * nrg /\ a * nl \in Nat
      BY <1>1, <2>4, <3>1
    <3>3. a * nl <= Int32Max
      BY <1>1, <3>1, <3>2
    <3> HIDE DEF a
    <3>4. s \in Nat /\ Unit * s <= Int32Max
      BY <1>1, <3>2, <3>3, FloorDiv
    <3> HIDE DEF s
    <3>5. 2 * s < Unit
      <4>1. SUFFICES ASSUME Unit <= 2 * s PROVE FALSE
        BY <1>1, <3>4
      <4>2. Unit * Unit <= Unit * (2 * s)
        BY <1>1, <3>4, <4>1
      <4>3. Unit * (2 * s) = 2 * (Unit * s)
        BY <1>1, <3>4
      <4> QED
        BY <1>1, <3>4, <4>2, <4>3
    <3>6. s * (SmoothCoef * 2) <= Unit * SmoothCoef /\ s * (SmoothCoef * 2) >= Unit * 0
      <4>1. (2 * s) * SmoothCoef <= Unit * SmoothCoef
        BY <1>1, <3>4, <3>5
      <4>2. s * (SmoothCoef * 2) = (2 * s) * SmoothCoef /\ s * (SmoothCoef * 2) \in Nat
        BY <1>1, <3>4
      <4> QED
        BY <1>1, <4>1, <4>2
    <3>7. s * (SmoothCoef * 2) \in Int
      BY <1>1, <3>4
    <3>8. c \in 0..SmoothCoef
      <4> DEFINE product == s * (SmoothCoef * 2)
      <4>1. product \in Int /\ product <= Unit * SmoothCoef /\ product >= Unit * 0
        BY <3>6, <3>7
      <4> HIDE DEF product
      <4>2. product \div Unit \in Int /\ 0 <= product \div Unit /\ product \div Unit <= SmoothCoef
        BY <1>1, <4>1, DivBounds
      <4> QED
        BY <1>1, <4>2 DEF product
    <3> HIDE DEF c
    <3>9. Noise!smoothing(nrg) = c
      BY <1>1, <2>4 DEF Noise!smoothing, Noise!smulwb, Noise!smulww, a, s, c
    <3> QED
      BY <1>1, <3>8, <3>9
  <2> QED
    BY <1>1, <2>2, <2>3, <2>4
<1> QED
  BY <1>2, <1>3 DEF Noise!most

\* One frame keeps the levels in range.
LEMMA FrameInRange ==
  ASSUME NoiseInv, NEW x \in Energies, Noise!getNoiseLevels(x)
  PROVE  NoiseInv'
<1> DEFINE t == Int32Max \div Noise!energy(x)
           c == Noise!most(Noise!smoothing(Noise!energy(x)), Noise!minCoef)
           step == ((t - invNl) * c) \div Unit
<1>1. t \in 1..InvTop
  BY EnergyInRange
<1>2. c \in 0..Int16Max
  BY EnergyInRange, CoefficientInRange
<1>3. /\ Int32Max \in Nat \ {0} /\ Unit \in Nat \ {0} /\ Int16Max \in Nat /\ Int16Max < Unit /\ Bias \in Nat \ {0}
      /\ NlCap \in Nat \ {0}
  BY NoiseConstants
<1>4. InvTop \in 0..Int32Max
  BY <1>3, FloorDiv DEF InvTop
<1>5. invNl \in 1..InvTop /\ counter \in Nat
  BY DEF NoiseInv
<1>6. invNl' = invNl + step
  BY DEF Noise!getNoiseLevels, Noise!smoothed, Noise!smlawb
<1> HIDE DEF t, c
<1>7. c \in 0..Unit /\ t - invNl \in Int
  BY <1>1, <1>2, <1>3, <1>4, <1>5
<1>8. /\ t - invNl >= 0 => step \in 0..(t - invNl)
      /\ t - invNl <= 0 => step \in (t - invNl)..0
  BY <1>3, <1>7, PartOfTheWay
<1> HIDE DEF step
<1>9. invNl' \in 1..InvTop
  BY <1>1, <1>4, <1>5, <1>6, <1>7, <1>8
<1>a. nl' \in 1..NlCap
  <2>1. invNl' \in Nat \ {0} /\ invNl' <= Int32Max
    BY <1>3, <1>4, <1>9
  <2>2. Int32Max \div invNl' \in Int /\ Int32Max \div invNl' >= 1
    <3> DEFINE inv == invNl'
    <3>1. inv \in Nat \ {0} /\ inv <= Int32Max
      BY <2>1
    <3> HIDE DEF inv
    <3>2. Int32Max \div inv \in Int /\ Int32Max \div inv >= 1
      BY <1>3, <3>1, FloorDiv
    <3> QED
      BY <3>2 DEF inv
  <2>3. nl' = Noise!least(Int32Max \div invNl', NlCap)
    BY DEF Noise!getNoiseLevels, Noise!level
  <2> QED
    BY <1>3, <2>2, <2>3 DEF Noise!least
<1>b. counter' \in Nat
  BY <1>5 DEF Noise!getNoiseLevels
<1> QED
  BY <1>9, <1>a, <1>b DEF NoiseInv

\* Whatever the widths, the constants of the band and the energies that come, the
\* noise tracker divides by positive numbers and nothing wraps (vad.go:230-261).
THEOREM NoiseStaysInRange == SequentialSpec => []NoiseInRange
<1> DEFINE Inv == part = "VadNoise" => NoiseInv
<1>1. SequentialInit => Inv
  <2> SUFFICES ASSUME SequentialInit PROVE NoiseInv
    OBVIOUS
  <2>1. counter = FirstCounter /\ nl = FirstNl /\ invNl = Int32Max \div FirstNl
    BY DEF SequentialInit, Noise!Init
  <2>2. /\ Int32Max \in Nat \ {0} /\ FirstNl \in Nat \ {0} /\ FirstNl <= Int32Max /\ FirstNl \in 1..NlCap
        /\ FirstCounter \in Nat /\ Bias \in Nat \ {0} /\ Bias <= FirstNl
    BY NoiseConstants
  <2>3. /\ Int32Max \div FirstNl \in Int /\ Int32Max \div FirstNl >= 1
        /\ FirstNl * (Int32Max \div FirstNl) <= Int32Max
    BY <2>2, FloorDiv
  <2>4. Bias * (Int32Max \div FirstNl) <= FirstNl * (Int32Max \div FirstNl)
    BY <2>2, <2>3
  <2>5. Bias * (Int32Max \div FirstNl) <= Int32Max
    BY <2>2, <2>3, <2>4
  <2>6. Int32Max \div FirstNl <= InvTop /\ InvTop \in Int
    BY <2>2, <2>3, <2>5, DivBounds DEF InvTop
  <2> QED
    BY <2>1, <2>2, <2>3, <2>6 DEF NoiseInv
<1>2. Inv /\ [SequentialNext]_allVars => Inv'
  <2> SUFFICES ASSUME Inv, [SequentialNext]_allVars, part = "VadNoise" PROVE NoiseInv'
    BY OnePartMoves
  <2>1. [Noise!Next]_(Noise!vars)
    BY OnePartMoves
  <2>2. CASE UNCHANGED Noise!vars
    BY <2>2 DEF NoiseInv, Noise!vars
  <2>3. CASE Noise!Next
    BY <2>3, FrameInRange DEF Noise!Next
  <2> QED
    BY <2>1, <2>2, <2>3
<1>3. Inv => NoiseInRange
  <2> SUFFICES ASSUME NoiseInv PROVE Noise!NoiseInRange
    BY DEF NoiseInRange
  <2>1. \A x \in Energies : /\ Noise!energy(x) >= 1
                            /\ Noise!most(Noise!smoothing(Noise!energy(x)), Noise!minCoef) \in 0..Int16Max
    BY EnergyInRange, CoefficientInRange, NoiseConstants
  <2>2. nl >= 1 /\ nl * 8 <= Int32Max
    BY NoiseConstants DEF NoiseInv
  <2> QED
    BY <2>1, <2>2 DEF NoiseInv, Noise!NoiseInRange, InvTop
<1> QED
  BY <1>1, <1>2, <1>3, PTL DEF SequentialSpec

-----------------------------------------------------------------------------
(* DamagedPath, from what RocTrackerProofs says of one packet.             *)

Tracker == INSTANCE RocTrackerProofs

LEMMA RollConstants == Half \in Nat \ {0, 1} /\ RocMod \in Nat \ {0, 1, 2}
BY SequentialAssumption DEF Noisy!RocAssumption

\* The tracker of DamagedPath is that of RocTracker.
LEMMA SameTracker ==
  /\ Tracker!SeqMod = Noisy!SeqMod /\ Tracker!Seqs = Noisy!Seqs /\ Tracker!Rocs = Noisy!Rocs
  /\ Tracker!RecvTracker = Noisy!RecvTracker
  /\ \A q, s : Tracker!PacketIndex(q, s) = Noisy!PacketIndex(q, s)
  /\ \A t, s : Tracker!GuessRoc(t, s) = Noisy!GuessRoc(t, s)
  /\ \A t, s : Tracker!Fold(t, s) = Noisy!Fold(t, s)
BY Zenon DEF Tracker!SeqMod, Noisy!SeqMod, Tracker!Seqs, Noisy!Seqs, Tracker!Rocs, Noisy!Rocs,
             Tracker!RecvTracker, Noisy!RecvTracker, Tracker!PacketIndex, Noisy!PacketIndex,
             Tracker!GuessRoc, Noisy!GuessRoc, Tracker!Estimate, Noisy!Estimate, Tracker!Fold, Noisy!Fold

LEMMA RollTurns ==
  ASSUME NEW q \in Nat, NEW r \in Nat
  PROVE  q * Noisy!SeqMod \in Nat /\ r * Noisy!SeqMod \in Nat
<1>1. Noisy!SeqMod \in Nat
  BY RollConstants DEF Noisy!SeqMod
<1> HIDE DEF Noisy!SeqMod
<1> QED
  BY <1>1

LEMMA RollWrap == ASSUME NEW x \in Noisy!Rocs PROVE x % RocMod = x
BY RollConstants DEF Noisy!Rocs

\* A packet within half a turn is placed exactly, and no packet moves the
\* tracker further than that.
LEMMA RollGuess ==
  ASSUME NEW t \in Noisy!RecvTracker, t.initialized,
         NEW q \in Noisy!Rocs, NEW s \in Noisy!Seqs,
         Noisy!PacketIndex(q, s) - Noisy!PacketIndex(t.roc, t.sL) < Half,
         Noisy!PacketIndex(t.roc, t.sL) - Noisy!PacketIndex(q, s) < Half
  PROVE  /\ Noisy!GuessRoc(t, s) = q
         /\ Noisy!Fold(t, s) \in Noisy!RecvTracker
         /\ Noisy!Fold(t, s).initialized
         /\ Noisy!PacketIndex(Noisy!Fold(t, s).roc, Noisy!Fold(t, s).sL) =
              IF Noisy!PacketIndex(q, s) > Noisy!PacketIndex(t.roc, t.sL)
              THEN Noisy!PacketIndex(q, s) ELSE Noisy!PacketIndex(t.roc, t.sL)
<1>1. t \in Tracker!RecvTracker /\ s \in Tracker!Seqs /\ q \in Tracker!Rocs
  BY SameTracker, Zenon
<1>2. /\ Tracker!PacketIndex(q, s) - Tracker!PacketIndex(t.roc, t.sL) < Half
      /\ Tracker!PacketIndex(t.roc, t.sL) - Tracker!PacketIndex(q, s) < Half
  BY SameTracker, Zenon
<1>3. /\ Tracker!GuessRoc(t, s) = q /\ Tracker!Fold(t, s) \in Tracker!RecvTracker
      /\ Tracker!Fold(t, s).initialized
      /\ Tracker!PacketIndex(Tracker!Fold(t, s).roc, Tracker!Fold(t, s).sL) =
              IF Tracker!PacketIndex(q, s) > Tracker!PacketIndex(t.roc, t.sL)
              THEN Tracker!PacketIndex(q, s) ELSE Tracker!PacketIndex(t.roc, t.sL)
  BY <1>1, <1>2, RollConstants, Tracker!GuessExact, Zenon
<1> QED
  BY <1>3, SameTracker, Zenon

LEMMA RollBounded ==
  ASSUME NEW t \in Noisy!RecvTracker, t.initialized, NEW s \in Noisy!Seqs,
         Noisy!PacketIndex(t.roc, t.sL) + Half < Noisy!SeqMod * RocMod
  PROVE  /\ Noisy!Fold(t, s) \in Noisy!RecvTracker
         /\ Noisy!Fold(t, s).initialized
         /\ Noisy!PacketIndex(Noisy!Fold(t, s).roc, Noisy!Fold(t, s).sL) >= Noisy!PacketIndex(t.roc, t.sL)
         /\ Noisy!PacketIndex(Noisy!Fold(t, s).roc, Noisy!Fold(t, s).sL) <= Noisy!PacketIndex(t.roc, t.sL) + Half
<1>1. t \in Tracker!RecvTracker /\ s \in Tracker!Seqs
  BY SameTracker, Zenon
<1>2. Tracker!PacketIndex(t.roc, t.sL) + Half < Tracker!SeqMod * RocMod
  BY SameTracker, Zenon
<1>3. /\ Tracker!Fold(t, s) \in Tracker!RecvTracker /\ Tracker!Fold(t, s).initialized
      /\ Tracker!PacketIndex(Tracker!Fold(t, s).roc, Tracker!Fold(t, s).sL) >= Tracker!PacketIndex(t.roc, t.sL)
      /\ Tracker!PacketIndex(Tracker!Fold(t, s).roc, Tracker!Fold(t, s).sL)
           <= Tracker!PacketIndex(t.roc, t.sL) + Half
  BY <1>1, <1>2, RollConstants, Tracker!FoldBounded, Zenon
<1> QED
  BY <1>3, SameTracker, Zenon


\* The index the tracker stands at.
Top == Noisy!PacketIndex(recvRoc.roc, recvRoc.sL)

\* The tracker lags by the packets missed in a row, or leads by less than half
\* a turn once the damaged packet has moved it.
InReach ==
  /\ recvRoc \in Noisy!RecvTracker
  /\ sent \in 0..MaxSent /\ missed \in 0..LossRun /\ missed <= sent
  /\ ~recvRoc.initialized => recvRoc = Noisy!NewRecvTracker /\ missed = sent
  /\ recvRoc.initialized => /\ sent - Top <= missed
                            /\ Top - sent < Half
                            /\ ~damaged => Top <= sent

\* The next packet's rollover count and sequence number are its index.
LEMMA NextIndex ==
  ASSUME Noisy!DamagedAssumption, sent \in 0..MaxSent, sent < MaxSent
  PROVE  /\ Noisy!Seq \in Noisy!Seqs /\ Noisy!Roc \in Noisy!Rocs
         /\ Noisy!PacketIndex(Noisy!Roc, Noisy!Seq) = sent + 1
<1>1. /\ Noisy!SeqMod \in Nat \ {0} /\ RocMod \in Nat \ {0} /\ MaxSent \in Nat /\ Half \in Nat /\ Half > 1
      /\ sent + 1 \in Nat /\ sent + 1 < Noisy!SeqMod * RocMod
  BY RollConstants DEF Noisy!SeqMod, Noisy!DamagedAssumption
<1> DEFINE j == sent + 1
           q == j \div Noisy!SeqMod
           s == j % Noisy!SeqMod
<1>2. q \in Nat /\ s \in 0..(Noisy!SeqMod - 1) /\ j = Noisy!SeqMod * q + s
  <2>1. j \in Nat
    BY <1>1
  <2> HIDE DEF j
  <2>2. /\ j = Noisy!SeqMod * (j \div Noisy!SeqMod) + (j % Noisy!SeqMod) /\ j % Noisy!SeqMod \in 0..(Noisy!SeqMod - 1)
        /\ j \div Noisy!SeqMod \in Nat
    BY <1>1, <2>1, Z3T(30) DEF j
  <2> QED
    BY <2>2
<1>3. j < Noisy!SeqMod * RocMod
  BY <1>1
<1> HIDE DEF j, q, s
<1>4. q < RocMod
  <2>1. SUFFICES ASSUME q >= RocMod PROVE FALSE
    BY <1>1, <1>2
  <2>2. Noisy!SeqMod * q >= Noisy!SeqMod * RocMod
    BY <1>1, <1>2, <2>1, Z3T(30)
  <2>3. Noisy!SeqMod * q \in Nat /\ Noisy!SeqMod * RocMod \in Nat
    BY <1>1, <1>2
  <2> QED
    BY <1>1, <1>2, <1>3, <2>2, <2>3
<1>5. q % RocMod = q /\ q \in Noisy!Rocs
  BY <1>1, <1>2, <1>4, RollWrap DEF Noisy!Rocs
<1>6. q * Noisy!SeqMod = Noisy!SeqMod * q
  BY <1>1, <1>2
<1> QED
  BY <1>1, <1>2, <1>5, <1>6 DEF Noisy!Seq, Noisy!Roc, Noisy!Seqs, Noisy!PacketIndex, j, q, s

\* The first packet that arrives seeds a tracker that reads it right.
LEMMA FirstSeeds ==
  ASSUME Noisy!DamagedAssumption, InReach, sent < MaxSent, ~recvRoc.initialized
  PROVE  /\ Noisy!GuessRoc(recvRoc, Noisy!Seq) = Noisy!Roc
         /\ Noisy!Fold(recvRoc, Noisy!Seq) \in Noisy!RecvTracker
         /\ Noisy!Fold(recvRoc, Noisy!Seq).initialized
         /\ Noisy!PacketIndex(Noisy!Fold(recvRoc, Noisy!Seq).roc, Noisy!Fold(recvRoc, Noisy!Seq).sL) = sent + 1
<1>1. /\ Half \in Nat /\ Half > 1 /\ Noisy!SeqMod = Half + Half /\ RocMod \in Nat /\ RocMod > 2
      /\ sent \in Nat /\ sent + 1 < Half
  BY RollConstants DEF Noisy!SeqMod, Noisy!DamagedAssumption, InReach
<1>2. Noisy!Seq = sent + 1 /\ Noisy!Roc = 0
  <2>1. (sent + 1) % Noisy!SeqMod = sent + 1 /\ (sent + 1) \div Noisy!SeqMod = 0
    BY <1>1, Z3T(30)
  <2>2. 0 % RocMod = 0
    BY <1>1
  <2> QED
    BY <2>1, <2>2 DEF Noisy!Seq, Noisy!Roc
<1>3. recvRoc = [roc |-> 0, sL |-> 0, initialized |-> FALSE]
  BY DEF InReach, Noisy!NewRecvTracker
<1>4. Noisy!Fold(recvRoc, Noisy!Seq) = [roc |-> 0, sL |-> sent + 1, initialized |-> TRUE]
  BY <1>2, <1>3 DEF Noisy!Fold
<1>5. Noisy!GuessRoc(recvRoc, Noisy!Seq) = Noisy!Roc
  BY <1>2, <1>3 DEF Noisy!GuessRoc
<1>6. sent + 1 \in Noisy!Seqs /\ 0 \in Noisy!Rocs /\ Noisy!PacketIndex(0, sent + 1) = sent + 1
  BY <1>1 DEF Noisy!Seqs, Noisy!Rocs, Noisy!PacketIndex
<1> QED
  BY <1>4, <1>5, <1>6 DEF Noisy!RecvTracker

\* A packet that arrives as it was sent is within the tracker's reach.
LEMMA DeliverStep ==
  ASSUME Noisy!DamagedAssumption, InReach, plain, Noisy!Deliver
  PROVE  InReach' /\ plain'
<1>1. /\ Half \in Nat /\ Half > 1 /\ sent \in Nat /\ sent < MaxSent /\ sent \in 0..MaxSent
      /\ sent' = sent + 1 /\ missed' = 0 /\ damaged' = damaged /\ recvRoc' = Noisy!Fold(recvRoc, Noisy!Seq)
      /\ missed \in 0..LossRun /\ LossRun \in 0..(Half - 2) /\ MaxSent \in Nat
  BY RollConstants DEF Noisy!Deliver, InReach, Noisy!DamagedAssumption
<1>4. Noisy!GuessRoc(recvRoc, Noisy!Seq) = Noisy!Roc => plain'
  BY DEF Noisy!Deliver
<1>2. CASE ~recvRoc.initialized
  <2>1. /\ Noisy!GuessRoc(recvRoc, Noisy!Seq) = Noisy!Roc /\ recvRoc' \in Noisy!RecvTracker /\ recvRoc'.initialized
        /\ Top' = sent + 1
    BY <1>1, <1>2, FirstSeeds DEF Top
  <2>2. InReach'
    BY <1>1, <2>1 DEF InReach
  <2> QED
    BY <1>4, <2>1, <2>2
<1>3. CASE recvRoc.initialized
  <2>1. Noisy!Seq \in Noisy!Seqs /\ Noisy!Roc \in Noisy!Rocs /\ Noisy!PacketIndex(Noisy!Roc, Noisy!Seq) = sent + 1
    BY <1>1, NextIndex
  <2>2. /\ recvRoc \in Noisy!RecvTracker /\ sent - Top <= missed /\ Top - sent < Half
        /\ ~damaged => Top <= sent
    BY <1>3 DEF InReach
  <2>3. Top \in Nat
    BY <2>2, RollConstants, RollTurns DEF Top, Noisy!PacketIndex, Noisy!RecvTracker, Noisy!Rocs, Noisy!Seqs,
       Noisy!SeqMod
  <2>4. Noisy!PacketIndex(Noisy!Roc, Noisy!Seq) - Top < Half /\ Top - Noisy!PacketIndex(Noisy!Roc, Noisy!Seq) < Half
    BY <1>1, <2>1, <2>2, <2>3
  <2>5. /\ Noisy!GuessRoc(recvRoc, Noisy!Seq) = Noisy!Roc /\ recvRoc' \in Noisy!RecvTracker /\ recvRoc'.initialized
        /\ Top' = IF Noisy!PacketIndex(Noisy!Roc, Noisy!Seq) > Top THEN Noisy!PacketIndex(Noisy!Roc, Noisy!Seq) ELSE Top
    BY <1>1, <1>3, <2>1, <2>2, <2>4, RollGuess DEF Top
  <2>6. InReach'
    <3>1. CASE sent + 1 > Top
      <4>1. Top' = sent + 1
        BY <2>1, <2>5, <3>1
      <4> QED
        BY <1>1, <2>5, <4>1 DEF InReach
    <3>2. CASE ~(sent + 1 > Top)
      <4>1. Top' = Top
        BY <2>1, <2>5, <3>2
      <4> QED
        BY <1>1, <2>2, <2>3, <2>5, <3>2, <4>1 DEF InReach
    <3> QED
      BY <3>1, <3>2
  <2> QED
    BY <1>4, <2>5, <2>6
<1> QED
  BY <1>2, <1>3

\* Arithmetic of a tracker at t that moves to u when packet n + 1 is damaged.
LEMMA LagBound ==
  ASSUME NEW t \in Nat, NEW u \in Nat, NEW n \in Nat, NEW k \in Nat, NEW h \in Nat,
         n - t <= k, t <= n, t <= u, u <= t + h
  PROVE  (n + 1) - u <= k + 1 /\ u - (n + 1) < h
OBVIOUS

\* The damaged packet moves the tracker by half a turn at most.
LEMMA DamageStep ==
  ASSUME Noisy!DamagedAssumption, InReach, plain, Noisy!Damage
  PROVE  InReach' /\ plain'
<1>1. /\ Half \in Nat /\ Half > 1 /\ sent \in Nat /\ sent < MaxSent /\ missed < LossRun
      /\ sent' = sent + 1 /\ missed' = missed + 1 /\ damaged'
      /\ recvRoc.initialized /\ ~damaged
      /\ missed \in Nat /\ missed <= sent /\ LossRun \in Nat /\ MaxSent \in Nat
  BY RollConstants DEF Noisy!Damage, Noisy!Miss, InReach, Noisy!DamagedAssumption
<1>2. PICK seq \in Noisy!Seqs : recvRoc' = Noisy!Fold(recvRoc, seq)
  BY DEF Noisy!Damage
<1>3. recvRoc \in Noisy!RecvTracker /\ sent - Top <= missed /\ Top <= sent
  BY <1>1 DEF InReach
<1>4. Top \in Nat /\ Noisy!SeqMod * RocMod \in Nat /\ Top + Half < Noisy!SeqMod * RocMod
  <2>1. Top \in Nat
    BY <1>3, RollConstants, RollTurns DEF Top, Noisy!PacketIndex, Noisy!RecvTracker, Noisy!Rocs, Noisy!Seqs,
       Noisy!SeqMod
  <2>2. Noisy!SeqMod * RocMod \in Nat /\ MaxSent + Half < Noisy!SeqMod * RocMod
    BY RollConstants DEF Noisy!SeqMod, Noisy!DamagedAssumption
  <2> QED
    BY <1>1, <1>3, <2>1, <2>2
<1>5. /\ recvRoc' \in Noisy!RecvTracker /\ recvRoc'.initialized
      /\ Top' >= Top /\ Top' <= Top + Half
  BY <1>1, <1>2, <1>3, <1>4, RollBounded DEF Top
<1>6. Top' \in Nat
  BY <1>5, RollConstants, RollTurns DEF Top, Noisy!PacketIndex, Noisy!RecvTracker, Noisy!Rocs, Noisy!Seqs, Noisy!SeqMod
<1>7. plain'
  BY DEF Noisy!Damage, Noisy!Miss
<1>8. InReach'
  <2>1. sent' \in 0..MaxSent /\ missed' \in 0..LossRun /\ missed' <= sent'
    BY <1>1
  <2>2. /\ sent' = sent + 1 /\ missed' = missed + 1
        /\ sent \in Nat /\ missed \in Nat /\ Half \in Nat
    BY <1>1
  <2>3. /\ Top \in Nat /\ Top' \in Nat
        /\ sent - Top <= missed /\ Top <= sent /\ Top <= Top' /\ Top' <= Top + Half
    BY <1>3, <1>4, <1>5, <1>6
  <2>4. sent' - Top' <= missed' /\ Top' - sent' < Half
    BY <2>2, <2>3, LagBound
  <2> QED
    BY <1>1, <1>5, <2>1, <2>4 DEF InReach
<1> QED
  BY <1>7, <1>8

\* The tracker starts in reach.
LEMMA StartInReach ==
  ASSUME Noisy!DamagedAssumption, Noisy!Init
  PROVE  InReach /\ plain
BY RollConstants DEF Noisy!DamagedAssumption, Noisy!Init, InReach, Noisy!NewRecvTracker, Noisy!RecvTracker,
   Noisy!Rocs, Noisy!Seqs, Noisy!SeqMod

\* No step takes it out of reach.
LEMMA StepInReach ==
  ASSUME Noisy!DamagedAssumption, InReach, plain, [Noisy!Next]_(Noisy!vars)
  PROVE  InReach' /\ plain'
<1>1. CASE Noisy!Lose
  <2>1. /\ sent \in Nat /\ sent < MaxSent /\ missed \in Nat /\ missed < LossRun /\ missed <= sent
        /\ sent' = sent + 1 /\ missed' = missed + 1 /\ MaxSent \in Nat /\ LossRun \in Nat
        /\ UNCHANGED <<recvRoc, damaged, plain>> /\ Half \in Nat
    BY <1>1, RollConstants DEF Noisy!Lose, Noisy!Miss, InReach, Noisy!DamagedAssumption
  <2>2. recvRoc.initialized => Top \in Nat
    BY RollConstants, RollTurns DEF InReach, Top, Noisy!PacketIndex, Noisy!RecvTracker, Noisy!Rocs, Noisy!Seqs,
       Noisy!SeqMod
  <2>3. Top' = Top
    BY <2>1 DEF Top
  <2> QED
    BY <2>1, <2>2, <2>3 DEF InReach
<1>2. CASE UNCHANGED Noisy!vars
  BY <1>2 DEF Noisy!vars, InReach, Top
<1>3. CASE Noisy!Deliver
  BY <1>3, DeliverStep
<1>4. CASE Noisy!Damage
  BY <1>4, DamageStep
<1> QED
  BY <1>1, <1>2, <1>3, <1>4, Zenon DEF Noisy!Next

\* One damaged packet does no harm to those after it, for every width of the
\* counters (session.go:238-251).
THEOREM DamageDoesNoHarm == SequentialSpec => []OneDamagedPacketHarmless
<1> DEFINE Inv == part = "DamagedPath" => InReach /\ plain
<1>1. SequentialInit => Inv
  BY SequentialAssumption, StartInReach DEF SequentialInit
<1>2. Inv /\ [SequentialNext]_allVars => Inv'
  <2> SUFFICES ASSUME Inv, [SequentialNext]_allVars, part = "DamagedPath" PROVE InReach' /\ plain'
    BY OnePartMoves
  <2>1. [Noisy!Next]_(Noisy!vars)
    BY OnePartMoves
  <2> QED
    BY <2>1, SequentialAssumption, StepInReach, Zenon
<1>3. Inv => OneDamagedPacketHarmless
  BY DEF OneDamagedPacketHarmless, Noisy!OneDamagedPacketHarmless
<1> QED
  BY <1>1, <1>2, <1>3, PTL DEF SequentialSpec

-----------------------------------------------------------------------------
(* RtpSender.                                                              *)

\* RtpSender has the standard modules as its own.
LEMMA SameCardinality == \A S : Sender!Cardinality(S) = Cardinality(S)
BY Zenon DEF Sender!Cardinality, Cardinality, Sender!IsFiniteSet, IsFiniteSet

BuiltPackets == [payload : Sender!Payloads \cup {"ladder"}, asked : BOOLEAN, header : Sender!Headers]

\* The packets so far that are not comfort noise.
AudioBuilt == {j \in 1..Len(built) : built[j].payload # "dtx"}

SpokenIn(packets, j) == packets[j].payload \in {"speech", "empty"}

\* The latch is set once speech has been built, and the index counts the packets
\* that are not comfort noise.
SenderInv ==
  /\ stream \in Sender!Streams /\ built \in Seq(BuiltPackets)
  /\ stream.speechStarted <=> \E j \in 1..Len(built) : SpokenIn(built, j)
  /\ stream.audioPacketIndex = IF WarpPiggyback THEN Cardinality(AudioBuilt) ELSE 0
  /\ Sender!MarkerOnFirstSpeech /\ Sender!PiggybackAfterStart

\* What a packet's payload and header must be for the stream to go on as it did.
\* p is its class, or "ladder".
LEMMA PacketBuilt ==
  ASSUME SenderInv,
         NEW p \in Sender!Payloads \cup {"ladder"}, NEW asked \in BOOLEAN,
         LET dtx == p = "dtx"
             spoken == p \in {"speech", "empty"}
         IN /\ built' = Append(built,
                 [payload |-> p, asked |-> asked,
                  header |-> Sender!Header(stream, asked \/ (spoken /\ ~stream.speechStarted), dtx)])
            /\ stream' = Sender!Step(stream, stream.speechStarted \/ spoken, dtx)
  PROVE  SenderInv'
<1> DEFINE dtx == p = "dtx"
           spoken == p \in {"speech", "empty"}
           made == Sender!Header(stream, asked \/ (spoken /\ ~stream.speechStarted), dtx)
           packetBuilt == [payload |-> p, asked |-> asked, header |-> made]
           n == Len(built)
<1>1. /\ StreamSeqMod \in Nat \ {0, 1} /\ TsMod \in Nat \ {0} /\ SamplesPerPacket \in Nat
      /\ WarpPiggyback \in BOOLEAN /\ StartPacket \in Nat
  BY SequentialAssumption DEF Sender!StreamAssumption
<1>2. /\ stream.seq \in 0..(StreamSeqMod - 1) /\ stream.timestamp \in 0..(TsMod - 1)
      /\ stream.speechStarted \in BOOLEAN /\ stream.audioPacketIndex \in Nat
      /\ built \in Seq(BuiltPackets) /\ n \in Nat
  BY DEF SenderInv, Sender!Streams
<1>3. made.ext = IF dtx THEN "dtx"
                   ELSE IF WarpPiggyback /\ stream.audioPacketIndex >= StartPacket THEN "piggyback"
                   ELSE "none"
  BY <1>1 DEF Sender!Header, Sender!WarpExtension
<1>4. made.marker = (asked \/ (spoken /\ ~stream.speechStarted))
  BY DEF Sender!Header
<1>5. made \in Sender!Headers
  BY <1>1, <1>2, <1>3 DEF Sender!Header, Sender!Headers, Sender!Extensions
<1>6. packetBuilt \in BuiltPackets
  BY <1>5 DEF BuiltPackets
<1>7. /\ built' = Append(built, packetBuilt)
      /\ stream' = Sender!Step(stream, stream.speechStarted \/ spoken, dtx)
  OBVIOUS
<1> HIDE DEF made
<1>8. /\ built' \in Seq(BuiltPackets) /\ Len(built') = n + 1 /\ built'[n + 1] = packetBuilt
      /\ \A j \in 1..n : built'[j] = built[j]
  BY <1>2, <1>6, <1>7
<1>9. stream' \in Sender!Streams
  <2>1. (stream.seq + 1) % StreamSeqMod \in 0..(StreamSeqMod - 1)
    BY <1>1, <1>2
  <2>2. (stream.timestamp + SamplesPerPacket) % TsMod \in 0..(TsMod - 1)
    BY <1>1, <1>2, SMTT(30)
  <2>3. Sender!AfterExtension(stream, dtx) \in Nat
    BY <1>2 DEF Sender!AfterExtension
  <2> QED
    BY <1>2, <1>7, <2>1, <2>2, <2>3 DEF Sender!Step, Sender!Streams
<1>a. stream'.speechStarted = (stream.speechStarted \/ spoken)
  BY <1>7 DEF Sender!Step
<1>b. stream'.audioPacketIndex = IF ~dtx /\ WarpPiggyback THEN stream.audioPacketIndex + 1
                                 ELSE stream.audioPacketIndex
  BY <1>7 DEF Sender!Step, Sender!AfterExtension
<1>c. packetBuilt.payload = p /\ packetBuilt.asked = asked /\ packetBuilt.header = made
  OBVIOUS
<1> HIDE DEF packetBuilt
<1>d. /\ \A j \in 1..n : SpokenIn(built', j) <=> SpokenIn(built, j)
      /\ SpokenIn(built', n + 1) <=> spoken
  BY <1>2, <1>8, <1>c DEF SpokenIn
<1>e. stream'.speechStarted <=> \E j \in 1..Len(built') : SpokenIn(built', j)
  <2>1. \A j : j \in 1..Len(built') <=> j \in 1..n \/ j = n + 1
    BY <1>2, <1>8
  <2>2. (\E j \in 1..Len(built') : SpokenIn(built', j)) <=> (\E j \in 1..n : SpokenIn(built', j)) \/ SpokenIn(built', n + 1)
    BY <2>1
  <2>3. (\E j \in 1..n : SpokenIn(built', j)) <=> \E j \in 1..n : SpokenIn(built, j)
    BY <1>d
  <2>4. stream.speechStarted <=> \E j \in 1..n : SpokenIn(built, j)
    BY DEF SenderInv
  <2> QED
    BY <1>a, <1>d, <2>2, <2>3, <2>4
<1>f. stream'.audioPacketIndex = IF WarpPiggyback THEN Cardinality(AudioBuilt') ELSE 0
  <2>1. IsFiniteSet(AudioBuilt) /\ n + 1 \notin AudioBuilt
    <3>1. IsFiniteSet(1..n)
      BY <1>2, FS_Interval
    <3> QED
      BY <1>2, <3>1, FS_Subset DEF AudioBuilt
  <2>2. AudioBuilt' = IF dtx THEN AudioBuilt ELSE AudioBuilt \cup {n + 1}
    BY <1>2, <1>8, <1>c DEF AudioBuilt
  <2>3. Cardinality(AudioBuilt \cup {n + 1}) = Cardinality(AudioBuilt) + 1
    BY <2>1, FS_AddElement
  <2> QED
    BY <1>1, <1>b, <2>2, <2>3 DEF SenderInv
<1>g. Sender!MarkerOnFirstSpeech'
  <2> SUFFICES ASSUME NEW k \in DOMAIN built'
               PROVE  built'[k].header.marker <=>
                        built'[k].asked \/ (SpokenIn(built', k) /\ \A j \in 1..(k - 1) : ~SpokenIn(built', j))
    BY DEF Sender!MarkerOnFirstSpeech, Sender!Spoken, SpokenIn
  <2>1. k \in 1..n \/ k = n + 1
    BY <1>2, <1>8
  <2>2. CASE k \in 1..n
    <3>1. built[k].header.marker <=> built[k].asked \/ (SpokenIn(built, k) /\ \A j \in 1..(k - 1) : ~SpokenIn(built, j))
      BY <1>2, <2>2 DEF SenderInv, Sender!MarkerOnFirstSpeech, Sender!Spoken, SpokenIn
    <3>2. \A j \in 1..(k - 1) : j \in 1..n
      BY <1>2, <2>2
    <3> QED
      BY <1>8, <1>d, <2>2, <3>1, <3>2
  <2>3. CASE k = n + 1
    <3>1. stream.speechStarted <=> \E j \in 1..n : SpokenIn(built, j)
      BY DEF SenderInv
    <3>2. 1..(k - 1) = 1..n
      BY <1>2, <2>3
    <3>3. ~stream.speechStarted <=> \A j \in 1..(k - 1) : ~SpokenIn(built', j)
      BY <1>d, <3>1, <3>2
    <3>4. built'[k].header.marker = (asked \/ (spoken /\ ~stream.speechStarted)) /\ built'[k].asked = asked
      BY <1>4, <1>8, <1>c, <2>3
    <3>5. SpokenIn(built', k) <=> spoken
      BY <1>d, <2>3
    <3> QED
      BY <3>3, <3>4, <3>5
  <2> QED
    BY <2>1, <2>2, <2>3
<1>h. Sender!PiggybackAfterStart'
  <2> DEFINE audio(k) == {j \in 1..(k - 1) : built[j].payload # "dtx"}
             ext(dtxToo, index) == IF dtxToo THEN "dtx"
                                   ELSE IF WarpPiggyback /\ index >= StartPacket THEN "piggyback"
                                   ELSE "none"
  <2> SUFFICES ASSUME NEW k \in DOMAIN built'
               PROVE  built'[k].header.ext =
                        ext(built'[k].payload = "dtx", Cardinality({j \in 1..(k - 1) : built'[j].payload # "dtx"}))
    BY SameCardinality DEF Sender!PiggybackAfterStart
  <2>1. k \in 1..n \/ k = n + 1
    BY <1>2, <1>8
  <2>2. {j \in 1..(k - 1) : built'[j].payload # "dtx"} = audio(k)
    BY <1>2, <1>8, <2>1
  <2>3. CASE k \in 1..n
    <3>1. Sender!PiggybackAfterStart /\ k \in DOMAIN built
      BY <1>2, <2>3 DEF SenderInv
    <3>2. built[k].header.ext = ext(built[k].payload = "dtx", Sender!Cardinality(audio(k)))
      BY <3>1, Zenon DEF Sender!PiggybackAfterStart
    <3>3. Sender!Cardinality(audio(k)) = Cardinality({j \in 1..(k - 1) : built'[j].payload # "dtx"})
      BY <2>2, SameCardinality
    <3>4. built'[k] = built[k]
      BY <1>8, <2>3
    <3> QED
      BY <3>2, <3>3, <3>4
  <2>4. CASE k = n + 1
    <3>1. audio(k) = AudioBuilt
      BY <1>2, <2>4 DEF AudioBuilt
    <3>2. WarpPiggyback => stream.audioPacketIndex = Cardinality(AudioBuilt)
      BY DEF SenderInv
    <3> QED
      BY <1>1, <1>3, <1>8, <1>c, <2>2, <2>4, <3>1, <3>2, ZenonT(90)
  <2> QED
    BY <2>1, <2>3, <2>4
<1> QED
  BY <1>8, <1>9, <1>e, <1>f, <1>g, <1>h DEF SenderInv

\* The sender's invariant holds while the sender is the part that moves.
LEMMA SenderHolds == SequentialSpec => [](part = "RtpSender" => SenderInv)
<1>1. SequentialInit => SenderInv
  <2> SUFFICES ASSUME SequentialInit PROVE SenderInv
    OBVIOUS
  <2>1. stream = [seq |-> 1, timestamp |-> 0, speechStarted |-> FALSE, audioPacketIndex |-> 0] /\ built = <<>>
    BY DEF SequentialInit, Sender!Init, Sender!NewRtpStream
  <2>2. stream \in Sender!Streams
    BY <2>1, SequentialAssumption DEF Sender!Streams, Sender!StreamAssumption
  <2>3. AudioBuilt = {} /\ Cardinality({}) = 0
    BY <2>1, FS_EmptySet DEF AudioBuilt
  <2> QED
    BY <2>1, <2>2, <2>3 DEF SenderInv, Sender!MarkerOnFirstSpeech, Sender!PiggybackAfterStart
<1>2. SenderInv /\ [Sender!Next]_(Sender!vars) => SenderInv'
  <2> SUFFICES ASSUME SenderInv, [Sender!Next]_(Sender!vars) PROVE SenderInv'
    OBVIOUS
  <2>1. ASSUME NEW p \in Sender!Payloads, NEW marker \in BOOLEAN, Sender!NextPacket(p, marker)
        PROVE  SenderInv'
    <3>1. Sender!IsSpeech(p) <=> p \in {"speech", "empty"}
      BY DEF Sender!IsSpeech, Sender!IsOpusDtxPayload, Sender!IsOpusPrimingPayload, Sender!Payloads
    <3> QED
      BY <2>1, <3>1, PacketBuilt
      DEF Sender!NextPacket, Sender!NextPacketHeader, Sender!AfterNextPacket, Sender!IsOpusDtxPayload
  <2>2. CASE Sender!NextPreSpeechPacket
    <3> DEFINE p == "ladder"
               dtx == p = "dtx"
               spoken == p \in {"speech", "empty"}
    <3>1. ~dtx /\ ~spoken /\ p \in Sender!Payloads \cup {"ladder"}
      OBVIOUS
    <3>2. (FALSE \/ (spoken /\ ~stream.speechStarted)) = FALSE
      BY <3>1
    <3>3. (stream.speechStarted \/ spoken) = stream.speechStarted
      BY <3>1 DEF SenderInv, Sender!Streams
    <3>4. dtx = FALSE
      BY <3>1
    <3>5. /\ built' = Append(built,
                 [payload |-> p, asked |-> FALSE,
                  header |-> Sender!Header(stream, FALSE \/ (spoken /\ ~stream.speechStarted), dtx)])
          /\ stream' = Sender!Step(stream, stream.speechStarted \/ spoken, dtx)
      BY <2>2, <3>2, <3>3, <3>4 DEF Sender!NextPreSpeechPacket, Sender!PreSpeechHeader, Sender!AfterPreSpeech
    <3> HIDE DEF p
    <3> QED
      BY <3>1, <3>5, PacketBuilt
  <2>3. CASE UNCHANGED Sender!vars
    BY <2>3 DEF Sender!vars, SenderInv, Sender!MarkerOnFirstSpeech, Sender!PiggybackAfterStart, Sender!Spoken, SpokenIn, AudioBuilt
  <2> QED
    BY <2>1, <2>2, <2>3 DEF Sender!Next
<1>3. SequentialInit => (part = "RtpSender" => SenderInv)
  BY <1>1
<1>4. (part = "RtpSender" => SenderInv) /\ [SequentialNext]_allVars => (part = "RtpSender" => SenderInv)'
  BY <1>2, OnePartMoves
<1> QED
  BY <1>3, <1>4, PTL DEF SequentialSpec

\* In a stream of any length exactly the first speech packet is marked unasked
\* (rtp.go:271).
THEOREM FirstSpeechIsMarked == SequentialSpec => []MarkerOnFirstSpeech
<1>1. (part = "RtpSender" => SenderInv) => MarkerOnFirstSpeech
  BY DEF SenderInv, MarkerOnFirstSpeech
<1> QED
  BY <1>1, SenderHolds, PTL

\* In a stream of any length the piggyback word starts after StartPacket audio
\* packets (rtp.go:255-269).
THEOREM PiggybackStarts == SequentialSpec => []PiggybackAfterStart
<1>1. (part = "RtpSender" => SenderInv) => PiggybackAfterStart
  BY DEF SenderInv, PiggybackAfterStart
<1> QED
  BY <1>1, SenderHolds, PTL

-----------------------------------------------------------------------------
(* RelayDemux.                                                             *)

\* Both demultiplexers say of every packet built here what it is.
LEMMA DemuxersAgree ==
  ASSUME NEW p \in Demux!Reports \cup Demux!Stun \cup Demux!Rtp(OpusTypes \cup {VideoType})
  PROVE  /\ Demux!ClassifyRelayPacket(p) = p.made
         /\ p.made = "rtcp" => Demux!IsRtcpPacket(p)
         /\ p.made = "stun" => ~Demux!IsRtcpPacket(p)
         /\ p.made = "rtp" /\ p.b1 % 128 = Demux!RtpPayloadTypeOpus => ~Demux!IsRtcpPacket(p)
<1>1. OpusTypes \subseteq 0..127 /\ VideoType \in 0..127 /\ PayloadLens \subseteq Nat /\ Trailer \in Nat
  BY SequentialAssumption DEF Demux!DemuxAssumption
<1>2. CASE p \in Demux!Reports
  <2>1. /\ p.made = "rtcp" /\ p.len \in Nat /\ p.len >= 8 + Trailer
        /\ p.b0 \in {128, 129} /\ p.b1 \in {200, 208, 209}
    BY <1>1, <1>2 DEF Demux!Reports, Demux!Packet
  <2>2. p.b0 \div 64 = 2 /\ ~Demux!Extended(p)
    BY <2>1 DEF Demux!Extended
  <2> QED
    BY <1>1, <2>1, <2>2 DEF Demux!ClassifyRelayPacket, Demux!IsRtcpPacket, Demux!RtcpHeaderLen
<1>3. CASE p \in Demux!Stun
  <2>1. p.made = "stun" /\ p.len \in {20, 60} /\ p.b0 \in {0, 1, 4, 8}
    BY <1>3 DEF Demux!Stun, Demux!Packet
  <2>2. p.b0 \div 64 = 0
    BY <2>1
  <2> QED
    BY <2>1, <2>2 DEF Demux!ClassifyRelayPacket, Demux!IsRtcpPacket
<1>4. CASE p \in Demux!Rtp(OpusTypes \cup {VideoType})
  <2>1. p.made = "rtp" /\ p.b0 = 144 /\ p.len \in Nat /\ p.len >= 16
    BY <1>1, <1>4 DEF Demux!Rtp, Demux!Packet
  <2>2. Demux!Extended(p)
    BY <2>1 DEF Demux!Extended
  <2> QED
    BY <2>1, <2>2 DEF Demux!ClassifyRelayPacket, Demux!IsRtcpPacket
<1> QED
  BY <1>2, <1>3, <1>4

\* No report is missed and none is seen in STUN or in audio of the sender's type,
\* whatever the other payload types and the lengths are (rtcp.go:22-40).
THEOREM NoReportIsMissed == SequentialSpec => []ReportsAreSeen
<1> DEFINE Inv == part = "RelayDemux" => Demux!ReportsAreSeen
<1>1. SequentialInit => Inv
  BY DemuxersAgree DEF SequentialInit, Demux!Init, Demux!ReportsAreSeen
<1>2. Inv /\ [SequentialNext]_allVars => Inv'
  <2> SUFFICES ASSUME Inv, [SequentialNext]_allVars, part = "RelayDemux" PROVE Demux!ReportsAreSeen'
    BY OnePartMoves
  <2>1. CASE Demux!Next
    <3>1. PICK p \in Demux!Reports \cup Demux!Stun \cup Demux!Rtp(OpusTypes \cup {VideoType}) :
            packet' = p /\ kind' = Demux!ClassifyRelayPacket(p) /\ rtcp' = Demux!IsRtcpPacket(p)
      BY <2>1 DEF Demux!Next, Demux!Arrives
    <3> QED
      BY <3>1, DemuxersAgree DEF Demux!ReportsAreSeen
  <2>2. CASE UNCHANGED Demux!vars
    BY <2>2 DEF Demux!vars, Demux!ReportsAreSeen
  <2> QED
    BY <2>1, <2>2, OnePartMoves
<1>3. Inv => ReportsAreSeen
  BY DEF ReportsAreSeen
<1> QED
  BY <1>1, <1>2, <1>3, PTL DEF SequentialSpec

-----------------------------------------------------------------------------
(* MlowToc.                                                                *)

\* What SpeechIsNotSilence says of one payload.
ApartOn(b, n) ==
  LET toc == Toc!ParseSmplTOC(b)
  IN /\ Toc!IsOpusMlowSpeechPayload(b, n) =>
          /\ toc.vad /\ toc.active /\ ~toc.sid /\ ~toc.stdOpus /\ toc.sampleRate = 16000
          /\ toc.frameMs = IF b < 80 THEN 20 ELSE 60
          /\ ~Toc!IsOpusDtxPayload(b, n)
     /\ Toc!IsOpusDtxPayload(b, n) => ~toc.vad /\ ~toc.voiced /\ ~toc.stdOpus

\* Speech and silence are apart for every first byte and every length.
LEMMA BytesApart ==
  ASSUME NEW b \in 0..255, NEW n \in Nat
  PROVE  ApartOn(b, n)
<1>1. 2 ^ 7 = 128 /\ 2 ^ 6 = 64 /\ 2 ^ 5 = 32 /\ 2 ^ 4 = 16 /\ 2 ^ 3 = 8 /\ 2 ^ 1 = 2
  OBVIOUS
<1> DEFINE toc == Toc!ParseSmplTOC(b)
<1>2. ASSUME Toc!IsOpusMlowSpeechPayload(b, n)
      PROVE  /\ toc.vad /\ toc.active /\ ~toc.sid /\ ~toc.stdOpus /\ toc.sampleRate = 16000
             /\ toc.frameMs = IF b < 80 THEN 20 ELSE 60
             /\ ~Toc!IsOpusDtxPayload(b, n)
  <2>1. b \in 72..87 /\ n >= 18
    BY <1>1, <1>2 DEF Toc!IsOpusMlowSpeechPayload, Toc!High
  <2>2. b \div 64 = 1 /\ b \div 128 = 0 /\ b \div 32 = 2 /\ b \div 8 = IF b < 80 THEN 9 ELSE 10
    BY <2>1
  <2>3. Toc!Bit(b, 6) = TRUE /\ Toc!Bit(b, 7) = FALSE /\ Toc!Bit(b, 5) = FALSE /\ Toc!High(b, 6) # 3
    BY <1>1, <2>2 DEF Toc!High, Toc!Bit
  <2>4. (Toc!High(b, 3) % 4) + 1 = IF b < 80 THEN 2 ELSE 3
    BY <1>1, <2>1, <2>2 DEF Toc!High
  <2>5. ~Toc!IsOpusDtxPayload(b, n)
    BY <1>1, <2>1 DEF Toc!IsOpusDtxPayload
  <2>6. toc.frameMs = <<10, 20, 60, 120>>[(Toc!High(b, 3) % 4) + 1]
    BY <2>3 DEF Toc!ParseSmplTOC
  <2>7. toc.frameMs = IF b < 80 THEN 20 ELSE 60
    BY <2>1, <2>4, <2>6
  <2>8. toc.vad = TRUE
    BY <2>3 DEF Toc!ParseSmplTOC
  <2>9. toc.active = (Toc!Bit(b, 6) \/ Toc!Bit(b, 1))
    BY <2>3 DEF Toc!ParseSmplTOC, Toc!Bit
  <2>a. toc.sid = FALSE
    BY <2>3 DEF Toc!ParseSmplTOC
  <2>b. toc.stdOpus = FALSE
    BY <2>3 DEF Toc!ParseSmplTOC
  <2>c. toc.sampleRate = 16000
    BY <2>3 DEF Toc!ParseSmplTOC
  <2> HIDE DEF toc
  <2>d. toc.active = TRUE
    BY <2>3, <2>9
  <2>e. toc.vad /\ toc.active /\ ~toc.sid /\ ~toc.stdOpus /\ toc.sampleRate = 16000
    BY <2>8, <2>a, <2>b, <2>c, <2>d
  <2> QED
    BY <2>5, <2>7, <2>e
<1>3. ASSUME Toc!IsOpusDtxPayload(b, n)
      PROVE  ~toc.vad /\ ~toc.voiced /\ ~toc.stdOpus
  <2>1. b \div 64 \in {0, 2}
    BY <1>1, <1>3 DEF Toc!IsOpusDtxPayload, Toc!High
  <2>2. Toc!Bit(b, 6) = FALSE /\ Toc!High(b, 6) # 3
    BY <1>1, <2>1 DEF Toc!High, Toc!Bit
  <2>3. toc.vad = FALSE
    BY <2>2 DEF Toc!ParseSmplTOC
  <2>4. toc.voiced = (Toc!Bit(b, 6) /\ Toc!Bit(b, 1))
    BY <2>2 DEF Toc!ParseSmplTOC, Toc!Bit
  <2>5. toc.stdOpus = FALSE
    BY <2>2 DEF Toc!ParseSmplTOC
  <2> HIDE DEF toc
  <2> QED
    BY <2>2, <2>3, <2>4, <2>5
<1> QED
  BY <1>2, <1>3 DEF ApartOn

\* At every first byte and length, what is speech to rtp.go is speech to toc.go,
\* and what is silence to rtp.go carries no voice flag of toc.go
\* (rtp.go:50-78, toc.go:43-75).
THEOREM SpeechAndSilenceApart == SequentialSpec => []SpeechIsNotSilence
<1> DEFINE Inv == part = "MlowToc" => first \in 0..255 /\ size \in Nat
<1>1. SequentialInit => Inv
  BY SequentialAssumption DEF SequentialInit, Toc!Init, Toc!TocAssumption
<1>2. Inv /\ [SequentialNext]_allVars => Inv'
  <2> SUFFICES ASSUME Inv, [SequentialNext]_allVars, part = "MlowToc" PROVE first' \in 0..255 /\ size' \in Nat
    BY OnePartMoves
  <2>1. [Toc!Next]_(Toc!vars)
    BY OnePartMoves
  <2>2. FrameLens \subseteq Nat
    BY SequentialAssumption DEF Toc!TocAssumption
  <2>3. CASE Toc!Next
    BY <2>2, <2>3 DEF Toc!Next, Toc!Frame
  <2>4. CASE UNCHANGED Toc!vars
    BY <2>4 DEF Toc!vars
  <2> QED
    BY <2>1, <2>3, <2>4
<1>3. Inv => SpeechIsNotSilence
  <2> SUFFICES ASSUME first \in 0..255, size \in Nat PROVE Toc!SpeechIsNotSilence
    BY DEF SpeechIsNotSilence
  <2>1. Toc!SpeechIsNotSilence = ApartOn(first, size)
    BY DEF Toc!SpeechIsNotSilence, ApartOn
  <2> QED
    BY <2>1, BytesApart
<1> QED
  BY <1>1, <1>2, <1>3, PTL DEF SequentialSpec

-----------------------------------------------------------------------------
(* VadHangover.                                                            *)

\* A set of natural numbers that holds 0 and the successor of each member holds
\* them all: induction, without an operator for the predicate.
LEMMA Induct ==
  ASSUME NEW S, 0 \in S, \A n \in Nat : n \in S => n + 1 \in S
  PROVE  Nat \subseteq S
<1> DEFINE T == Nat \ S
<1> SUFFICES ASSUME T # {} PROVE FALSE
  OBVIOUS
<1>1. IsWellFoundedOn(OpToRel(<, Nat), Nat)
  BY NatLessThanWellFounded, Zenon
<1>2. PICK m \in T : \A k \in T : ~(<<k, m>> \in OpToRel(<, Nat))
  BY <1>1, WFMin, Zenon
<1>3. \A k \in Nat : k < m => <<k, m>> \in OpToRel(<, Nat)
  BY DEF OpToRel
<1>4. \A k \in T : ~(k < m)
  BY <1>2, <1>3, Zenon
<1>5. m \in Nat /\ m \notin S
  BY <1>2, Zenon
<1>6. m # 0 /\ m - 1 \in Nat /\ m - 1 < m
  BY <1>5
<1>7. m - 1 \in S
  BY <1>4, <1>6
<1>8. (m - 1) + 1 \in S
  BY <1>6, <1>7
<1> QED
  BY <1>5, <1>8

\* One step of FoldLeft over frames, as the function the library chooses.
Folded(f, base, frames, s) ==
  IF s = {} THEN base ELSE Hangover!Step(f[s \ {Hangover!Max(s)}], frames[Hangover!Max(s)])

IsFold(f, base, frames, n) == f = [s \in SUBSET (1..n) |-> Folded(f, base, frames, s)]

\* A fold over the subsets of 1..n exists as a function, for every n.
LEMMA FoldExists ==
  ASSUME NEW base, NEW frames
  PROVE  \A n \in Nat : \E f : IsFold(f, base, frames, n)
<1> DEFINE P(n) == \E f : f = [s \in SUBSET (1..n) |-> Folded(f, base, frames, s)]
<1>1. P(0)
  <2>1. 1..0 = {}
    OBVIOUS
  <2> DEFINE f == [s \in SUBSET (1..0) |-> base]
  <2>2. f = [s \in SUBSET (1..0) |-> Folded(f, base, frames, s)]
    BY <2>1 DEF Folded
  <2> QED
    BY <2>2
<1>2. ASSUME NEW n \in Nat, P(n) PROVE P(n + 1)
  <2>1. PICK f : f = [s \in SUBSET (1..n) |-> Folded(f, base, frames, s)]
    BY <1>2
  <2> DEFINE g == [s \in SUBSET (1..(n + 1)) |->
                     IF n + 1 \in s THEN Hangover!Step(f[s \ {n + 1}], frames[n + 1]) ELSE f[s]]
  <2>2. ASSUME NEW s \in SUBSET (1..(n + 1)) PROVE g[s] = Folded(g, base, frames, s)
    <3>1. CASE n + 1 \in s
      <4>1. Hangover!Max(s) = n + 1
        <5>1. \A y \in s : y \in Int /\ n + 1 >= y
          OBVIOUS
        <5>2. \A x \in s : (\A y \in s : x >= y) => x = n + 1
          BY <3>1, <5>1
        <5> QED
          BY <3>1, <5>1, <5>2 DEF Hangover!Max
      <4>2. s \ {n + 1} \in SUBSET (1..(n + 1)) /\ n + 1 \notin s \ {n + 1}
        OBVIOUS
      <4>3. g[s \ {n + 1}] = f[s \ {n + 1}]
        BY <4>2
      <4> QED
        BY <3>1, <4>1, <4>3 DEF Folded
    <3>2. CASE n + 1 \notin s
      <4>1. s \in SUBSET (1..n)
        BY <3>2
      <4>2. g[s] = Folded(f, base, frames, s)
        BY <2>1, <3>2, <4>1
      <4>3. CASE s # {}
        <5>1. s \ {Hangover!Max(s)} \in SUBSET (1..(n + 1)) /\ n + 1 \notin s \ {Hangover!Max(s)}
          <6>1. \A x : s \ {x} \in SUBSET (1..(n + 1)) /\ n + 1 \notin s \ {x}
            BY <3>2
          <6> QED
            BY <6>1
        <5>2. g[s \ {Hangover!Max(s)}] = f[s \ {Hangover!Max(s)}]
          BY <5>1
        <5> QED
          BY <4>2, <4>3, <5>2 DEF Folded
      <4> QED
        BY <4>2, <4>3 DEF Folded
    <3> QED
      BY <3>1, <3>2
  <2>3. g = [s \in SUBSET (1..(n + 1)) |-> Folded(g, base, frames, s)]
    BY <2>2
  <2> QED
    BY <2>3
<1> DEFINE S == {n \in Nat : P(n)}
<1> HIDE DEF P
<1>3. 0 \in S /\ \A n \in Nat : n \in S => n + 1 \in S
  BY <1>1, <1>2
<1>4. Nat \subseteq S
  BY <1>3, Induct
<1>5. \A n \in Nat : P(n)
  BY <1>4
<1> QED
  BY <1>5 DEF P, IsFold

\* FoldLeft goes through the frames one by one.
FoldRun(s, base, frames, n) ==
  /\ s[0] = base
  /\ \A k \in 1..n : s[k] = Hangover!Step(s[k - 1], frames[k])
  /\ s[n] = Hangover!FoldLeft(Hangover!Step, base, frames)

\* The fold of a packet is the last of n + 1 states, each one step from the one before.
LEMMA FoldSteps ==
  ASSUME NEW base, NEW n \in Nat, NEW frames, DOMAIN frames = 1..n
  PROVE  \E s : FoldRun(s, base, frames, n)
<1> DEFINE I(f) == f = [s \in SUBSET (1..n) |-> Folded(f, base, frames, s)]
           iter == CHOOSE f : I(f)
<1>0. \E f : I(f)
  <2>1. \E f : IsFold(f, base, frames, n)
    BY FoldExists
  <2> QED
    BY <2>1 DEF I, IsFold
<1>1. iter = [s \in SUBSET (1..n) |-> Folded(iter, base, frames, s)]
  <2> HIDE DEF I
  <2>1. I(iter)
    BY <1>0
  <2> QED
    BY <2>1 DEF I
<1>2. Hangover!FoldLeft(Hangover!Step, base, frames) = iter[1..n]
  BY DEF Hangover!FoldLeft, Hangover!MapThenFoldSet, Folded
<1> HIDE DEF iter
<1> DEFINE s == [k \in 0..n |-> iter[1..k]]
<1>3. s[0] = base
  <2>1. 1..0 = {} /\ 0 \in 0..n /\ {} \in SUBSET (1..n)
    OBVIOUS
  <2> QED
    BY <1>1, <2>1 DEF Folded
<1>4. ASSUME NEW k \in 1..n PROVE s[k] = Hangover!Step(s[k - 1], frames[k])
  <2>1. Hangover!Max(1..k) = k
    <3>1. \A x \in 1..k : (\A y \in 1..k : x >= y) => x = k
      OBVIOUS
    <3> QED
      BY <3>1 DEF Hangover!Max
  <2>2. (1..k) \ {k} = 1..(k - 1) /\ 1..k \in SUBSET (1..n) /\ 1..k # {} /\ k \in 0..n /\ k - 1 \in 0..n
    OBVIOUS
  <2> QED
    BY <1>1, <2>1, <2>2 DEF Folded
<1>5. s[n] = iter[1..n]
  OBVIOUS
<1> HIDE DEF s
<1>6. FoldRun(s, base, frames, n)
  BY <1>2, <1>3, <1>4, <1>5 DEF FoldRun
<1> QED
  BY <1>6

\* Frame k of v is speech or in the hangover of speech before it; Voiced of the
\* history so far.
VoicedIn(v, k) == k <= Hangover!Covered \/ \E j \in (k - Hangover!Covered)..k : j >= 1 /\ v[j]

\* After the first n frames of v, d of them silent since the last speech (or the
\* start of the call), r is left of the hangover.
LeftOver(v, n, r) ==
  \E d \in 0..n : /\ \A j \in (n - d + 1)..n : ~v[j]
                  /\ d = n \/ v[n - d]
                  /\ r = HangoverMs - Noise!least(d, Hangover!Covered) * Hangover!FrameMs

\* Covered frames are the fewest that take HangoverMs or more.
LEMMA CoveredExact ==
  /\ HangoverMs \in Nat /\ Hangover!FrameMs \in Nat \ {0} /\ Hangover!Covered \in Nat
  /\ FramesPerPacket \in Nat \ {0}
  /\ \A d \in Nat : d * Hangover!FrameMs < HangoverMs <=> d < Hangover!Covered
<1> DEFINE f == Hangover!FrameMs
           c == Hangover!Covered
<1>1. /\ FramesPerPacket \in Nat \ {0} /\ PacketMs \in Nat \ {0} /\ FramesPerPacket <= PacketMs
      /\ HangoverMs \in Nat
  BY SequentialAssumption DEF Hangover!HangoverAssumption
<1>2. f \in Nat \ {0}
  BY <1>1, FloorDiv DEF Hangover!FrameMs
<1> HIDE DEF f
<1>3. c \in Nat /\ f * c <= HangoverMs + f - 1 /\ HangoverMs + f - 1 < f * c + f
  <2>1. c = (HangoverMs + f - 1) \div f
    BY DEF Hangover!Covered, f
  <2> DEFINE a == HangoverMs + f - 1
  <2>2. a \in Int /\ a >= 0 /\ c = a \div f
    BY <1>1, <1>2, <2>1
  <2> HIDE DEF a
  <2>3. f * (a \div f) <= a /\ a < f * (a \div f) + f /\ a \div f \in 0..a
    BY <1>2, <2>2, FloorDiv
  <2> QED
    BY <2>2, <2>3 DEF a
<1> HIDE DEF c
<1>4. ASSUME NEW d \in Nat PROVE d * f < HangoverMs <=> d < c
  <2>1. CASE d < c
    <3>1. f * (d + 1) <= f * c
      BY <1>2, <1>3, <2>1
    <3>2. f * (d + 1) = d * f + f
      BY <1>2
    <3> QED
      BY <1>1, <1>2, <1>3, <2>1, <3>1, <3>2
  <2>2. CASE d >= c
    <3>1. f * c <= d * f
      BY <1>2, <1>3, <2>2
    <3> QED
      BY <1>1, <1>2, <1>3, <2>2, <3>1
  <2> QED
    BY <1>3, <2>1, <2>2
<1> QED
  BY <1>1, <1>2, <1>3, <1>4 DEF f, c

\* One frame: what is left of the hangover stays true, and the frame is counted
\* as active exactly when it is voiced.
LEMMA FrameVoiced ==
  ASSUME NEW v, NEW n \in Nat, NEW st, LeftOver(v, n, st.remaining),
         st.coded \in BOOLEAN, v[n + 1] \in BOOLEAN
  PROVE  LET s == Hangover!Step(st, v[n + 1])
         IN /\ LeftOver(v, n + 1, s.remaining) /\ s.coded \in BOOLEAN
            /\ s.coded <=> st.coded \/ VoicedIn(v, n + 1)
<1> DEFINE c == Hangover!Covered
           f == Hangover!FrameMs
           r == st.remaining
           s == Hangover!Step(st, v[n + 1])
<1>1. /\ HangoverMs \in Nat /\ f \in Nat \ {0} /\ c \in Nat
      /\ \A d \in Nat : d * f < HangoverMs <=> d < c
  BY CoveredExact
<1>2. PICK d \in 0..n : /\ \A j \in (n - d + 1)..n : ~v[j]
                        /\ d = n \/ v[n - d]
                        /\ r = HangoverMs - Noise!least(d, c) * f
  BY DEF LeftOver
<1> HIDE DEF c, f, r
<1>3. r > 0 <=> d < c
  <2>1. CASE d < c
    <3>1. Noise!least(d, c) = d /\ d * f < HangoverMs /\ d * f \in Nat
      BY <1>1, <1>2, <2>1 DEF Noise!least
    <3> QED
      BY <1>1, <1>2, <2>1, <3>1
  <2>2. CASE d >= c
    <3>1. Noise!least(d, c) = c /\ ~(c * f < HangoverMs) /\ c * f \in Nat
      BY <1>1, <1>2, <2>2 DEF Noise!least
    <3> QED
      BY <1>1, <1>2, <2>2, <3>1
  <2> QED
    BY <1>1, <2>1, <2>2
<1>4. s.remaining = IF v[n + 1] THEN HangoverMs ELSE IF r > 0 THEN r - f ELSE r
  BY DEF Hangover!Step, r, f
<1>5. s.coded = (st.coded \/ v[n + 1] \/ r > 0)
  BY DEF Hangover!Step, r
<1> HIDE DEF s
<1>6. LeftOver(v, n + 1, s.remaining)
  <2>1. CASE v[n + 1]
    <3>1. Noise!least(0, c) * f = 0
      BY <1>1 DEF Noise!least
    <3>2. /\ 0 \in 0..(n + 1) /\ \A j \in ((n + 1) - 0 + 1)..(n + 1) : ~v[j]
          /\ v[(n + 1) - 0] /\ s.remaining = HangoverMs - Noise!least(0, c) * f
      BY <1>1, <1>4, <2>1, <3>1
    <3> QED
      BY <3>2 DEF LeftOver, c, f
  <2>2. CASE ~v[n + 1]
    <3>1. s.remaining = HangoverMs - Noise!least(d + 1, c) * f
      <4>1. CASE d < c
        <5>1. Noise!least(d, c) = d /\ Noise!least(d + 1, c) = d + 1
          BY <1>1, <1>2, <4>1 DEF Noise!least
        <5>2. (d + 1) * f = d * f + f /\ d * f \in Int
          BY <1>1, <1>2
        <5> QED
          BY <1>1, <1>2, <1>3, <1>4, <2>2, <4>1, <5>1, <5>2
      <4>2. CASE d >= c
        <5>1. Noise!least(d, c) = c /\ Noise!least(d + 1, c) = c
          BY <1>1, <1>2, <4>2 DEF Noise!least
        <5> QED
          BY <1>1, <1>2, <1>3, <1>4, <2>2, <4>2, <5>1
      <4> QED
        BY <1>1, <4>1, <4>2
    <3>2. d + 1 \in 0..(n + 1) /\ (d + 1 = n + 1 \/ v[(n + 1) - (d + 1)])
      <4>1. (n + 1) - (d + 1) = n - d
        BY <1>2
      <4> QED
        BY <1>2, <4>1
    <3>3. \A j \in ((n + 1) - (d + 1) + 1)..(n + 1) : ~v[j]
      <4>1. \A j \in ((n + 1) - (d + 1) + 1)..(n + 1) : j \in (n - d + 1)..n \/ j = n + 1
        BY <1>2
      <4> QED
        BY <1>2, <2>2, <4>1
    <3> QED
      BY <3>1, <3>2, <3>3 DEF LeftOver, c, f
  <2> QED
    BY <2>1, <2>2
<1>7. v[n + 1] \/ d < c <=> VoicedIn(v, n + 1)
  <2>1. ASSUME v[n + 1] PROVE VoicedIn(v, n + 1)
    <3>1. n + 1 \in ((n + 1) - c)..(n + 1) /\ n + 1 >= 1
      BY <1>1
    <3> QED
      BY <2>1, <3>1 DEF VoicedIn, c
  <2>2. ASSUME d < c PROVE VoicedIn(v, n + 1)
    <3>1. CASE d = n
      BY <1>1, <2>2, <3>1 DEF VoicedIn, c
    <3>2. CASE d # n
      <4>1. n - d \in ((n + 1) - c)..(n + 1) /\ n - d >= 1 /\ v[n - d]
        BY <1>1, <1>2, <2>2, <3>2
      <4> QED
        BY <4>1 DEF VoicedIn, c
    <3> QED
      BY <3>1, <3>2
  <2>3. ASSUME ~v[n + 1], d >= c PROVE ~VoicedIn(v, n + 1)
    <3>1. ~(n + 1 <= c)
      BY <1>1, <1>2, <2>3
    <3>2. \A j \in ((n + 1) - c)..(n + 1) : j >= 1 => j = n + 1 \/ j \in (n - d + 1)..n
      BY <1>1, <1>2, <2>3
    <3>3. ~ \E j \in ((n + 1) - c)..(n + 1) : j >= 1 /\ v[j]
      BY <1>2, <2>3, <3>2
    <3> QED
      BY <3>1, <3>3 DEF VoicedIn, c
  <2> QED
    BY <1>1, <1>2, <2>1, <2>2, <2>3
<1> QED
  BY <1>3, <1>5, <1>6, <1>7 DEF s

\* One packet: it is coded as active exactly when one of its frames is voiced.
LEMMA PacketVoiced ==
  ASSUME NEW v, NEW n \in Nat, NEW frames, NEW r,
         DOMAIN frames = 1..FramesPerPacket, LeftOver(v, n, r),
         \A k \in 1..FramesPerPacket : frames[k] \in BOOLEAN /\ v[n + k] = frames[k]
  PROVE  LET last == Hangover!FoldLeft(Hangover!Step, [remaining |-> r, coded |-> FALSE], frames)
         IN /\ LeftOver(v, n + FramesPerPacket, last.remaining) /\ last.coded \in BOOLEAN
            /\ last.coded <=> \E j \in 1..FramesPerPacket : VoicedIn(v, n + j)
<1> DEFINE base == [remaining |-> r, coded |-> FALSE]
           f == FramesPerPacket
<1>1. f \in Nat
  BY CoveredExact
<1>2. PICK s : /\ s[0] = base
               /\ \A k \in 1..f : s[k] = Hangover!Step(s[k - 1], frames[k])
               /\ s[f] = Hangover!FoldLeft(Hangover!Step, base, frames)
  <2>1. \E s : FoldRun(s, base, frames, f)
    BY <1>1, FoldSteps
  <2> QED
    BY <2>1 DEF FoldRun
<1> DEFINE Holds(k) == /\ LeftOver(v, n + k, s[k].remaining) /\ s[k].coded \in BOOLEAN
                       /\ s[k].coded <=> \E j \in 1..k : VoicedIn(v, n + j)
           S == {k \in Nat : k <= f => Holds(k)}
<1>3. 0 \in S
  <2>1. s[0].remaining = r /\ s[0].coded = FALSE /\ 1..0 = {} /\ n + 0 = n
    BY <1>2
  <2> QED
    BY <1>1, <2>1
<1>4. ASSUME NEW k \in Nat, k \in S PROVE k + 1 \in S
  <2> SUFFICES ASSUME k + 1 <= f PROVE Holds(k + 1)
    BY <1>1
  <2>1. Holds(k)
    BY <1>1, <1>4
  <2>2. k + 1 \in 1..f /\ (k + 1) - 1 = k /\ n + (k + 1) = (n + k) + 1 /\ n + k \in Nat
    BY <1>1
  <2>3. s[k + 1] = Hangover!Step(s[k], v[(n + k) + 1]) /\ v[(n + k) + 1] \in BOOLEAN
    BY <1>2, <2>2
  <2>4. /\ LeftOver(v, (n + k) + 1, s[k + 1].remaining) /\ s[k + 1].coded \in BOOLEAN
        /\ s[k + 1].coded <=> s[k].coded \/ VoicedIn(v, (n + k) + 1)
    BY <2>1, <2>2, <2>3, FrameVoiced, SMTT(30)
  <2>5. (\E j \in 1..(k + 1) : VoicedIn(v, n + j)) <=> (\E j \in 1..k : VoicedIn(v, n + j)) \/ VoicedIn(v, n + (k + 1))
    <3>1. \A j : j \in 1..(k + 1) <=> j \in 1..k \/ j = k + 1
      OBVIOUS
    <3> QED
      BY <3>1
  <2> QED
    BY <2>1, <2>2, <2>4, <2>5
<1> HIDE DEF S, Holds
<1>5. f \in S
  BY <1>1, <1>3, <1>4, Induct
<1>6. Holds(f)
  BY <1>1, <1>5 DEF S
<1> QED
  BY <1>2, <1>6 DEF Holds

\* What is left of the hangover follows from the frames so far, and so does what
\* each packet was coded as.
HangoverInv ==
  /\ speech \in Seq(BOOLEAN) /\ coded \in Seq(BOOLEAN)
  /\ Len(speech) = Len(coded) * FramesPerPacket
  /\ LeftOver(speech, Len(speech), remaining)
  /\ \A k \in DOMAIN coded :
       coded[k] <=> \E j \in ((k - 1) * FramesPerPacket + 1)..(k * FramesPerPacket) : VoicedIn(speech, j)

\* Frames appended change nothing of what the frames before them say.
LEMMA VoicedStays ==
  ASSUME NEW v \in Seq(BOOLEAN), NEW frames \in Seq(BOOLEAN), NEW k \in 1..Len(v)
  PROVE  VoicedIn(v \o frames, k) <=> VoicedIn(v, k)
<1>1. Hangover!Covered \in Nat
  BY CoveredExact
<1>2. \A j \in (k - Hangover!Covered)..k : j >= 1 => (v \o frames)[j] = v[j]
  BY <1>1
<1> QED
  BY <1>2 DEF VoicedIn

\* The hangover left after v depends on v alone, whatever frames follow.
LEMMA LeftOverStays ==
  ASSUME NEW v \in Seq(BOOLEAN), NEW frames \in Seq(BOOLEAN), NEW r, LeftOver(v, Len(v), r)
  PROVE  LeftOver(v \o frames, Len(v), r)
<1>1. PICK d \in 0..Len(v) : /\ \A j \in (Len(v) - d + 1)..Len(v) : ~v[j]
                             /\ d = Len(v) \/ v[Len(v) - d]
                             /\ r = HangoverMs - Noise!least(d, Hangover!Covered) * Hangover!FrameMs
  BY DEF LeftOver
<1>2. \A j \in 1..Len(v) : (v \o frames)[j] = v[j]
  OBVIOUS
<1>3. \A j \in (Len(v) - d + 1)..Len(v) : j \in 1..Len(v)
  OBVIOUS
<1>4. d # Len(v) => Len(v) - d \in 1..Len(v)
  OBVIOUS
<1> QED
  BY <1>1, <1>2, <1>3, <1>4 DEF LeftOver

\* Where the elements of w are in v \o w.
LEMMA Appended ==
  ASSUME NEW S, NEW v \in Seq(S), NEW w \in Seq(S)
  PROVE  /\ v \o w \in Seq(S) /\ Len(v \o w) = Len(v) + Len(w)
         /\ \A k \in 1..Len(w) : (v \o w)[Len(v) + k] = w[k] /\ w[k] \in S
OBVIOUS

\* The frames of packet k of c are frames of those c packets.
LEMMA EarlierPacket ==
  ASSUME NEW c \in Nat, NEW f \in Nat, NEW k \in 1..c
  PROVE  \A j \in ((k - 1) * f + 1)..(k * f) : j \in 1..(c * f)
<1>1. (k - 1) * f \in Int /\ k * f \in Int /\ c * f \in Int
  OBVIOUS
<1>2. (k - 1) * f >= 0
  BY Z3T(20)
<1>3. c * f = k * f + (c - k) * f /\ (c - k) * f >= 0
  BY Z3T(20)
<1> QED
  BY <1>1, <1>2, <1>3

\* A packet of frames keeps the decisions and the hangover they leave true.
LEMMA HangoverPacket ==
  ASSUME HangoverInv, NEW frames \in [1..FramesPerPacket -> BOOLEAN], Hangover!ProcessPacket(frames)
  PROVE  HangoverInv'
<1> DEFINE n == Len(speech)
           v == speech \o frames
           c == Len(coded)
           f == FramesPerPacket
           last == Hangover!FoldLeft(Hangover!Step, [remaining |-> remaining, coded |-> FALSE], frames)
           coded1 == Append(coded, last.coded)
<1>1. /\ f \in Nat \ {0} /\ n \in Nat /\ c \in Nat /\ n = c * f
      /\ speech \in Seq(BOOLEAN) /\ coded \in Seq(BOOLEAN)
  BY CoveredExact DEF HangoverInv
<1>2. frames \in Seq(BOOLEAN) /\ Len(frames) = f /\ DOMAIN frames = 1..f
  BY <1>1
<1>3. speech' = v /\ remaining' = last.remaining /\ coded' = coded1
  BY DEF Hangover!ProcessPacket
<1>4. v \in Seq(BOOLEAN) /\ Len(v) = n + f /\ \A k \in 1..f : v[n + k] = frames[k] /\ frames[k] \in BOOLEAN
  BY <1>1, <1>2, Appended, ZenonT(30)
<1>5. LeftOver(v, n, remaining)
  BY <1>1, <1>2, LeftOverStays DEF HangoverInv
<1> HIDE DEF v, last
<1>6. /\ LeftOver(v, n + f, last.remaining) /\ last.coded \in BOOLEAN
      /\ last.coded <=> \E j \in 1..f : VoicedIn(v, n + j)
  BY <1>1, <1>2, <1>4, <1>5, PacketVoiced DEF last
<1>7. coded1 \in Seq(BOOLEAN) /\ Len(coded1) = c + 1 /\ coded1[c + 1] = last.coded
      /\ \A k \in 1..c : coded1[k] = coded[k]
  BY <1>1, <1>6
<1> HIDE DEF coded1
<1>8. n + f = (c + 1) * f
  BY <1>1
<1>9. ASSUME NEW k \in 1..(c + 1)
      PROVE  coded1[k] <=> \E j \in ((k - 1) * f + 1)..(k * f) : VoicedIn(v, j)
  <2>1. CASE k \in 1..c
    <3>1. \A j \in ((k - 1) * f + 1)..(k * f) : j \in 1..n
      BY <1>1, <2>1, EarlierPacket
    <3>2. \A j \in 1..n : VoicedIn(v, j) <=> VoicedIn(speech, j)
      BY <1>1, <1>2, VoicedStays DEF v
    <3>3. coded[k] <=> \E j \in ((k - 1) * f + 1)..(k * f) : VoicedIn(speech, j)
      <4>1. k \in DOMAIN coded
        BY <1>1, <2>1
      <4> QED
        BY <4>1, Zenon DEF HangoverInv
    <3>4. coded1[k] = coded[k]
      BY <1>7, <2>1
    <3> QED
      BY <3>1, <3>2, <3>3, <3>4, Zenon
  <2>2. CASE k = c + 1
    <3>1. (k - 1) * f = n /\ k * f = n + f
      BY <1>1, <1>8, <2>2
    <3>2. (\E j \in 1..f : VoicedIn(v, n + j)) <=> (\E j \in (n + 1)..(n + f) : VoicedIn(v, j))
      <4>1. ASSUME NEW j \in (n + 1)..(n + f), VoicedIn(v, j) PROVE \E m \in 1..f : VoicedIn(v, n + m)
        <5>1. j - n \in 1..f /\ n + (j - n) = j
          BY <1>1
        <5> QED
          BY <4>1, <5>1
      <4>2. ASSUME NEW j \in 1..f, VoicedIn(v, n + j) PROVE \E m \in (n + 1)..(n + f) : VoicedIn(v, m)
        <5>1. n + j \in (n + 1)..(n + f)
          BY <1>1
        <5> QED
          BY <4>2, <5>1
      <4> QED
        BY <4>1, <4>2
    <3> QED
      BY <1>6, <1>7, <2>2, <3>1, <3>2
  <2> QED
    BY <1>1, <2>1, <2>2
<1>a. /\ speech' \in Seq(BOOLEAN) /\ coded' \in Seq(BOOLEAN)
      /\ Len(speech') = Len(coded') * f /\ LeftOver(speech', Len(speech'), remaining')
  BY <1>3, <1>4, <1>6, <1>7, <1>8
<1>b. DOMAIN coded' = 1..(c + 1)
  BY <1>3, <1>7
<1>c. \A k \in DOMAIN coded' : coded'[k] <=> \E j \in ((k - 1) * f + 1)..(k * f) : VoicedIn(speech', j)
  BY <1>3, <1>9, <1>b, Zenon
<1> QED
  BY <1>a, <1>c, Zenon DEF HangoverInv

\* A packet is coded as active exactly when one of its frames is speech or in
\* the hangover of speech before it, whatever the frames, the lengths of a frame
\* and of the hangover, and however packets cut the frames (vad.go:379-389).
THEOREM VoiceIsCoded == SequentialSpec => []CodedWhenVoiced
<1> DEFINE Inv == part = "VadHangover" => HangoverInv
<1>1. SequentialInit => Inv
  <2> SUFFICES ASSUME SequentialInit PROVE HangoverInv
    OBVIOUS
  <2>1. remaining = HangoverMs /\ speech = <<>> /\ coded = <<>>
    BY DEF SequentialInit, Hangover!Init
  <2>2. LeftOver(speech, 0, remaining)
    <3>1. HangoverMs \in Nat /\ Hangover!FrameMs \in Nat /\ Hangover!Covered \in Nat
      BY CoveredExact
    <3>2. HangoverMs = HangoverMs - Noise!least(0, Hangover!Covered) * Hangover!FrameMs
      BY <3>1 DEF Noise!least
    <3> QED
      BY <2>1, <3>2 DEF LeftOver
  <2>3. FramesPerPacket \in Nat
    BY CoveredExact
  <2> QED
    BY <2>1, <2>2, <2>3 DEF HangoverInv
<1>2. Inv /\ [SequentialNext]_allVars => Inv'
  <2> SUFFICES ASSUME Inv, [SequentialNext]_allVars, part = "VadHangover" PROVE HangoverInv'
    BY OnePartMoves
  <2>1. [Hangover!Next]_(Hangover!vars)
    BY OnePartMoves
  <2>2. CASE UNCHANGED Hangover!vars
    BY <2>2 DEF HangoverInv, Hangover!vars
  <2>3. CASE Hangover!Next
    BY <2>3, HangoverPacket DEF Hangover!Next
  <2> QED
    BY <2>1, <2>2, <2>3
<1>3. Inv => CodedWhenVoiced
  <2> SUFFICES ASSUME HangoverInv PROVE Hangover!CodedWhenVoiced
    BY DEF CodedWhenVoiced
  <2>1. \A j : VoicedIn(speech, j) <=> Hangover!Voiced(j)
    BY DEF VoicedIn, Hangover!Voiced
  <2> QED
    BY <2>1 DEF HangoverInv, Hangover!CodedWhenVoiced
<1> QED
  BY <1>1, <1>2, <1>3, PTL DEF SequentialSpec

-----------------------------------------------------------------------------
(* H264.                                                                   *)

NaluByte == Video!Units \X Nat
Payloads ==
  [kind : {"single"}, body : Seq(NaluByte)] \cup [kind : {"stapa"}, nalus : Seq(Seq(NaluByte))]
    \cup [kind : {"fua"}, head : NaluByte, body : Seq(NaluByte), start : BOOLEAN, end : BOOLEAN]

VideoTypes ==
  /\ next \in Nat \ {0} /\ flight \in Seq(Payloads) /\ arrived \in Seq(Payloads)
  /\ fuActive \in BOOLEAN /\ fuBuf \in Seq(NaluByte) /\ out \in Seq(Seq(NaluByte))

\* The facts about the constants the proofs use; a fragmented unit has count
\* fragments, each but the last full.
LEMMA VideoConstants ==
  /\ Mtu \in Nat /\ MaxFu \in Nat /\ Mtu <= MaxFu
  /\ Video!FragSize \in Nat \ {0} /\ Video!FragSize + 2 = Mtu
  /\ Video!Units = 1..Len(UnitLen) /\ Len(UnitLen) \in Nat
  /\ \A u \in Video!Units : UnitLen[u] \in Nat \ {0}
BY SequentialAssumption DEF Video!H264Assumption, Video!FragSize, Video!Units

FragCount(u) == (UnitLen[u] - 2) \div Video!FragSize + 1

\* A unit over the MTU has at least two fragments, and the last one alone reaches its end.
LEMMA FragCountExact ==
  ASSUME NEW u \in Video!Units, UnitLen[u] > Mtu
  PROVE  /\ FragCount(u) \in Nat \ {0, 1}
         /\ \A k \in Nat \ {0} : k < FragCount(u) <=> k * Video!FragSize + 1 < UnitLen[u]
<1> DEFINE f == Video!FragSize
           c == FragCount(u)
           a == UnitLen[u] - 2
<1>1. f \in Nat \ {0} /\ a \in Nat /\ a > f - 1 /\ UnitLen[u] \in Nat
  BY VideoConstants
<1>2. c = a \div f + 1
  BY DEF FragCount
<1>3. a \div f \in Int /\ f * (a \div f) <= a /\ a < f * (a \div f) + f /\ a \div f >= 1
  <2> HIDE DEF a, f
  <2> QED
    BY <1>1, FloorDiv
<1> DEFINE q == a \div f
<1> HIDE DEF q, c
<1>4. ASSUME NEW k \in Nat \ {0} PROVE k < c <=> k * f + 1 < UnitLen[u]
  <2>1. UnitLen[u] = a + 2
    BY <1>1
  <2> HIDE DEF a, f
  <2>2. q \in Int /\ f * q <= a /\ a < f * q + f /\ c = q + 1
    BY <1>2, <1>3 DEF q
  <2>3. CASE k <= q
    <3>1. f * k <= f * q
      BY <1>1, <2>2, <2>3
    <3>2. k * f = f * k
      BY <1>1
    <3> QED
      BY <1>1, <2>1, <2>2, <2>3, <3>1, <3>2
  <2>4. CASE k > q
    <3>1. f * (q + 1) <= f * k
      BY <1>1, <2>2, <2>4
    <3>2. k * f = f * k /\ f * (q + 1) = f * q + f
      BY <1>1, <2>2
    <3> QED
      BY <1>1, <2>1, <2>2, <2>4, <3>1, <3>2
  <2> QED
    BY <2>2, <2>3, <2>4
<1>5. c \in Nat \ {0, 1}
  BY <1>2, <1>3 DEF q
<1> QED
  BY <1>4, <1>5 DEF c

\* A cut of a unit's bytes is a sequence of them of the length asked for.
LEMMA BytesTyped ==
  ASSUME NEW u \in Video!Units, NEW from \in Nat, NEW to \in Nat, from <= to + 1
  PROVE  /\ Video!Bytes(u, from, to) \in Seq(NaluByte)
         /\ Len(Video!Bytes(u, from, to)) = to - from + 1
<1>1. to - from + 1 \in Nat
  OBVIOUS
<1>2. \A k \in 1..(to - from + 1) : <<u, from + k - 1>> \in NaluByte
  BY DEF NaluByte
<1> QED
  BY <1>1, <1>2 DEF Video!Bytes

\* The fragment k of a unit carries its bytes from where the one before it ends.
LEMMA FragmentExact ==
  ASSUME NEW u \in Video!Units, UnitLen[u] > Mtu, NEW k \in 1..FragCount(u)
  PROVE  LET f == Video!FragSize
             p == Video!Fragments(u)[k]
             to == IF k < FragCount(u) THEN k * f + 1 ELSE UnitLen[u]
         IN /\ p \in Payloads /\ p.kind = "fua" /\ p.head = <<u, 1>>
            /\ p.body = Video!Bytes(u, (k - 1) * f + 2, to) /\ (k - 1) * f + 2 <= to /\ to <= UnitLen[u]
            /\ to \in Nat /\ (k - 1) * f \in Nat
            /\ p.start <=> k = 1
            /\ p.end <=> k = FragCount(u)
<1> DEFINE f == Video!FragSize
           p == Video!Fragments(u)[k]
           to == IF k < FragCount(u) THEN k * f + 1 ELSE UnitLen[u]
           from == 2 + (k - 1) * f
<1>1. /\ f \in Nat \ {0} /\ UnitLen[u] \in Nat \ {0} /\ FragCount(u) \in Nat \ {0, 1}
      /\ k < FragCount(u) <=> k * f + 1 < UnitLen[u]
      /\ k > 1 => (k - 1) * f + 1 < UnitLen[u]
      /\ UnitLen[u] > f + 2
  <2>1. k > 1 => k - 1 \in Nat \ {0} /\ k - 1 < FragCount(u)
    BY FragCountExact
  <2> QED
    BY <2>1, VideoConstants, FragCountExact
<1>2. k * f = (k - 1) * f + f /\ (k - 1) * f \in Nat /\ (k = 1 => (k - 1) * f = 0) /\ (k > 1 => (k - 1) * f >= 1)
  <2>1. (k - 1) \in Nat
    BY <1>1
  <2>2. k * f = (k - 1) * f + f /\ (k - 1) * f \in Nat
    BY <1>1, <2>1
  <2>3. k > 1 => (k - 1) * f >= 1 * f
    BY <1>1, <2>1
  <2> QED
    BY <1>1, <2>2, <2>3
<1>3. p = Video!Fragment(u, from)
  BY <1>1 DEF Video!Fragments, FragCount
<1> DEFINE m == (k - 1) * f
<1>4. m \in Nat /\ k * f = m + f /\ (k = 1 => m = 0) /\ (k > 1 => m >= 1) /\ from = m + 2
  BY <1>2
<1>5. /\ (k < FragCount(u) <=> m + f + 1 < UnitLen[u]) /\ (k > 1 => m + 1 < UnitLen[u])
      /\ to = IF k < FragCount(u) THEN m + f + 1 ELSE UnitLen[u]
  BY <1>1, <1>4
<1> HIDE DEF m, f, to, from, p
<1>6. to = Video!Min({from + f - 1, UnitLen[u]})
  <2>1. \A x, y \in Int : Video!Min({x, y}) = IF x <= y THEN x ELSE y
    <3> TAKE x, y \in Int
    <3>1. CASE x <= y
      BY <3>1 DEF Video!Min
    <3>2. CASE ~(x <= y)
      BY <3>2 DEF Video!Min
    <3> QED
      BY <3>1, <3>2
  <2> QED
    BY <1>1, <1>4, <1>5, <2>1
<1>7. p = [kind |-> "fua", head |-> <<u, 1>>, body |-> Video!Bytes(u, from, to),
           start |-> from = 2, end |-> to = UnitLen[u]]
  BY <1>3, <1>6 DEF Video!Fragment, f
<1>8. from <= to /\ to <= UnitLen[u] /\ to \in Nat /\ from \in Nat
  BY <1>1, <1>4, <1>5
<1>9. p.kind = "fua" /\ p.head = <<u, 1>> /\ p.body = Video!Bytes(u, from, to)
  BY <1>7
<1>a. p.start = (from = 2) /\ p.end = (to = UnitLen[u])
  BY <1>7
<1>b. (from = 2 <=> k = 1) /\ (to = UnitLen[u] <=> k = FragCount(u))
  BY <1>1, <1>4, <1>5
<1>c. p \in Payloads
  <2>1. from <= to + 1
    BY <1>8
  <2>2. Video!Bytes(u, from, to) \in Seq(NaluByte)
    BY <1>8, <2>1, BytesTyped
  <2>3. <<u, 1>> \in NaluByte
    BY DEF NaluByte
  <2> QED
    BY <1>7, <2>2, <2>3 DEF Payloads
<1> QED
  BY <1>4, <1>8, <1>9, <1>a, <1>b, <1>c DEF m, f, to, from, p

\* A unit is a non-empty sequence of its bytes.
LEMMA NaluTyped ==
  ASSUME NEW u \in Video!Units
  PROVE  Video!Nalu(u) \in Seq(NaluByte) /\ Len(Video!Nalu(u)) = UnitLen[u] /\ UnitLen[u] \in Nat \ {0}
<1>1. UnitLen[u] \in Nat \ {0} /\ 1 <= UnitLen[u] + 1 /\ UnitLen[u] - 1 + 1 = UnitLen[u]
  BY VideoConstants
<1>2. Video!Bytes(u, 1, UnitLen[u]) \in Seq(NaluByte) /\ Len(Video!Bytes(u, 1, UnitLen[u])) = UnitLen[u]
  BY <1>1, BytesTyped
<1> QED
  BY <1>1, <1>2 DEF Video!Nalu

\* What a unit is packed into, fragmented or not.
LEMMA UnitPacked ==
  ASSUME NEW u \in Video!Units
  PROVE  LET ps == Video!PackageH264NALU(u)
         IN /\ ps \in Seq(Payloads) /\ ps # <<>>
            /\ UnitLen[u] <= Mtu => ps = << [kind |-> "single", body |-> Video!Nalu(u)] >>
            /\ UnitLen[u] > Mtu => ps = Video!Fragments(u) /\ Len(ps) = FragCount(u)
<1>1. CASE UnitLen[u] <= Mtu
  <2>1. Video!PackageH264NALU(u) = << [kind |-> "single", body |-> Video!Nalu(u)] >>
    BY <1>1 DEF Video!PackageH264NALU
  <2>2. [kind |-> "single", body |-> Video!Nalu(u)] \in Payloads
    BY NaluTyped DEF Payloads
  <2> QED
    BY <1>1, <2>1, <2>2, VideoConstants
<1>2. CASE UnitLen[u] > Mtu
  <2>1. FragCount(u) \in Nat \ {0, 1} /\ \A k \in 1..FragCount(u) : Video!Fragments(u)[k] \in Payloads
    BY <1>2, FragCountExact, FragmentExact
  <2>2. Video!Fragments(u) = [k \in 1..FragCount(u) |-> Video!Fragments(u)[k]]
    BY DEF Video!Fragments, FragCount
  <2>3. Video!Fragments(u) \in Seq(Payloads) /\ Len(Video!Fragments(u)) = FragCount(u)
    BY <2>1, <2>2
  <2>4. Video!PackageH264NALU(u) = Video!Fragments(u)
    BY <1>2, VideoConstants DEF Video!PackageH264NALU
  <2> QED
    BY <1>2, <2>1, <2>3, <2>4, VideoConstants
<1> QED
  BY <1>1, <1>2, VideoConstants

\* What STAP-A packing returns: nothing, or one payload of the units asked for.
LEMMA AggregatePacked ==
  ASSUME NEW u \in Video!Units, NEW w \in Video!Units, w > u
  PROVE  LET ps == Video!PackageH264STAPA(u, w)
             p == [kind |-> "stapa", nalus |-> [k \in 1..(w - u + 1) |-> Video!Nalu(u + k - 1)]]
         IN (ps = <<>> \/ ps = <<p>>) /\ p \in Payloads
<1> DEFINE p == [kind |-> "stapa", nalus |-> [k \in 1..(w - u + 1) |-> Video!Nalu(u + k - 1)]]
<1>1. Video!PackageH264STAPA(u, w) = <<>> \/ Video!PackageH264STAPA(u, w) = <<p>>
  BY Zenon DEF Video!PackageH264STAPA
<1>2. \A k \in 1..(w - u + 1) : u + k - 1 \in Video!Units
  BY VideoConstants
<1>3. w - u + 1 \in Nat
  BY VideoConstants
<1>4. [k \in 1..(w - u + 1) |-> Video!Nalu(u + k - 1)] \in Seq(Seq(NaluByte))
  <2>1. \A k \in 1..(w - u + 1) : Video!Nalu(u + k - 1) \in Seq(NaluByte)
    BY <1>2, NaluTyped
  <2> QED
    BY <1>3, <2>1
<1>5. p \in Payloads
  BY <1>4 DEF Payloads
<1> QED
  BY <1>1, <1>5

\* What Depacketize does with a payload, case by case.
LEMMA Depacketized ==
  ASSUME NEW p \in Payloads, NEW active \in BOOLEAN, NEW fu
  PROVE  LET r == Video!Depacketize(p, active, fu)
         IN /\ p.kind \in {"single", "stapa", "fua"}
            /\ p.kind = "single" => r = Video!Result(FALSE, fu, <<p.body>>) /\ p.body \in Seq(NaluByte)
            /\ p.kind = "stapa" => r = Video!Result(FALSE, fu, p.nalus) /\ p.nalus \in Seq(Seq(NaluByte))
            /\ p.kind = "fua" => /\ r = Video!DepacketizeFua(p, active, fu)
                                 /\ p.head \in NaluByte /\ p.body \in Seq(NaluByte)
                                 /\ p.start \in BOOLEAN /\ p.end \in BOOLEAN
<1>1. p.kind \in {"single", "stapa", "fua"}
  BY DEF Payloads
<1>2. CASE p.kind = "single"
  <2>1. p.body \in Seq(NaluByte)
    BY <1>2 DEF Payloads
  <2>2. Video!Depacketize(p, active, fu) = Video!Result(FALSE, fu, <<p.body>>)
    BY <1>2 DEF Video!Depacketize
  <2> QED
    BY <1>2, <2>1, <2>2
<1>3. CASE p.kind = "stapa"
  <2>1. p.nalus \in Seq(Seq(NaluByte))
    BY <1>3 DEF Payloads
  <2>2. Video!Depacketize(p, active, fu) = Video!Result(FALSE, fu, p.nalus)
    BY <1>3 DEF Video!Depacketize
  <2> QED
    BY <1>3, <2>1, <2>2
<1>4. CASE p.kind = "fua"
  <2>1. p.head \in NaluByte /\ p.body \in Seq(NaluByte) /\ p.start \in BOOLEAN /\ p.end \in BOOLEAN
    BY <1>4 DEF Payloads
  <2>2. Video!Depacketize(p, active, fu) = Video!DepacketizeFua(p, active, fu)
    BY <1>4 DEF Video!Depacketize
  <2> QED
    BY <1>4, <2>1, <2>2
<1> QED
  BY <1>1, <1>2, <1>3, <1>4

\* The five ways a fragment can be taken.
Collected(p, fu) == IF p.start THEN <<p.head>> \o p.body ELSE fu \o p.body
TakenAs(r, p, active, fu) ==
  \/ ~p.start /\ ~active /\ r = Video!Result(FALSE, fu, <<>>)
  \/ ~p.start /\ active /\ Len(fu) + Len(p.body) > MaxFu /\ r = Video!Result(FALSE, <<>>, <<>>)
  \/ /\ p.start \/ (active /\ ~(Len(fu) + Len(p.body) > MaxFu))
     /\ \/ p.end /\ r = Video!Result(FALSE, <<>>, <<Collected(p, fu)>>)
        \/ ~p.end /\ r = Video!Result(TRUE, Collected(p, fu), <<>>)

\* What the depacketizer does with a fragment, case by case.
LEMMA FragmentTaken ==
  ASSUME NEW p, NEW active \in BOOLEAN, NEW fu, p.start \in BOOLEAN, p.end \in BOOLEAN
  PROVE  TakenAs(Video!DepacketizeFua(p, active, fu), p, active, fu)
<1> DEFINE long == Len(fu) + Len(p.body) > MaxFu
           opened == <<p.head>> \o p.body
           more == fu \o p.body
<1> HIDE DEF opened, more
<1>1. CASE p.start
  <2>1. Video!DepacketizeFua(p, active, fu) = Video!Finish(p, opened)
    BY <1>1 DEF Video!DepacketizeFua, opened
  <2>2. CASE p.end
    BY <1>1, <2>1, <2>2 DEF Video!Finish, opened, TakenAs, Collected
  <2>3. CASE ~p.end
    BY <1>1, <2>1, <2>3 DEF Video!Finish, opened, TakenAs, Collected
  <2> QED
    BY <2>2, <2>3
<1>2. CASE ~p.start /\ ~active
  <2>1. Video!DepacketizeFua(p, active, fu) = Video!Result(active, fu, <<>>) /\ active = FALSE
    BY <1>2 DEF Video!DepacketizeFua
  <2> QED
    BY <1>2, <2>1 DEF TakenAs
<1>3. CASE ~p.start /\ active /\ long
  <2>1. Video!DepacketizeFua(p, active, fu) = Video!Result(FALSE, <<>>, <<>>)
    BY <1>3 DEF Video!DepacketizeFua
  <2> QED
    BY <1>3, <2>1 DEF TakenAs
<1>4. CASE ~p.start /\ active /\ ~long
  <2>1. Video!DepacketizeFua(p, active, fu) = Video!Finish(p, more)
    BY <1>4 DEF Video!DepacketizeFua, more
  <2>2. CASE p.end
    BY <1>4, <2>1, <2>2 DEF Video!Finish, more, TakenAs, Collected
  <2>3. CASE ~p.end
    BY <1>4, <2>1, <2>3 DEF Video!Finish, more, TakenAs, Collected
  <2> QED
    BY <2>2, <2>3
<1> QED
  BY <1>1, <1>2, <1>3, <1>4

\* RemoveAt takes one element out; taking the first shifts the others.
LEMMA RemoveAtTyped ==
  ASSUME NEW S, NEW s \in Seq(S), NEW k \in 1..Len(s)
  PROVE  /\ Video!RemoveAt(s, k) \in Seq(S) /\ Len(Video!RemoveAt(s, k)) = Len(s) - 1
         /\ k = 1 => \A j \in 1..(Len(s) - 1) : Video!RemoveAt(s, k)[j] = s[j + 1]
<1>1. SubSeq(s, 1, k - 1) \in Seq(S) /\ SubSeq(s, k + 1, Len(s)) \in Seq(S)
  OBVIOUS
<1>2. Len(SubSeq(s, 1, k - 1)) = k - 1 /\ Len(SubSeq(s, k + 1, Len(s))) = Len(s) - k
  OBVIOUS
<1>3. \A j \in 1..(Len(s) - k) : SubSeq(s, k + 1, Len(s))[j] = s[k + j]
  OBVIOUS
<1> DEFINE a == SubSeq(s, 1, k - 1)
           b == SubSeq(s, k + 1, Len(s))
<1> HIDE DEF a, b
<1>4. a \o b \in Seq(S) /\ Len(a \o b) = Len(s) - 1 /\ \A j \in 1..Len(b) : (a \o b)[Len(a) + j] = b[j]
  <2>1. a \in Seq(S) /\ b \in Seq(S) /\ Len(a) = k - 1 /\ Len(b) = Len(s) - k
    BY <1>1, <1>2 DEF a, b
  <2>2. a \o b \in Seq(S) /\ Len(a \o b) = Len(a) + Len(b) /\ \A j \in 1..Len(b) : (a \o b)[Len(a) + j] = b[j]
    BY <2>1, Appended, ZenonT(30)
  <2>3. (k - 1) + (Len(s) - k) = Len(s) - 1
    OBVIOUS
  <2> QED
    BY <2>1, <2>2, <2>3, Zenon
<1>5. Video!RemoveAt(s, k) = a \o b
  BY DEF Video!RemoveAt, a, b
<1>6. ASSUME k = 1, NEW j \in 1..(Len(s) - 1) PROVE (a \o b)[j] = s[j + 1]
  <2>1. Len(a) = 0 /\ j \in 1..Len(b) /\ b[j] = s[1 + j]
    BY <1>2, <1>3, <1>6 DEF a, b
  <2>2. (a \o b)[Len(a) + j] = b[j]
    BY <1>4, <2>1
  <2> QED
    BY <2>1, <2>2
<1> QED
  BY <1>4, <1>5, <1>6

\* A unit or an aggregate goes into the flight, and nothing else changes.
LEMMA Sent ==
  ASSUME VideoTypes, Video!SendUnit \/ Video!SendAggregate
  PROVE  /\ VideoTypes'
         /\ UNCHANGED <<fuActive, fuBuf, arrived, out, lost, inOrder>>
<1>1. CASE Video!SendUnit
  <2>1. next \in Video!Units /\ flight' = flight \o Video!PackageH264NALU(next) /\ next' = next + 1
        /\ UNCHANGED <<fuActive, fuBuf, arrived, out, lost, inOrder>>
    BY <1>1 DEF Video!SendUnit, Video!Send
  <2>2. Video!PackageH264NALU(next) \in Seq(Payloads)
    BY <2>1, UnitPacked
  <2> QED
    BY <2>1, <2>2 DEF VideoTypes
<1>2. CASE Video!SendAggregate
  <2>1. PICK w \in Video!Units : /\ w > next /\ next \in Video!Units
                                 /\ flight' = flight \o Video!PackageH264STAPA(next, w)
                                 /\ next' = next + (w - next + 1)
                                 /\ UNCHANGED <<fuActive, fuBuf, arrived, out, lost, inOrder>>
    BY <1>2 DEF Video!SendAggregate, Video!Send
  <2>2. Video!PackageH264STAPA(next, w) \in Seq(Payloads)
    <3> DEFINE p == [kind |-> "stapa", nalus |-> [k \in 1..(w - next + 1) |-> Video!Nalu(next + k - 1)]]
               ps == Video!PackageH264STAPA(next, w)
    <3>1. (ps = <<>> \/ ps = <<p>>) /\ p \in Payloads
      BY <2>1, AggregatePacked
    <3> HIDE DEF p, ps
    <3>2. <<p>> \in Seq(Payloads) /\ <<>> \in Seq(Payloads)
      BY <3>1
    <3>3. ps \in Seq(Payloads)
      BY <3>1, <3>2, Zenon
    <3> QED
      BY <3>3 DEF ps
  <2>3. w \in Nat
    BY VideoConstants
  <2> QED
    BY <2>1, <2>2, <2>3 DEF VideoTypes
<1> QED
  BY <1>1, <1>2

\* What Arrive does, read off.
LEMMA Arrived ==
  ASSUME VideoTypes, NEW k \in 1..Window, Video!Arrive(k)
  PROVE  LET p == flight[k]
             r == Video!Depacketize(p, fuActive, fuBuf)
         IN /\ k \in 1..Len(flight) /\ p \in Payloads
            /\ fuActive' = r.active /\ fuBuf' = r.buf /\ out' = out \o r.nalus
            /\ arrived' = Append(arrived, p) /\ flight' = Video!RemoveAt(flight, k)
            /\ inOrder' = (inOrder /\ k = 1) /\ UNCHANGED <<next, lost>>
BY DEF Video!Arrive, VideoTypes

\* The fields of a result are what it was built from.
LEMMA ResultFields ==
  ASSUME NEW x, NEW y, NEW z
  PROVE  Video!Result(x, y, z).active = x /\ Video!Result(x, y, z).buf = y /\ Video!Result(x, y, z).nalus = z
BY Zenon DEF Video!Result

\* What the depacketizer leaves and returns is made of bytes of units.
LEMMA DepacketizeTyped ==
  ASSUME NEW p \in Payloads, NEW active \in BOOLEAN, NEW fu \in Seq(NaluByte)
  PROVE  LET r == Video!Depacketize(p, active, fu)
         IN r.active \in BOOLEAN /\ r.buf \in Seq(NaluByte) /\ r.nalus \in Seq(Seq(NaluByte))
<1> DEFINE r == Video!Depacketize(p, active, fu)
           whole == Collected(p, fu)
           Fine(x, y, z) == x \in BOOLEAN /\ y \in Seq(NaluByte) /\ z \in Seq(Seq(NaluByte))
<1>1. SUFFICES \E x, y, z : r = Video!Result(x, y, z) /\ Fine(x, y, z)
  <2>1. PICK x, y, z : r = Video!Result(x, y, z) /\ Fine(x, y, z)
    BY <1>1, Zenon
  <2>2. r.active = x /\ r.buf = y /\ r.nalus = z
    <3> HIDE DEF r
    <3> QED
      BY <2>1, ResultFields
  <2>3. r.active \in BOOLEAN /\ r.buf \in Seq(NaluByte) /\ r.nalus \in Seq(Seq(NaluByte))
    BY <2>1, <2>2, Zenon
  <2> QED
    BY <2>3
<1>2. /\ p.kind \in {"single", "stapa", "fua"}
      /\ p.kind = "single" => r = Video!Result(FALSE, fu, <<p.body>>) /\ p.body \in Seq(NaluByte)
      /\ p.kind = "stapa" => r = Video!Result(FALSE, fu, p.nalus) /\ p.nalus \in Seq(Seq(NaluByte))
      /\ p.kind = "fua" => /\ r = Video!DepacketizeFua(p, active, fu)
                           /\ p.head \in NaluByte /\ p.body \in Seq(NaluByte)
                           /\ p.start \in BOOLEAN /\ p.end \in BOOLEAN
  BY Depacketized
<1>3. p.kind = "single" => Fine(FALSE, fu, <<p.body>>)
  BY <1>2
<1>4. p.kind = "stapa" => Fine(FALSE, fu, p.nalus)
  BY <1>2
<1>5. CASE p.kind = "fua"
  <2>1. whole \in Seq(NaluByte)
    BY <1>2, <1>5 DEF Collected
  <2> HIDE DEF whole
  <2>2. Fine(FALSE, fu, <<>>) /\ Fine(FALSE, <<>>, <<>>) /\ Fine(FALSE, <<>>, <<whole>>) /\ Fine(TRUE, whole, <<>>)
    BY <2>1
  <2>3. \/ r = Video!Result(FALSE, fu, <<>>) \/ r = Video!Result(FALSE, <<>>, <<>>)
        \/ r = Video!Result(FALSE, <<>>, <<whole>>) \/ r = Video!Result(TRUE, whole, <<>>)
    <3>1. p.start \in BOOLEAN /\ p.end \in BOOLEAN /\ r = Video!DepacketizeFua(p, active, fu)
      BY <1>2, <1>5
    <3> HIDE DEF r
    <3>2. TakenAs(Video!DepacketizeFua(p, active, fu), p, active, fu)
      BY <3>1, FragmentTaken
    <3>3. TakenAs(r, p, active, fu)
      BY <3>1, <3>2, Zenon
    <3> QED
      BY <3>3, Zenon DEF whole, TakenAs
  <2> HIDE DEF r, Fine
  <2> QED
    BY <2>2, <2>3, Zenon
<1> HIDE DEF r, Fine
<1> QED
  BY <1>2, <1>3, <1>4, <1>5, Zenon

\* Every step keeps the variables of the video path in their types.
LEMMA Typed ==
  ASSUME VideoTypes, [Video!Next]_(Video!vars)
  PROVE  VideoTypes'
<1>1. CASE UNCHANGED Video!vars
  BY <1>1 DEF VideoTypes, Video!vars
<1>2. CASE Video!SendUnit \/ Video!SendAggregate
  BY <1>2, Sent
<1>3. ASSUME NEW k \in 1..Window, Video!Lose(k) PROVE VideoTypes'
  <2>1. k \in 1..Len(flight) /\ flight' = Video!RemoveAt(flight, k)
        /\ UNCHANGED <<next, fuActive, fuBuf, arrived, out>>
    BY <1>3 DEF Video!Lose, VideoTypes
  <2> QED
    BY <2>1, RemoveAtTyped DEF VideoTypes
<1>4. ASSUME NEW k \in 1..Window, Video!Arrive(k) PROVE VideoTypes'
  <2> DEFINE p == flight[k]
             r == Video!Depacketize(p, fuActive, fuBuf)
  <2>1. /\ k \in 1..Len(flight) /\ p \in Payloads
        /\ fuActive' = r.active /\ fuBuf' = r.buf /\ out' = out \o r.nalus
        /\ arrived' = Append(arrived, p) /\ flight' = Video!RemoveAt(flight, k)
        /\ UNCHANGED next
    BY <1>4, Arrived
  <2>2. flight' \in Seq(Payloads) /\ arrived' \in Seq(Payloads) /\ next' \in Nat \ {0}
    BY <2>1, RemoveAtTyped DEF VideoTypes
  <2>3. fuActive \in BOOLEAN /\ fuBuf \in Seq(NaluByte) /\ out \in Seq(Seq(NaluByte))
    BY DEF VideoTypes
  <2>5. r.active \in BOOLEAN /\ r.buf \in Seq(NaluByte) /\ r.nalus \in Seq(Seq(NaluByte))
    BY <2>1, <2>3, DepacketizeTyped
  <2> HIDE DEF r
  <2>6. fuActive' \in BOOLEAN /\ fuBuf' \in Seq(NaluByte) /\ out' \in Seq(Seq(NaluByte))
    BY <2>1, <2>3, <2>5
  <2> QED
    BY <2>2, <2>6 DEF VideoTypes
<1> QED
  BY <1>1, <1>2, <1>3, <1>4 DEF Video!Next

\* What the arrival of p does, one definition for each way out of Depacketize.
UnitArrives(p) == p.kind = "single" /\ ~fuActive' /\ fuBuf' = fuBuf /\ out' = out \o <<p.body>>
AggregateArrives(p) == p.kind = "stapa" /\ ~fuActive' /\ fuBuf' = fuBuf /\ out' = out \o p.nalus
StrayFragment(p) ==
  p.kind = "fua" /\ ~p.start /\ ~fuActive /\ ~fuActive' /\ fuBuf' = fuBuf /\ out' = out
LongFragment(p) ==
  /\ p.kind = "fua" /\ ~p.start /\ fuActive /\ Len(fuBuf) + Len(p.body) > MaxFu
  /\ ~fuActive' /\ fuBuf' = <<>> /\ out' = out
Fits(p) == p.kind = "fua" /\ (p.start \/ (fuActive /\ ~(Len(fuBuf) + Len(p.body) > MaxFu)))
LastFragment(p) == Fits(p) /\ p.end /\ ~fuActive' /\ fuBuf' = <<>> /\ out' = out \o <<Collected(p, fuBuf)>>
MoreFragment(p) == Fits(p) /\ ~p.end /\ fuActive' /\ fuBuf' = Collected(p, fuBuf) /\ out' = out

Arrives(p) == \/ UnitArrives(p) \/ AggregateArrives(p) \/ StrayFragment(p) \/ LongFragment(p)
              \/ LastFragment(p) \/ MoreFragment(p)

\* The next state after payload k arrived, spelled out by the kind of payload.
LEMMA ArrivedAs ==
  ASSUME VideoTypes, NEW k \in 1..Window, Video!Arrive(k)
  PROVE  Arrives(flight[k])
<1> DEFINE p == flight[k]
           r == Video!Depacketize(p, fuActive, fuBuf)
<1>1. /\ p \in Payloads /\ fuActive' = r.active /\ fuBuf' = r.buf /\ out' = out \o r.nalus
      /\ fuActive \in BOOLEAN
  BY Arrived DEF VideoTypes
<1> HIDE DEF p
<1> SUFFICES Arrives(p)
  BY DEF p
<1>2. /\ p.kind \in {"single", "stapa", "fua"}
      /\ p.kind = "single" => r = Video!Result(FALSE, fuBuf, <<p.body>>)
      /\ p.kind = "stapa" => r = Video!Result(FALSE, fuBuf, p.nalus)
      /\ p.kind = "fua" => /\ r = Video!DepacketizeFua(p, fuActive, fuBuf)
                           /\ p.start \in BOOLEAN /\ p.end \in BOOLEAN
  BY <1>1, Depacketized
<1> HIDE DEF r
<1>3. \A x, y, z : r = Video!Result(x, y, z) => fuActive' = x /\ fuBuf' = y /\ out' = out \o z
  <2> TAKE x, y, z
  <2> HAVE r = Video!Result(x, y, z)
  <2>1. r.active = x /\ r.buf = y /\ r.nalus = z
    BY ResultFields
  <2>2. fuActive' = x
    BY <1>1, <2>1, Zenon
  <2> QED
    BY <1>1, <2>1, <2>2, Zenon
<1>4. out \o <<>> = out
  BY DEF VideoTypes
<1>5. CASE p.kind = "single"
  BY <1>2, <1>3, <1>5, Zenon DEF Arrives, UnitArrives
<1>6. CASE p.kind = "stapa"
  BY <1>2, <1>3, <1>6, Zenon DEF Arrives, AggregateArrives
<1>7. CASE p.kind = "fua"
  <2>1. TakenAs(Video!DepacketizeFua(p, fuActive, fuBuf), p, fuActive, fuBuf)
    BY <1>1, <1>2, <1>7, FragmentTaken
  <2>2. TakenAs(r, p, fuActive, fuBuf)
    BY <1>2, <1>7, <2>1, Zenon
  <2>3. CASE ~p.start /\ ~fuActive /\ r = Video!Result(FALSE, fuBuf, <<>>)
    BY <1>3, <1>4, <1>7, <2>3, Zenon DEF Arrives, StrayFragment
  <2>4. CASE /\ ~p.start /\ fuActive /\ Len(fuBuf) + Len(p.body) > MaxFu
             /\ r = Video!Result(FALSE, <<>>, <<>>)
    BY <1>3, <1>4, <1>7, <2>4, Zenon DEF Arrives, LongFragment
  <2>5. CASE /\ p.start \/ (fuActive /\ ~(Len(fuBuf) + Len(p.body) > MaxFu))
             /\ p.end /\ r = Video!Result(FALSE, <<>>, <<Collected(p, fuBuf)>>)
    BY <1>3, <1>4, <1>7, <2>5, Zenon DEF Arrives, LastFragment, Fits
  <2>6. CASE /\ p.start \/ (fuActive /\ ~(Len(fuBuf) + Len(p.body) > MaxFu))
             /\ ~p.end /\ r = Video!Result(TRUE, Collected(p, fuBuf), <<>>)
    <3>1. fuActive' = TRUE /\ fuBuf' = Collected(p, fuBuf) /\ out' = out
      BY <1>3, <1>4, <2>6, Zenon
    <3>2. fuActive'
      BY <3>1
    <3> QED
      BY <1>7, <2>6, <3>1, <3>2, Zenon DEF Arrives, MoreFragment, Fits
  <2> QED
    BY <2>2, <2>3, <2>4, <2>5, <2>6, Zenon DEF TakenAs
<1> QED
  BY <1>2, <1>5, <1>6, <1>7, Zenon

\* n is made of what the payloads a..b of ps carry, and these are the fragments
\* of one run if they are several.
JoinedFrom(n, ps, a, b) ==
  /\ Video!ToSet(n) \subseteq UNION {Video!Carried(ps[k]) : k \in a..b}
  /\ a < b => \A k \in a..b : ps[k].kind = "fua" /\ (ps[k].start <=> k = a) /\ (ps[k].end <=> k = b)

\* The buffer holds what the payloads from a on carry, an unfinished run.
OpenFrom(fu, ps, a) ==
  /\ Video!ToSet(fu) \subseteq UNION {Video!Carried(ps[k]) : k \in a..Len(ps)}
  /\ \A k \in a..Len(ps) : ps[k].kind = "fua" /\ (ps[k].start <=> k = a) /\ ~ps[k].end

JoinInv ==
  /\ \A n \in Video!ToSet(out) : \E a, b \in DOMAIN arrived : a <= b /\ JoinedFrom(n, arrived, a, b)
  /\ fuActive => \E a \in DOMAIN arrived : OpenFrom(fuBuf, arrived, a)

\* The elements of a concatenation are those of its two parts.
LEMMA ToSetOf ==
  ASSUME NEW S, NEW v \in Seq(S), NEW w \in Seq(S)
  PROVE  Video!ToSet(v \o w) = Video!ToSet(v) \cup Video!ToSet(w)
<1>1. Video!ToSet(v \o w) \subseteq Video!ToSet(v) \cup Video!ToSet(w)
  <2>1. ASSUME NEW k \in 1..(Len(v) + Len(w)) PROVE (v \o w)[k] \in Video!ToSet(v) \cup Video!ToSet(w)
    <3>1. CASE k <= Len(v)
      BY <3>1 DEF Video!ToSet
    <3>2. CASE k > Len(v)
      <4>1. k - Len(v) \in 1..Len(w) /\ (v \o w)[k] = w[k - Len(v)]
        BY <3>2
      <4> QED
        BY <4>1 DEF Video!ToSet
    <3> QED
      BY <3>1, <3>2
  <2> QED
    BY <2>1 DEF Video!ToSet
<1>2. Video!ToSet(v) \subseteq Video!ToSet(v \o w)
  <2>1. \A k \in 1..Len(v) : (v \o w)[k] = v[k] /\ k \in 1..(Len(v) + Len(w))
    OBVIOUS
  <2> QED
    BY <2>1 DEF Video!ToSet
<1>3. Video!ToSet(w) \subseteq Video!ToSet(v \o w)
  <2>1. ASSUME NEW k \in 1..Len(w) PROVE w[k] \in Video!ToSet(v \o w)
    <3>1. (v \o w)[Len(v) + k] = w[k] /\ Len(v) + k \in DOMAIN (v \o w)
      OBVIOUS
    <3> QED
      BY <3>1 DEF Video!ToSet
  <2>2. DOMAIN w = 1..Len(w)
    OBVIOUS
  <2> QED
    BY <2>1, <2>2 DEF Video!ToSet
<1> QED
  BY <1>1, <1>2, <1>3

\* The elements of a sequence of one, and of none.
LEMMA ToSetOne == \A x : Video!ToSet(<<x>>) = {x} /\ Video!ToSet(<<>>) = {}
BY DEF Video!ToSet

\* What each kind of payload carries.
LEMMA CarriedExact ==
  ASSUME NEW p \in Payloads
  PROVE  /\ p.kind = "single" => Video!Carried(p) = Video!ToSet(p.body)
         /\ p.kind = "stapa" => Video!Carried(p) = UNION {Video!ToSet(n) : n \in Video!ToSet(p.nalus)}
         /\ p.kind = "fua" => Video!Carried(p) = {p.head} \cup Video!ToSet(p.body)
BY Zenon DEF Video!Carried

\* What was joined stays joined when a payload arrives.
LEMMA JoinedStays ==
  ASSUME NEW ps \in Seq(Payloads), NEW p \in Payloads, NEW n, NEW a \in DOMAIN ps, NEW b \in DOMAIN ps,
         JoinedFrom(n, ps, a, b)
  PROVE  a \in DOMAIN Append(ps, p) /\ b \in DOMAIN Append(ps, p) /\ JoinedFrom(n, Append(ps, p), a, b)
<1>1. \A k \in a..b : Append(ps, p)[k] = ps[k]
  OBVIOUS
<1>2. a \in DOMAIN Append(ps, p) /\ b \in DOMAIN Append(ps, p)
  OBVIOUS
<1> DEFINE qs == Append(ps, p)
<1> HIDE DEF qs
<1>3. \A k \in a..b : qs[k] = ps[k]
  BY <1>1 DEF qs
<1>4. {Video!Carried(qs[k]) : k \in a..b} = {Video!Carried(ps[k]) : k \in a..b}
  BY <1>3, Zenon
<1>5. JoinedFrom(n, qs, a, b)
  BY <1>3, <1>4, Zenon DEF JoinedFrom
<1> QED
  BY <1>2, <1>5 DEF qs

\* A unit that the last payload alone yields.
LEMMA JoinedByOne ==
  ASSUME NEW ps \in Seq(Payloads), NEW p \in Payloads, NEW n, Video!ToSet(n) \subseteq Video!Carried(p)
  PROVE  LET qs == Append(ps, p)
         IN Len(qs) \in DOMAIN qs /\ JoinedFrom(n, qs, Len(qs), Len(qs))
<1> DEFINE qs == Append(ps, p)
           a == Len(qs)
<1>1. a \in DOMAIN qs /\ qs[a] = p /\ a \in Nat
  OBVIOUS
<1> HIDE DEF qs, a
<1>2. a..a = {a}
  BY <1>1
<1>3. UNION {Video!Carried(qs[k]) : k \in a..a} = Video!Carried(p)
  BY <1>1, <1>2, Zenon
<1>4. JoinedFrom(n, qs, a, a)
  BY <1>1, <1>3 DEF JoinedFrom
<1> QED
  BY <1>1, <1>4 DEF qs, a

\* fu holds what the payloads from a on carry, a run of fragments that only the
\* last may end.
RunFrom(fu, ps, a) ==
  /\ Video!ToSet(fu) \subseteq UNION {Video!Carried(ps[k]) : k \in a..Len(ps)}
  /\ \A k \in a..Len(ps) : /\ ps[k].kind = "fua" /\ (ps[k].start <=> k = a)
                           /\ (k < Len(ps) => ~ps[k].end)

\* A run that a fragment goes on with, or opens.
LEMMA RunGoesOn ==
  ASSUME NEW ps \in Seq(Payloads), NEW p \in Payloads, NEW fu \in Seq(NaluByte), NEW active \in BOOLEAN,
         p.kind = "fua", p.start \/ active,
         active => \E a \in DOMAIN ps : OpenFrom(fu, ps, a)
  PROVE  \E a \in DOMAIN Append(ps, p) : RunFrom(Collected(p, fu), Append(ps, p), a)
<1> DEFINE qs == Append(ps, p)
           m == Len(ps)
<1>1. /\ m \in Nat /\ qs[m + 1] = p /\ \A k \in 1..m : qs[k] = ps[k]
      /\ DOMAIN ps = 1..m /\ DOMAIN qs = 1..(m + 1) /\ Len(qs) = m + 1
  OBVIOUS
<1>2. p.head \in NaluByte /\ p.body \in Seq(NaluByte) /\ p.start \in BOOLEAN
  BY Depacketized
<1>3. Video!Carried(p) = {p.head} \cup Video!ToSet(p.body)
  BY CarriedExact
<1> HIDE DEF qs, m
<1>4. CASE p.start
  <2>1. Collected(p, fu) = <<p.head>> \o p.body
    BY <1>4 DEF Collected
  <2>2. Video!ToSet(Collected(p, fu)) = Video!Carried(p)
    <3> DEFINE h == <<p.head>>
    <3>1. h \in Seq(NaluByte)
      BY <1>2
    <3> HIDE DEF h
    <3>2. Video!ToSet(h \o p.body) = Video!ToSet(h) \cup Video!ToSet(p.body)
      BY <1>2, <3>1, ToSetOf
    <3> QED
      BY <1>3, <2>1, <3>2, ToSetOne, Zenon DEF h
  <2>3. (m + 1)..(m + 1) = {m + 1} /\ m + 1 \in 1..(m + 1)
    BY <1>1
  <2>4. UNION {Video!Carried(qs[k]) : k \in (m + 1)..(m + 1)} = Video!Carried(p)
    BY <1>1, <2>3, Zenon
  <2>5. \A k \in (m + 1)..(m + 1) : /\ qs[k].kind = "fua" /\ (qs[k].start <=> k = m + 1)
                                  /\ (k < m + 1 => ~qs[k].end)
    BY <1>1, <1>4
  <2> QED
    <3>1. RunFrom(Collected(p, fu), qs, m + 1)
      BY <1>1, <2>2, <2>3, <2>4, <2>5 DEF RunFrom
    <3>2. m + 1 \in DOMAIN qs
      BY <1>1, <2>3
    <3> QED
      BY <3>1, <3>2, Zenon DEF qs
<1>5. CASE ~p.start
  <2>1. PICK a \in 1..m : OpenFrom(fu, ps, a)
    BY <1>1, <1>5
  <2>2. Collected(p, fu) = fu \o p.body
    BY <1>5 DEF Collected
  <2>3. Video!ToSet(Collected(p, fu)) = Video!ToSet(fu) \cup Video!ToSet(p.body)
    BY <1>2, <2>2, ToSetOf
  <2>4. \A k \in a..m : qs[k] = ps[k]
    BY <1>1, <2>1
  <2>5. UNION {Video!Carried(ps[k]) : k \in a..m} \subseteq UNION {Video!Carried(qs[k]) : k \in a..(m + 1)}
    <3>1. \A k \in a..m : k \in a..(m + 1) /\ Video!Carried(ps[k]) = Video!Carried(qs[k])
      BY <1>1, <2>1, <2>4
    <3> QED
      BY <3>1
  <2>6. Video!Carried(p) \subseteq UNION {Video!Carried(qs[k]) : k \in a..(m + 1)}
    <3>1. m + 1 \in a..(m + 1)
      BY <1>1, <2>1
    <3> QED
      BY <1>1, <3>1
  <2>7. Video!ToSet(fu) \subseteq UNION {Video!Carried(ps[k]) : k \in a..m}
    BY <2>1 DEF OpenFrom, m
  <2>8. Video!ToSet(Collected(p, fu)) \subseteq UNION {Video!Carried(qs[k]) : k \in a..(m + 1)}
    <3> DEFINE all == UNION {Video!Carried(qs[k]) : k \in a..(m + 1)}
               old == UNION {Video!Carried(ps[k]) : k \in a..m}
    <3>1. old \subseteq all /\ Video!Carried(p) \subseteq all /\ Video!ToSet(fu) \subseteq old
      BY <2>5, <2>6, <2>7
    <3> HIDE DEF all, old
    <3>2. Video!ToSet(Collected(p, fu)) \subseteq all
      BY <1>3, <2>3, <3>1
    <3> QED
      BY <3>2 DEF all
  <2>9. ASSUME NEW k \in a..(m + 1)
        PROVE  /\ qs[k].kind = "fua" /\ (qs[k].start <=> k = a)
               /\ (k < m + 1 => ~qs[k].end)
    <3>1. CASE k \in a..m
      BY <1>1, <2>1, <2>4, <3>1 DEF OpenFrom, m
    <3>2. CASE k = m + 1
      BY <1>1, <1>5, <2>1, <3>2
    <3> QED
      BY <1>1, <2>1, <3>1, <3>2
  <2>a. a \in 1..(m + 1)
    BY <1>1, <2>1
  <2> QED
    <3>1. RunFrom(Collected(p, fu), qs, a)
      BY <1>1, <2>8, <2>9 DEF RunFrom
    <3>2. a \in DOMAIN qs
      BY <1>1, <2>a
    <3> QED
      BY <3>1, <3>2, Zenon DEF qs
<1> QED
  BY <1>4, <1>5

\* The units that come out are joined from what has arrived, and so is the buffer.
LEMMA JoinStays ==
  ASSUME VideoTypes, JoinInv, [Video!Next]_(Video!vars)
  PROVE  JoinInv'
<1> USE DEF JoinInv
<1>1. CASE UNCHANGED Video!vars
  BY <1>1 DEF Video!vars
<1>2. CASE Video!SendUnit \/ Video!SendAggregate
  BY <1>2, Sent
<1>3. ASSUME NEW k \in 1..Window, Video!Lose(k) PROVE JoinInv'
  BY <1>3 DEF Video!Lose
<1>4. ASSUME NEW k \in 1..Window, Video!Arrive(k) PROVE JoinInv'
  <2> DEFINE p == flight[k]
             qs == Append(arrived, p)
             Joined(n) == \E a, b \in DOMAIN qs : a <= b /\ JoinedFrom(n, qs, a, b)
  <2>1. p \in Payloads /\ arrived' = qs /\ Arrives(p)
    BY <1>4, Arrived, ArrivedAs
  <2>2. /\ arrived \in Seq(Payloads) /\ out \in Seq(Seq(NaluByte)) /\ fuBuf \in Seq(NaluByte)
        /\ fuActive \in BOOLEAN
    BY DEF VideoTypes
  <2> HIDE DEF p
  <2>3. /\ p.kind = "single" => p.body \in Seq(NaluByte)
        /\ p.kind = "stapa" => p.nalus \in Seq(Seq(NaluByte))
        /\ p.kind = "fua" => p.start \in BOOLEAN /\ p.end \in BOOLEAN /\ p.head \in NaluByte
                             /\ p.body \in Seq(NaluByte)
    BY <2>1, Depacketized
  <2>4. \A n \in Video!ToSet(out) : Joined(n)
    BY <2>1, <2>2, JoinedStays
  <2>5. ASSUME NEW n, Video!ToSet(n) \subseteq Video!Carried(p) PROVE Joined(n)
    <3>1. Len(qs) \in DOMAIN qs /\ JoinedFrom(n, qs, Len(qs), Len(qs))
      BY <2>1, <2>2, <2>5, JoinedByOne
    <3> HIDE DEF qs
    <3> QED
      BY <3>1
  <2>6. \A s \in Seq(Seq(NaluByte)) : (\A n \in Video!ToSet(s) : Joined(n)) =>
          \A n \in Video!ToSet(out \o s) : Joined(n)
    <3> HIDE DEF Joined
    <3> QED
      BY <2>2, <2>4, ToSetOf
  <2> HIDE DEF qs
  <2>7. SUFFICES /\ \A n \in Video!ToSet(out') : Joined(n)
                 /\ fuActive' => \E a \in DOMAIN qs : OpenFrom(fuBuf', qs, a)
    BY <2>1, <2>7, Zenon
  <2> HIDE DEF Joined
  <2>8. CASE UnitArrives(p)
    <3>1. <<p.body>> \in Seq(Seq(NaluByte)) /\ Video!ToSet(<<p.body>>) = {p.body}
      BY <2>3, <2>8, ToSetOne DEF UnitArrives
    <3>2. Joined(p.body)
      BY <2>1, <2>5, <2>8, CarriedExact DEF UnitArrives
    <3> QED
      BY <2>6, <2>8, <3>1, <3>2, Zenon DEF UnitArrives
  <2>9. CASE AggregateArrives(p)
    <3>1. p.kind = "stapa" /\ p.nalus \in Seq(Seq(NaluByte)) /\ out' = out \o p.nalus /\ ~fuActive'
      BY <2>3, <2>9 DEF AggregateArrives
    <3>2. Video!Carried(p) = UNION {Video!ToSet(n) : n \in Video!ToSet(p.nalus)}
      BY <2>1, <3>1, CarriedExact
    <3>3. \A n \in Video!ToSet(p.nalus) : Video!ToSet(n) \subseteq Video!Carried(p)
      BY <3>2
    <3>4. \A n \in Video!ToSet(p.nalus) : Joined(n)
      BY <2>5, <3>3
    <3> QED
      BY <2>6, <3>1, <3>4, Zenon
  <2>a. CASE StrayFragment(p)
    BY <2>4, <2>a, Zenon DEF StrayFragment
  <2>b. CASE LongFragment(p)
    BY <2>4, <2>b, Zenon DEF LongFragment
  <2>c. ASSUME Fits(p) PROVE \E a \in DOMAIN qs : RunFrom(Collected(p, fuBuf), qs, a)
    <3>1. p.kind = "fua" /\ (p.start \/ fuActive)
      BY <2>c DEF Fits
    <3>2. fuActive => \E a \in DOMAIN arrived : OpenFrom(fuBuf, arrived, a)
      OBVIOUS
    <3> QED
      BY <2>1, <2>2, <3>1, <3>2, RunGoesOn DEF qs
  <2>d. DOMAIN qs = 1..Len(qs) /\ Len(qs) \in Nat /\ qs[Len(qs)] = p
    BY <2>1, <2>2 DEF qs
  <2>e. CASE LastFragment(p)
    <3>1. PICK a \in DOMAIN qs : RunFrom(Collected(p, fuBuf), qs, a)
      BY <2>c, <2>e DEF LastFragment
    <3>2. p.end /\ ~fuActive' /\ out' = out \o <<Collected(p, fuBuf)>>
      BY <2>e DEF LastFragment
    <3>3. \A j \in a..Len(qs) : qs[j].kind = "fua" /\ (qs[j].start <=> j = a) /\ (qs[j].end <=> j = Len(qs))
      <4>1. ASSUME NEW j \in a..Len(qs), j # Len(qs) PROVE j < Len(qs)
        <5>1. Len(qs) \in Nat /\ a \in 1..Len(qs)
          BY <2>d, <3>1, Zenon
        <5> DEFINE m == Len(qs)
        <5> HIDE DEF m, JoinInv
        <5> QED
          BY <4>1, <5>1 DEF m
      <4>2. \A j \in a..Len(qs) : j # Len(qs) => ~qs[j].end
        BY <3>1, <4>1, Zenon DEF RunFrom
      <4> QED
        BY <2>d, <3>1, <3>2, <4>2, Zenon DEF RunFrom
    <3>4. Joined(Collected(p, fuBuf))
      <4>1. Len(qs) \in DOMAIN qs /\ a <= Len(qs)
        BY <2>d, <3>1
      <4>2. JoinedFrom(Collected(p, fuBuf), qs, a, Len(qs))
        BY <3>1, <3>3, Zenon DEF RunFrom, JoinedFrom
      <4> QED
        BY <3>1, <4>1, <4>2, Zenon DEF Joined
    <3>5. Collected(p, fuBuf) \in Seq(NaluByte)
      BY <2>2, <2>3, <2>e DEF Collected, LastFragment, Fits
    <3> DEFINE whole == Collected(p, fuBuf)
    <3> HIDE DEF whole
    <3>6. <<whole>> \in Seq(Seq(NaluByte)) /\ Video!ToSet(<<whole>>) = {whole}
      BY <3>5, ToSetOne DEF whole
    <3> QED
      BY <2>6, <3>2, <3>4, <3>6, Zenon DEF whole
  <2>f. CASE MoreFragment(p)
    <3>1. PICK a \in DOMAIN qs : RunFrom(Collected(p, fuBuf), qs, a)
      BY <2>c, <2>f DEF MoreFragment
    <3>2. ~p.end /\ fuBuf' = Collected(p, fuBuf) /\ out' = out
      BY <2>f DEF MoreFragment
    <3>3. \A j \in a..Len(qs) : qs[j].kind = "fua" /\ (qs[j].start <=> j = a) /\ ~qs[j].end
      BY <2>d, <3>1, <3>2 DEF RunFrom
    <3>4. OpenFrom(fuBuf', qs, a)
      BY <3>1, <3>2, <3>3, Zenon DEF RunFrom, OpenFrom
    <3> QED
      BY <2>4, <3>1, <3>2, <3>4, Zenon
  <2> QED
    BY <2>1, <2>8, <2>9, <2>a, <2>b, <2>e, <2>f DEF Arrives
<1> QED
  BY <1>1, <1>2, <1>3, <1>4 DEF Video!Next

\* The variables of the video path start in their types.
LEMMA VideoStart == Video!Init => VideoTypes
<1>1. \A S : <<>> \in Seq(S)
  OBVIOUS
<1>2. 1 \in Nat \ {0} /\ FALSE \in BOOLEAN
  OBVIOUS
<1> QED
  BY <1>1, <1>2, Zenon DEF VideoTypes, Video!Init

\* Whatever is lost or overtaken, whatever the lengths of the units and the
\* limits, no unit comes out that was put together across a gap (h264.go:191-226).
THEOREM NoneJoinedAcross == SequentialSpec => []NothingJoinedAcross
<1> DEFINE Inv == part = "H264" => VideoTypes /\ JoinInv
<1>1. SequentialInit => Inv
  <2> SUFFICES ASSUME SequentialInit PROVE VideoTypes /\ JoinInv
    OBVIOUS
  <2>1. next = 1 /\ flight = <<>> /\ fuActive = FALSE /\ fuBuf = <<>> /\ arrived = <<>> /\ out = <<>>
    BY DEF SequentialInit, Video!Init
  <2>2. VideoTypes
    BY VideoStart DEF SequentialInit
  <2>3. JoinInv
    BY <2>1, ToSetOne, Zenon DEF JoinInv
  <2> QED
    BY <2>2, <2>3
<1>2. Inv /\ [SequentialNext]_allVars => Inv'
  <2> SUFFICES ASSUME Inv, [SequentialNext]_allVars, part = "H264" PROVE VideoTypes' /\ JoinInv'
    BY OnePartMoves
  <2>1. [Video!Next]_(Video!vars)
    BY OnePartMoves
  <2> QED
    BY <2>1, Typed, JoinStays
<1>3. Inv => NothingJoinedAcross
  <2> SUFFICES ASSUME JoinInv PROVE Video!NothingJoinedAcross
    BY DEF NothingJoinedAcross
  <2> QED
    BY Zenon DEF JoinInv, JoinedFrom, Video!NothingJoinedAcross
<1> QED
  BY <1>1, <1>2, <1>3, PTL DEF SequentialSpec

\* Two cuts that follow each other join to one.
LEMMA BytesJoin ==
  ASSUME NEW u \in Video!Units, NEW m \in Nat \ {0}, NEW to \in Nat, m <= to
  PROVE  /\ Video!Bytes(u, 1, m) \o Video!Bytes(u, m + 1, to) = Video!Bytes(u, 1, to)
         /\ m = 1 => << <<u, 1>> >> \o Video!Bytes(u, 2, to) = Video!Bytes(u, 1, to)
<1> DEFINE a == Video!Bytes(u, 1, m)
           b == Video!Bytes(u, m + 1, to)
           c == Video!Bytes(u, 1, to)
           NB == NaluByte
<1>1. /\ a \in Seq(NaluByte) /\ Len(a) = m /\ b \in Seq(NaluByte) /\ Len(b) = to - m
      /\ c \in Seq(NaluByte) /\ Len(c) = to
  <2>1. 1 <= m + 1 /\ m + 1 <= to + 1 /\ 1 <= to + 1 /\ m - 1 + 1 = m /\ to - (m + 1) + 1 = to - m
        /\ to - 1 + 1 = to /\ m + 1 \in Nat
    OBVIOUS
  <2> QED
    BY <2>1, BytesTyped
<1>2. /\ \A k \in 1..m : a[k] = <<u, k>>
      /\ \A k \in 1..(to - m) : b[k] = <<u, m + k>>
      /\ \A k \in 1..to : c[k] = <<u, k>>
  <2>1. \A k \in 1..m : a[k] = <<u, k>>
    BY DEF Video!Bytes
  <2>2. \A k \in 1..(to - m) : b[k] = <<u, m + k>>
    <3>1. to - (m + 1) + 1 = to - m
      OBVIOUS
    <3>2. \A k \in 1..(to - m) : m + 1 + k - 1 = m + k
      OBVIOUS
    <3> QED
      BY <3>1, <3>2 DEF Video!Bytes
  <2>3. \A k \in 1..to : c[k] = <<u, k>>
    BY DEF Video!Bytes
  <2> QED
    BY <2>1, <2>2, <2>3
<1> HIDE DEF a, b, c
<1>3. a \o b = c
  <2>1. a \o b \in Seq(NaluByte) /\ Len(a \o b) = to
    <3>1. a \o b \in Seq(NaluByte) /\ Len(a \o b) = Len(a) + Len(b)
      BY <1>1, Appended
    <3> QED
      BY <1>1, <3>1
  <2>2. ASSUME NEW k \in 1..to PROVE (a \o b)[k] = c[k]
    <3>1. CASE k <= m
      <4>1. (a \o b)[k] = a[k]
        BY <1>1, <3>1
      <4>2. a[k] = <<u, k>>
        BY <1>2, <3>1
      <4>3. c[k] = <<u, k>>
        BY <1>2
      <4> QED
        BY <4>1, <4>2, <4>3, Zenon
    <3>2. CASE k > m
      <4>1. k - m \in 1..Len(b) /\ Len(a) + (k - m) = k
        BY <1>1, <3>2
      <4>2. (a \o b)[Len(a) + (k - m)] = b[k - m]
        BY <1>1, <4>1, Appended
      <4>3. b[k - m] = <<u, m + (k - m)>> /\ m + (k - m) = k
        BY <1>1, <1>2, <4>1
      <4>4. c[k] = <<u, k>>
        BY <1>2
      <4>5. (a \o b)[k] = b[k - m]
        BY <4>1, <4>2, Zenon
      <4> QED
        BY <4>3, <4>4, <4>5, Zenon
    <3>3. k <= m \/ k > m
      OBVIOUS
    <3> QED
      BY <3>1, <3>2, <3>3, Zenon
  <2> DEFINE d == a \o b
  <2> HIDE DEF d
  <2>3. d \in Seq(NaluByte) /\ Len(d) = to /\ \A k \in 1..to : d[k] = c[k]
    BY <2>1, <2>2 DEF d
  <2>4. d = c
    BY <1>1, <2>3
  <2> QED
    BY <2>4 DEF d
<1>4. m = 1 => a = << <<u, 1>> >>
  <2> DEFINE x == <<u, 1>>
  <2> HAVE m = 1
  <2>1. a \in Seq(NaluByte) /\ Len(a) = 1 /\ a[1] = x
    BY <1>1, <1>2
  <2> HIDE DEF x
  <2>2. a = <<x>>
    BY <2>1
  <2> QED
    BY <2>2 DEF x
<1>5. Video!Bytes(u, 1, m) \o Video!Bytes(u, m + 1, to) = Video!Bytes(u, 1, to)
  BY <1>3 DEF a, b, c
<1>6. m = 1 => << <<u, 1>> >> \o Video!Bytes(u, 2, to) = Video!Bytes(u, 1, to)
  <2> HAVE m = 1
  <2>1. a = << <<u, 1>> >> /\ m + 1 = 2
    BY <1>4
  <2> QED
    BY <1>3, <2>1, Zenon DEF b, c
<1> QED
  BY <1>5, <1>6

\* A unit is the cut of all its bytes.
LEMMA NaluIs == \A u \in Video!Units : Video!Nalu(u) = Video!Bytes(u, 1, UnitLen[u])
BY DEF Video!Nalu

\* The bytes of u up to and with fragment k, the NAL header first.
UpTo(u, k) == Video!Bytes(u, 1, k * Video!FragSize + 1)

\* p is fragment k of u, and goes with a buffer fu.
PartOf(p, u, k, fu) ==
  /\ p.kind = "fua" /\ (p.start <=> k = 1) /\ (p.end <=> k = FragCount(u))
  /\ Collected(p, fu) = IF k < FragCount(u) THEN UpTo(u, k) ELSE Video!Nalu(u)
  /\ k > 1 => /\ Len(fu) + Len(p.body) \in Nat /\ Len(fu) + Len(p.body) <= UnitLen[u]
              /\ k = FragCount(u) => Len(fu) + Len(p.body) = UnitLen[u]

\* With fragment k to the k - 1 before it, or to its own header, the buffer holds
\* the first k, and with the last one the whole unit.
LEMMA FragmentCollected ==
  ASSUME NEW u \in Video!Units, UnitLen[u] > Mtu, NEW k \in 1..FragCount(u),
         NEW fu, k > 1 => fu = UpTo(u, k - 1)
  PROVE  PartOf(Video!Fragments(u)[k], u, k, fu)
<1> DEFINE f == Video!FragSize
           p == Video!Fragments(u)[k]
           to == IF k < FragCount(u) THEN k * f + 1 ELSE UnitLen[u]
           m == (k - 1) * f + 1
<1>1. /\ p.kind = "fua" /\ p.head = <<u, 1>> /\ p.body = Video!Bytes(u, m + 1, to) /\ m <= to
      /\ to <= UnitLen[u] /\ to \in Nat /\ m \in Nat \ {0} /\ (p.start <=> k = 1) /\ (p.end <=> k = FragCount(u))
      /\ (k = 1 => m = 1)
  <2> DEFINE g == (k - 1) * f
  <2>1. /\ p.kind = "fua" /\ p.head = <<u, 1>> /\ p.body = Video!Bytes(u, g + 2, to) /\ g + 2 <= to
        /\ to <= UnitLen[u] /\ to \in Nat /\ g \in Nat /\ (p.start <=> k = 1) /\ (p.end <=> k = FragCount(u))
    BY FragmentExact
  <2>2. k = 1 => g = 0
    <3>1. f \in Nat
      BY VideoConstants
    <3>2. 0 * f = 0
      BY <3>1
    <3> QED
      BY <3>2
  <2> HIDE DEF g
  <2>3. m = g + 1 /\ g + 2 = m + 1
    BY <2>1 DEF g
  <2> HIDE DEF m, to
  <2> QED
    BY <2>1, <2>2, <2>3
<1>2. k > 1 => fu = Video!Bytes(u, 1, m)
  BY DEF UpTo
<1>7. to = IF k < FragCount(u) THEN k * f + 1 ELSE UnitLen[u]
  OBVIOUS
<1> HIDE DEF to, m
<1>3. /\ Video!Bytes(u, 1, m) \o p.body = Video!Bytes(u, 1, to)
      /\ k = 1 => <<p.head>> \o p.body = Video!Bytes(u, 1, to)
  <2>1. /\ Video!Bytes(u, 1, m) \o Video!Bytes(u, m + 1, to) = Video!Bytes(u, 1, to)
        /\ m = 1 => << <<u, 1>> >> \o Video!Bytes(u, 2, to) = Video!Bytes(u, 1, to)
    BY <1>1, BytesJoin
  <2>2. k = 1 => m + 1 = 2
    BY <1>1
  <2> QED
    BY <1>1, <2>1, <2>2, Zenon
<1>4. k > 1 => Len(fu) + Len(p.body) = to
  <2> HAVE k > 1
  <2>1. 1 <= m + 1 /\ m + 1 <= to + 1 /\ m + 1 \in Nat /\ m - 1 + 1 = m /\ to - (m + 1) + 1 = to - m
    BY <1>1
  <2>2. Len(Video!Bytes(u, 1, m)) = m /\ Len(p.body) = to - m
    BY <1>1, <2>1, BytesTyped
  <2> QED
    BY <1>1, <1>2, <2>2, SMTT(30)
<1>5. (k = 1 \/ k > 1) /\ (k < FragCount(u) \/ k = FragCount(u)) /\ (k < FragCount(u) => k # FragCount(u))
  <2>1. FragCount(u) \in Nat
    BY FragCountExact
  <2> QED
    BY <2>1
<1>6. Collected(p, fu) = Video!Bytes(u, 1, to)
  BY <1>1, <1>2, <1>3, <1>5, Zenon DEF Collected
<1>8. Collected(p, fu) = IF k < FragCount(u) THEN UpTo(u, k) ELSE Video!Nalu(u)
  <2>1. CASE k < FragCount(u)
    BY <1>6, <1>7, <2>1, Zenon DEF UpTo
  <2>2. CASE ~(k < FragCount(u))
    BY <1>6, <1>7, <2>2, NaluIs, Zenon
  <2> QED
    BY <2>1, <2>2
<1>9. k > 1 => /\ Len(fu) + Len(p.body) \in Nat /\ Len(fu) + Len(p.body) <= UnitLen[u]
               /\ k = FragCount(u) => Len(fu) + Len(p.body) = UnitLen[u]
  BY <1>1, <1>4, <1>5, <1>7, Zenon
<1> HIDE DEF p
<1>a. /\ p.kind = "fua" /\ (p.start <=> k = 1) /\ (p.end <=> k = FragCount(u))
  BY <1>1
<1> QED
  BY <1>8, <1>9, <1>a, Zenon DEF p, PartOf

\* A fragment is taken in one of four ways.
LEMMA FragmentArrives ==
  ASSUME NEW p, p.kind = "fua", Arrives(p)
  PROVE  StrayFragment(p) \/ LongFragment(p) \/ LastFragment(p) \/ MoreFragment(p)
<1>1. ~UnitArrives(p) /\ ~AggregateArrives(p)
  BY DEF UnitArrives, AggregateArrives
<1> QED
  BY <1>1, Zenon DEF Arrives

\* A fragment is the first or not, the last or not, and not both.
LEMMA FragmentNumbers ==
  ASSUME NEW u \in Video!Units, UnitLen[u] > Mtu, NEW k \in 1..FragCount(u)
  PROVE  (k = 1 \/ k > 1) /\ ~(k = 1 /\ k > 1) /\ (k < FragCount(u) \/ k = FragCount(u))
         /\ ~(k < FragCount(u) /\ k = FragCount(u)) /\ FragCount(u) > 1
BY FragCountExact

\* Fragment k joins the k - 1 before it, or opens a new unit, and the last one
\* hands over the whole unit.
LEMMA FragmentJoins ==
  ASSUME NEW u \in Video!Units, UnitLen[u] > Mtu, UnitLen[u] <= MaxFu, NEW k \in 1..FragCount(u),
         Arrives(Video!Fragments(u)[k]), k > 1 => fuActive /\ fuBuf = UpTo(u, k - 1)
  PROVE  /\ k < FragCount(u) => fuActive' /\ fuBuf' = UpTo(u, k) /\ out' = out
         /\ k = FragCount(u) => ~fuActive' /\ out' = out \o <<Video!Nalu(u)>>
<1> DEFINE p == Video!Fragments(u)[k]
           len == Len(fuBuf) + Len(p.body)
<1>1. /\ p.kind = "fua" /\ (p.start <=> k = 1) /\ (p.end <=> k = FragCount(u))
      /\ Collected(p, fuBuf) = IF k < FragCount(u) THEN UpTo(u, k) ELSE Video!Nalu(u)
      /\ k > 1 => /\ len \in Nat /\ len <= UnitLen[u]
                  /\ k = FragCount(u) => len = UnitLen[u]
  <2>1. PartOf(Video!Fragments(u)[k], u, k, fuBuf)
    BY FragmentCollected
  <2> QED
    BY <2>1, Zenon DEF PartOf
<1>2. Arrives(p)
  OBVIOUS
<1> HIDE DEF p
<1>3. k > 1 => ~(len > MaxFu)
  <2> HIDE DEF len
  <2> QED
    BY <1>1, VideoConstants
<1>4. ~StrayFragment(p) /\ ~LongFragment(p)
  BY <1>1, <1>3, FragmentNumbers, Zenon DEF StrayFragment, LongFragment
<1>5. LastFragment(p) \/ MoreFragment(p)
  BY <1>1, <1>2, <1>4, FragmentArrives, Zenon
<1> QED
  BY <1>1, <1>5, FragmentNumbers, Zenon DEF LastFragment, MoreFragment

\* A unit over the limit is given up at its last fragment if not before.
LEMMA LongUnitDropped ==
  ASSUME NEW u \in Video!Units, UnitLen[u] > Mtu, UnitLen[u] > MaxFu, NEW k \in 1..FragCount(u),
         Arrives(Video!Fragments(u)[k]), k > 1 => ~fuActive \/ fuBuf = UpTo(u, k - 1)
  PROVE  out' = out /\ (k < FragCount(u) => ~fuActive' \/ fuBuf' = UpTo(u, k))
<1> DEFINE p == Video!Fragments(u)[k]
           len == Len(fuBuf) + Len(p.body)
           joins == k > 1 => fuBuf = UpTo(u, k - 1)
<1>1. p.kind = "fua" /\ (p.start <=> k = 1) /\ (p.end <=> k = FragCount(u))
  BY FragmentExact
<1>2. joins => /\ Collected(p, fuBuf) = IF k < FragCount(u) THEN UpTo(u, k) ELSE Video!Nalu(u)
               /\ k > 1 /\ k = FragCount(u) => len = UnitLen[u]
  <2>1. joins => PartOf(Video!Fragments(u)[k], u, k, fuBuf)
    BY FragmentCollected
  <2> QED
    BY <2>1, Zenon DEF PartOf
<1>3. Arrives(p)
  OBVIOUS
<1> HIDE DEF p
<1>4. Fits(p) => joins
  BY <1>1, FragmentNumbers, Zenon DEF Fits
<1>5. ~LastFragment(p)
  <2> SUFFICES ASSUME LastFragment(p) PROVE FALSE
    OBVIOUS
  <2>1. k = FragCount(u) /\ k > 1 /\ ~p.start /\ Fits(p)
    BY <1>1, FragmentNumbers, Zenon DEF LastFragment
  <2>2. len = UnitLen[u] /\ ~(len > MaxFu)
    BY <1>2, <1>4, <2>1, Zenon DEF Fits
  <2> HIDE DEF len
  <2> QED
    BY <2>2
<1>6. CASE MoreFragment(p)
  <2>1. k < FragCount(u) /\ Collected(p, fuBuf) = UpTo(u, k)
    BY <1>1, <1>2, <1>4, <1>6, FragmentNumbers, Zenon DEF MoreFragment
  <2> QED
    BY <1>6, <2>1, Zenon DEF MoreFragment
<1>7. StrayFragment(p) \/ LongFragment(p) \/ MoreFragment(p)
  BY <1>1, <1>3, <1>5, FragmentArrives, Zenon
<1> QED
  BY <1>6, <1>7, Zenon DEF StrayFragment, LongFragment

\* ps ends in the first k fragments of u.
EndsIn(ps, k, u) ==
  k <= Len(ps) /\ \A j \in 1..k : ps[Len(ps) - k + j] = Video!Fragments(u)[j]

\* While the fragments of a unit arrive one after the other, the buffer holds
\* what of the unit has arrived, whatever came before.
SurviveInv ==
  \A u \in Video!Units : UnitLen[u] > Mtu /\ UnitLen[u] <= MaxFu =>
    \A k \in 1..(FragCount(u) - 1) : EndsIn(arrived, k, u) => fuActive /\ fuBuf = UpTo(u, k)

\* The last k of Append(ps, p) are the last k - 1 of ps, and p.
LEMMA TailGrows ==
  ASSUME NEW ps \in Seq(Payloads), NEW p \in Payloads, NEW u, NEW k \in Nat \ {0}, EndsIn(Append(ps, p), k, u)
  PROVE  p = Video!Fragments(u)[k] /\ EndsIn(ps, k - 1, u)
<1> DEFINE qs == Append(ps, p)
<1>1. Len(qs) = Len(ps) + 1 /\ qs[Len(ps) + 1] = p /\ Len(ps) \in Nat /\ \A j \in 1..Len(ps) : qs[j] = ps[j]
  OBVIOUS
<1> HIDE DEF qs
<1>2. k <= Len(qs) /\ \A j \in 1..k : qs[Len(qs) - k + j] = Video!Fragments(u)[j]
  BY DEF EndsIn, qs
<1>3. p = Video!Fragments(u)[k]
  <2>1. k \in 1..k /\ Len(qs) - k + k = Len(ps) + 1
    BY <1>1
  <2> QED
    BY <1>1, <1>2, <2>1
<1>4. k - 1 <= Len(ps)
  BY <1>1, <1>2
<1>5. ASSUME NEW j \in 1..(k - 1) PROVE ps[Len(ps) - (k - 1) + j] = Video!Fragments(u)[j]
  <2>1. j \in 1..k /\ Len(qs) - k + j = Len(ps) - (k - 1) + j /\ Len(ps) - (k - 1) + j \in 1..Len(ps)
    BY <1>1, <1>4
  <2> QED
    BY <1>1, <1>2, <2>1
<1> QED
  BY <1>3, <1>4, <1>5 DEF EndsIn

\* A suffix, read from its first element.
LEMMA SuffixIs ==
  ASSUME NEW ss \in Seq(Payloads), NEW ps \in Seq(Payloads), Video!IsSuffix(ss, ps)
  PROVE  Len(ss) <= Len(ps) /\ \A j \in 1..Len(ss) : ps[Len(ps) - Len(ss) + j] = ss[j]
<1> DEFINE rs == Video!Reverse(ss)
           rp == Video!Reverse(ps)
           n == Len(ss)
           m == Len(ps)
<1>1. n \in Nat /\ m \in Nat
  OBVIOUS
<1>2. /\ rs \in Seq(Payloads) /\ Len(rs) = n /\ \A j \in 1..n : rs[j] = ss[n - j + 1]
      /\ rp \in Seq(Payloads) /\ Len(rp) = m /\ \A j \in 1..m : rp[j] = ps[m - j + 1]
  <2>1. \A s \in Seq(Payloads) : /\ Video!Reverse(s) \in Seq(Payloads) /\ Len(Video!Reverse(s)) = Len(s)
                                 /\ \A j \in 1..Len(s) : Video!Reverse(s)[j] = s[Len(s) - j + 1]
    <3> TAKE s \in Seq(Payloads)
    <3>1. \A j \in 1..Len(s) : s[(Len(s) - j) + 1] \in Payloads
      OBVIOUS
    <3>2. Len(s) \in Nat
      OBVIOUS
    <3> QED
      BY <3>1, <3>2 DEF Video!Reverse
  <2> QED
    BY <2>1
<1> HIDE DEF rs, rp
<1>3. n <= m /\ SubSeq(rs, 1, n) = SubSeq(rp, 1, n)
  BY <1>2 DEF Video!IsSuffix, Video!IsPrefix, rs, rp
<1>4. ASSUME NEW j \in 1..n PROVE rs[j] = rp[j]
  <2>1. SubSeq(rs, 1, n)[j] = rs[j]
    BY <1>1, <1>2, <1>4
  <2>2. SubSeq(rp, 1, n)[j] = rp[j]
    BY <1>1, <1>2, <1>3, <1>4
  <2> QED
    BY <1>3, <2>1, <2>2, Zenon
<1>5. ASSUME NEW j \in 1..n PROVE ps[m - n + j] = ss[j]
  <2> DEFINE l == n - j + 1
  <2>1. l \in 1..n /\ l \in 1..m /\ n - l + 1 = j /\ m - l + 1 = m - n + j
    BY <1>1, <1>3, <1>5
  <2> HIDE DEF l
  <2>2. rs[l] = ss[n - l + 1] /\ rp[l] = ps[m - l + 1] /\ rs[l] = rp[l]
    BY <1>2, <1>4, <2>1
  <2> QED
    BY <2>1, <2>2, Zenon
<1> QED
  BY <1>3, <1>5

\* A step keeps the buffer, and what arrives whole comes out.
LEMMA SurviveStays ==
  ASSUME VideoTypes, SurviveInv, Video!UnitSurvives, [Video!Next]_(Video!vars)
  PROVE  SurviveInv' /\ Video!UnitSurvives'
<1>1. ASSUME UNCHANGED <<fuActive, fuBuf, arrived, out>> PROVE SurviveInv' /\ Video!UnitSurvives'
  BY <1>1 DEF SurviveInv, Video!UnitSurvives
<1>2. CASE UNCHANGED Video!vars
  BY <1>1, <1>2 DEF Video!vars
<1>3. CASE Video!SendUnit \/ Video!SendAggregate
  BY <1>1, <1>3, Sent
<1>4. ASSUME NEW k \in 1..Window, Video!Lose(k) PROVE SurviveInv' /\ Video!UnitSurvives'
  BY <1>1, <1>4 DEF Video!Lose
<1>5. ASSUME NEW k \in 1..Window, Video!Arrive(k) PROVE SurviveInv' /\ Video!UnitSurvives'
  <2> DEFINE p == flight[k]
             qs == Append(arrived, p)
  <2>1. p \in Payloads /\ arrived' = qs /\ Arrives(p)
    BY <1>5, Arrived, ArrivedAs
  <2>2. arrived \in Seq(Payloads) /\ out \in Seq(Seq(NaluByte))
    BY DEF VideoTypes
  <2> HIDE DEF p
  <2>3. ASSUME NEW u \in Video!Units, UnitLen[u] > Mtu, UnitLen[u] <= MaxFu, NEW m \in 1..FragCount(u),
               EndsIn(qs, m, u)
        PROVE  /\ m < FragCount(u) => fuActive' /\ fuBuf' = UpTo(u, m)
               /\ m = FragCount(u) => out' = out \o <<Video!Nalu(u)>>
    <3>1. p = Video!Fragments(u)[m] /\ EndsIn(arrived, m - 1, u)
      BY <2>1, <2>2, <2>3, TailGrows
    <3>2. m > 1 => fuActive /\ fuBuf = UpTo(u, m - 1)
      <4> HAVE m > 1
      <4>1. m - 1 \in 1..(FragCount(u) - 1)
        BY <2>3, FragCountExact
      <4> QED
        BY <2>3, <3>1, <4>1 DEF SurviveInv
    <3> QED
      BY <2>1, <2>3, <3>1, <3>2, FragmentJoins
  <2>4. SurviveInv'
    <3> SUFFICES ASSUME NEW u \in Video!Units, UnitLen[u] > Mtu, UnitLen[u] <= MaxFu,
                        NEW m \in 1..(FragCount(u) - 1), EndsIn(qs, m, u)
                 PROVE  fuActive' /\ fuBuf' = UpTo(u, m)
      BY <2>1 DEF SurviveInv
    <3>1. m \in 1..FragCount(u) /\ m < FragCount(u)
      BY FragCountExact
    <3> QED
      BY <2>3, <3>1
  <2>5. Video!UnitSurvives'
    <3> SUFFICES ASSUME NEW u \in Video!Units, Video!IsSuffix(Video!PackageH264NALU(u), qs), UnitLen[u] <= MaxFu
                 PROVE  out' # <<>> /\ Video!Last(out') = Video!Nalu(u)
      BY <2>1, Zenon DEF Video!UnitSurvives
    <3>1. SUFFICES out' = out \o <<Video!Nalu(u)>>
      <4>1. Video!Nalu(u) \in Seq(NaluByte)
        BY NaluTyped
      <4> DEFINE n == Video!Nalu(u)
      <4> HIDE DEF n
      <4>2. out \o <<n>> # <<>> /\ (out \o <<n>>)[Len(out \o <<n>>)] = n
        BY <2>2, <4>1 DEF n
      <4> QED
        BY <3>1, <4>2, Zenon DEF Video!Last, n
    <3> DEFINE ss == Video!PackageH264NALU(u)
    <3>2. /\ ss \in Seq(Payloads) /\ ss # <<>>
          /\ UnitLen[u] <= Mtu => ss = << [kind |-> "single", body |-> Video!Nalu(u)] >>
          /\ UnitLen[u] > Mtu => ss = Video!Fragments(u) /\ Len(ss) = FragCount(u)
      BY UnitPacked
    <3>3. qs \in Seq(Payloads) /\ Len(qs) \in Nat /\ qs[Len(qs)] = p
      BY <2>1, <2>2
    <3> HIDE DEF qs, ss
    <3>4. Len(ss) <= Len(qs) /\ \A j \in 1..Len(ss) : qs[Len(qs) - Len(ss) + j] = ss[j]
      <4>1. Video!IsSuffix(ss, qs)
        BY DEF ss
      <4> QED
        BY <3>2, <3>3, <4>1, SuffixIs
    <3>5. CASE UnitLen[u] <= Mtu
      <4> DEFINE q == [kind |-> "single", body |-> Video!Nalu(u)]
      <4>1. ss = <<q>>
        BY <3>2, <3>5
      <4>2. q.kind = "single" /\ q.body = Video!Nalu(u)
        OBVIOUS
      <4> HIDE DEF q
      <4>3. p = q
        <5>1. Len(ss) = 1 /\ ss[1] = q
          BY <4>1
        <5>2. Len(qs) - 1 + 1 = Len(qs)
          BY <3>3
        <5> QED
          BY <3>3, <3>4, <5>1, <5>2
      <4>4. UnitArrives(p)
        <5>1. p.kind = "single" /\ "single" # "stapa" /\ "single" # "fua"
          BY <4>2, <4>3
        <5> QED
          BY <2>1, <5>1, Zenon DEF Arrives, AggregateArrives, StrayFragment, LongFragment, LastFragment, MoreFragment, Fits
      <4> QED
        BY <4>2, <4>3, <4>4, Zenon DEF UnitArrives
    <3>6. CASE UnitLen[u] > Mtu
      <4>1. FragCount(u) \in 1..FragCount(u)
        BY <3>6, FragCountExact
      <4>2. EndsIn(qs, FragCount(u), u)
        BY <3>2, <3>4, <3>6 DEF EndsIn
      <4> QED
        BY <2>3, <3>6, <4>1, <4>2 DEF qs
    <3> QED
      BY <3>5, <3>6, VideoConstants, SMTT(30)
  <2> QED
    BY <2>4, <2>5
<1> QED
  BY <1>2, <1>3, <1>4, <1>5 DEF Video!Next

\* Whatever was lost or overtaken before, a unit whose payloads arrive one after
\* the other comes out intact, for all lengths and limits (h264.go:148-231).
THEOREM UnitsSurvive == SequentialSpec => []UnitSurvives
<1> DEFINE Inv == part = "H264" => VideoTypes /\ SurviveInv /\ Video!UnitSurvives
<1>1. SequentialInit => Inv
  <2> SUFFICES ASSUME SequentialInit PROVE VideoTypes /\ SurviveInv /\ Video!UnitSurvives
    OBVIOUS
  <2>1. VideoTypes /\ arrived = <<>>
    BY VideoStart DEF SequentialInit, Video!Init
  <2>2. SurviveInv
    <3>1. ASSUME NEW u \in Video!Units, UnitLen[u] > Mtu, NEW k \in 1..(FragCount(u) - 1), EndsIn(arrived, k, u) PROVE FALSE
      <4>1. k <= 0 /\ k >= 1
        BY <2>1, <3>1 DEF EndsIn
      <4> QED
        BY <4>1
    <3> QED
      BY <3>1 DEF SurviveInv
  <2>3. Video!UnitSurvives
    <3>1. ASSUME NEW u \in Video!Units, Video!IsSuffix(Video!PackageH264NALU(u), arrived) PROVE FALSE
      <4> DEFINE ss == Video!PackageH264NALU(u)
      <4>1. ss \in Seq(Payloads) /\ ss # <<>> /\ arrived \in Seq(Payloads)
        BY <2>1, UnitPacked DEF VideoTypes
      <4> HIDE DEF ss
      <4>2. Len(ss) <= Len(arrived)
        BY <3>1, <4>1, SuffixIs DEF ss
      <4>3. Len(ss) = 0
        BY <2>1, <4>1, <4>2
      <4> QED
        BY <4>1, <4>3
    <3> QED
      BY <3>1 DEF Video!UnitSurvives
  <2> QED
    BY <2>1, <2>2, <2>3
<1>2. Inv /\ [SequentialNext]_allVars => Inv'
  <2> SUFFICES ASSUME Inv, [SequentialNext]_allVars, part = "H264"
               PROVE  (VideoTypes /\ SurviveInv /\ Video!UnitSurvives)'
    BY OnePartMoves
  <2>1. [Video!Next]_(Video!vars)
    BY OnePartMoves
  <2> QED
    BY <2>1, Typed, SurviveStays
<1>3. Inv => UnitSurvives
  BY DEF UnitSurvives
<1> QED
  BY <1>1, <1>2, <1>3, PTL DEF SequentialSpec

\* The concatenation of the first k of ss, for each k, as the function the
\* library chooses.
Flattened(f, ss, n) == f = [k \in 1..n |-> IF k = 1 THEN ss[k] ELSE f[k - 1] \o ss[k]]

\* Such a function exists.
LEMMA FlattenExists ==
  ASSUME NEW ss
  PROVE  \A n \in Nat : \E f : Flattened(f, ss, n)
<1> DEFINE P(n) == \E f : f = [k \in 1..n |-> IF k = 1 THEN ss[k] ELSE f[k - 1] \o ss[k]]
<1>1. P(0)
  <2> DEFINE f == [k \in 1..0 |-> ss[k]]
  <2>1. f = [k \in 1..0 |-> IF k = 1 THEN ss[k] ELSE f[k - 1] \o ss[k]]
    OBVIOUS
  <2> QED
    BY <2>1
<1>2. ASSUME NEW n \in Nat, P(n) PROVE P(n + 1)
  <2>1. PICK f : f = [k \in 1..n |-> IF k = 1 THEN ss[k] ELSE f[k - 1] \o ss[k]]
    BY <1>2
  <2> DEFINE g == [k \in 1..(n + 1) |->
                     IF k = n + 1 THEN (IF k = 1 THEN ss[k] ELSE f[k - 1] \o ss[k]) ELSE f[k]]
  <2>2. ASSUME NEW k \in 1..(n + 1) PROVE g[k] = IF k = 1 THEN ss[k] ELSE g[k - 1] \o ss[k]
    <3>1. k > 1 => k - 1 \in 1..(n + 1) /\ k - 1 # n + 1
      OBVIOUS
    <3>2. k > 1 => g[k - 1] = f[k - 1]
      BY <3>1
    <3>6. k # n + 1 => k \in 1..n
      OBVIOUS
    <3>7. \A j \in 1..n : f[j] = IF j = 1 THEN ss[j] ELSE f[j - 1] \o ss[j]
      BY <2>1, Zenon
    <3>3. k # n + 1 => f[k] = IF k = 1 THEN ss[k] ELSE f[k - 1] \o ss[k]
      BY <3>6, <3>7, Zenon
    <3>4. g[k] = IF k = 1 THEN ss[k] ELSE f[k - 1] \o ss[k]
      BY <3>3, Zenon
    <3>5. k = 1 \/ k > 1
      OBVIOUS
    <3> HIDE DEF g
    <3> QED
      BY <3>2, <3>4, <3>5, Zenon
  <2>3. g = [k \in 1..(n + 1) |-> IF k = 1 THEN ss[k] ELSE g[k - 1] \o ss[k]]
    BY <2>2, Zenon
  <2> QED
    BY <2>3
<1> DEFINE S == {n \in Nat : P(n)}
<1> HIDE DEF P
<1>3. 0 \in S /\ \A n \in Nat : n \in S => n + 1 \in S
  BY <1>1, <1>2
<1>4. Nat \subseteq S
  BY <1>3, Induct
<1>5. \A n \in Nat : P(n)
  BY <1>4
<1> QED
  BY <1>5 DEF P, Flattened

\* The library's function, in the form of Flattened.
LEMMA FlattenIs ==
  ASSUME NEW ss, NEW n \in Nat \ {0}, Len(ss) = n
  PROVE  \E f : Flattened(f, ss, n) /\ Video!FlattenSeq(ss) = f[n]
<1> DEFINE I(f) == f = [k \in 1..n |-> IF k = 1 THEN ss[k] ELSE f[k - 1] \o ss[k]]
           g == CHOOSE f : I(f)
<1>1. \E f : I(f)
  <2>1. \E f : Flattened(f, ss, n)
    BY FlattenExists
  <2> QED
    BY <2>1 DEF Flattened
<1>2. I(g)
  <2> HIDE DEF I
  <2> QED
    BY <1>1
<1>3. Video!FlattenSeq(ss) = g[n]
  BY DEF Video!FlattenSeq
<1> HIDE DEF g
<1> QED
  BY <1>2, <1>3 DEF Flattened

\* Flattening one more sequence joins it to the others.
LEMMA FlattenAppend ==
  ASSUME NEW S, NEW ss \in Seq(Seq(S)), NEW x \in Seq(S)
  PROVE  Video!FlattenSeq(Append(ss, x)) = Video!FlattenSeq(ss) \o x
<1> DEFINE n == Len(ss)
           ts == Append(ss, x)
<1>1. n \in Nat /\ Len(ts) = n + 1 /\ ts[n + 1] = x /\ (\A k \in 1..n : ts[k] = ss[k] /\ ss[k] \in Seq(S))
      /\ n + 1 \in Nat \ {0} /\ (n = 0 => ss = <<>>)
  OBVIOUS
<1> HIDE DEF ts
<1>2. PICK g : Flattened(g, ts, n + 1) /\ Video!FlattenSeq(ts) = g[n + 1]
  BY <1>1, FlattenIs
<1>3. \A k \in 1..(n + 1) : g[k] = IF k = 1 THEN ts[k] ELSE g[k - 1] \o ts[k]
  BY <1>2 DEF Flattened
<1>4. CASE n = 0
  <2>1. Video!FlattenSeq(ss) = <<>>
    BY <1>1, <1>4 DEF Video!FlattenSeq
  <2>2. g[1] = x
    BY <1>1, <1>3, <1>4
  <2>3. <<>> \o x = x
    OBVIOUS
  <2> QED
    BY <1>2, <1>4, <2>1, <2>2, <2>3 DEF ts
<1>5. CASE n # 0
  <2>1. PICK f : Flattened(f, ss, n) /\ Video!FlattenSeq(ss) = f[n]
    BY <1>1, <1>5, FlattenIs
  <2>2. \A k \in 1..n : f[k] = IF k = 1 THEN ss[k] ELSE f[k - 1] \o ss[k]
    BY <2>1 DEF Flattened
  <2> DEFINE T == {k \in Nat : k \in 1..n => g[k] = f[k]}
  <2>3. 0 \in T
    OBVIOUS
  <2>4. ASSUME NEW k \in Nat, k \in T PROVE k + 1 \in T
    <3> SUFFICES ASSUME k + 1 \in 1..n PROVE g[k + 1] = f[k + 1]
      OBVIOUS
    <3>1. CASE k = 0
      BY <1>1, <1>3, <2>2, <3>1
    <3>2. CASE k # 0
      <4>1. k \in 1..n /\ k + 1 \in 1..(n + 1) /\ k + 1 # 1 /\ (k + 1) - 1 = k
        BY <1>1, <3>2
      <4>2. g[k] = f[k]
        BY <2>4, <4>1
      <4>3. f[k + 1] = f[k] \o ss[k + 1]
        BY <2>2, <4>1
      <4>4. g[k + 1] = g[k] \o ts[k + 1] /\ ts[k + 1] = ss[k + 1]
        BY <1>1, <1>3, <4>1
      <4> QED
        BY <4>2, <4>3, <4>4
    <3> QED
      BY <3>1, <3>2
  <2>5. n \in T
    <3>1. Nat \subseteq T
      BY <2>3, <2>4, Induct
    <3> QED
      BY <1>1, <3>1
  <2>6. g[n] = f[n] /\ n + 1 \in 1..(n + 1) /\ n + 1 # 1 /\ (n + 1) - 1 = n
    BY <1>1, <1>5, <2>5
  <2>7. g[n + 1] = g[n] \o ts[n + 1]
    BY <1>3, <2>6
  <2> QED
    BY <1>1, <1>2, <2>1, <2>6, <2>7, Zenon DEF ts
<1> QED
  BY <1>4, <1>5

-----------------------------------------------------------------------------
\* What unit u adds to the output, and the output after the first m units.
Item(u) == IF UnitLen[u] <= MaxFu THEN <<Video!Nalu(u)>> ELSE <<>>
Expected(m) == Video!FlattenSeq([u \in 1..m |-> Item(u)])

\* The output grows by the next unit.
LEMMA ExpectedStep ==
  /\ Expected(0) = <<>>
  /\ \A m \in Nat : m + 1 \in Video!Units => Expected(m + 1) = Expected(m) \o Item(m + 1)
<1>1. Expected(0) = <<>>
  <2> DEFINE s == [u \in 1..0 |-> Item(u)]
  <2>1. s = <<>> /\ Len(s) = 0
    OBVIOUS
  <2> HIDE DEF s
  <2>2. Video!FlattenSeq(s) = <<>>
    BY <2>1 DEF Video!FlattenSeq
  <2> QED
    BY <2>2 DEF Expected, s
<1>2. ASSUME NEW m \in Nat, m + 1 \in Video!Units PROVE Expected(m + 1) = Expected(m) \o Item(m + 1)
  <2> DEFINE S == Seq(NaluByte)
             s == [u \in 1..m |-> Item(u)]
             t == [u \in 1..(m + 1) |-> Item(u)]
  <2>1. \A u \in 1..(m + 1) : Item(u) \in Seq(S)
    <3> TAKE u \in 1..(m + 1)
    <3>1. u \in Video!Units
      BY <1>2, VideoConstants
    <3>2. Video!Nalu(u) \in S
      BY <3>1, NaluTyped
    <3> DEFINE n == Video!Nalu(u)
    <3> HIDE DEF n, S
    <3>3. <<n>> \in Seq(S) /\ <<>> \in Seq(S)
      BY <3>2 DEF n
    <3> QED
      BY <3>3 DEF Item, n
  <2> HIDE DEF S
  <2>2. s \in Seq(Seq(S)) /\ Len(s) = m /\ m + 1 \in 1..(m + 1)
    BY <2>1
  <2>3. t = Append(s, Item(m + 1))
    BY <2>1
  <2>4. Item(m + 1) \in Seq(S)
    BY <2>1, <2>2
  <2> HIDE DEF s, t
  <2>5. Video!FlattenSeq(Append(s, Item(m + 1))) = Video!FlattenSeq(s) \o Item(m + 1)
    BY <2>2, <2>4, FlattenAppend
  <2> QED
    BY <2>3, <2>5, Zenon DEF Expected, s, t
<1> QED
  BY <1>1, <1>2

\* The size of an aggregate of s with its length fields, as the fold adds it up.
Added(f, s) ==
  IF s = {} THEN 0 ELSE f[s \ {CHOOSE x \in s : TRUE}] + 2 + UnitLen[CHOOSE x \in s : TRUE]

IsTotal(f, t) == f = [s \in SUBSET t |-> Added(f, s)]

\* An element taken from a finite set leaves one fewer.
LEMMA OneTaken ==
  ASSUME NEW t, IsFiniteSet(t), NEW s \in SUBSET t, s # {}
  PROVE  LET x == CHOOSE x \in s : TRUE
         IN x \in s /\ s \ {x} \in SUBSET t /\ Cardinality(s) \in Nat \ {0}
            /\ Cardinality(s \ {x}) = Cardinality(s) - 1
<1> DEFINE x == CHOOSE x \in s : TRUE
<1>1. x \in s
  OBVIOUS
<1> HIDE DEF x
<1>2. IsFiniteSet(s)
  BY FS_Subset
<1>3. IsFiniteSet(s \ {x}) /\ Cardinality(s \ {x}) = Cardinality(s) - 1
  BY <1>1, <1>2, FS_RemoveElement
<1>4. Cardinality(s) \in Nat \ {0}
  BY <1>2, FS_CardinalityType, FS_EmptySet
<1>5. s \ {x} \in SUBSET t
  OBVIOUS
<1> QED
  BY <1>1, <1>3, <1>4, <1>5 DEF x

\* The fold exists as a function on the subsets of a finite set.
LEMMA TotalExists ==
  ASSUME NEW t, IsFiniteSet(t)
  PROVE  \E f : IsTotal(f, t)
<1> DEFINE Small(n) == {s \in SUBSET t : Cardinality(s) <= n}
           P(n) == \E f : f = [s \in Small(n) |-> Added(f, s)]
<1>1. P(0)
  <2> DEFINE f == [s \in Small(0) |-> 0]
  <2>1. ASSUME NEW s \in Small(0) PROVE s = {}
    <3>1. s # {} => Cardinality(s) \in Nat \ {0}
      BY OneTaken
    <3> QED
      BY <3>1
  <2>2. \A s \in Small(0) : Added(f, s) = 0
    BY <2>1 DEF Added
  <2>3. f = [s \in Small(0) |-> Added(f, s)]
    BY <2>2, Zenon
  <2> QED
    BY <2>3
<1>2. ASSUME NEW n \in Nat, P(n) PROVE P(n + 1)
  <2>1. PICK f : f = [s \in Small(n) |-> Added(f, s)]
    BY <1>2
  <2> DEFINE g == [s \in Small(n + 1) |-> Added(f, s)]
  <2>2. ASSUME NEW s \in Small(n + 1) PROVE Added(f, s) = Added(g, s)
    <3>1. CASE s = {}
      BY <3>1 DEF Added
    <3>2. CASE s # {}
      <4> DEFINE x == CHOOSE x \in s : TRUE
      <4>1. s \ {x} \in SUBSET t /\ Cardinality(s) \in Nat /\ Cardinality(s \ {x}) = Cardinality(s) - 1
        BY <3>2, OneTaken
      <4>2. s \ {x} \in Small(n) /\ s \ {x} \in Small(n + 1)
        <5> HIDE DEF x
        <5>1. Cardinality(s) <= n + 1
          OBVIOUS
        <5>2. Cardinality(s \ {x}) <= n /\ Cardinality(s \ {x}) <= n + 1
          BY <4>1, <5>1
        <5> QED
          BY <4>1, <5>2
      <4> HIDE DEF Small
      <4>3. f[s \ {x}] = Added(f, s \ {x})
        BY <2>1, <4>2, Zenon
      <4>4. g[s \ {x}] = Added(f, s \ {x})
        BY <4>2, Zenon
      <4>5. f[s \ {x}] = g[s \ {x}]
        BY <4>3, <4>4, Zenon
      <4> HIDE DEF g
      <4> QED
        BY <4>5, Zenon DEF Added
    <3> QED
      BY <3>1, <3>2
  <2>3. g = [s \in Small(n + 1) |-> Added(g, s)]
    BY <2>2, Zenon
  <2> QED
    BY <2>3
<1> DEFINE S == {n \in Nat : P(n)}
<1> HIDE DEF P
<1>3. Nat \subseteq S
  <2>1. 0 \in S /\ \A n \in Nat : n \in S => n + 1 \in S
    BY <1>1, <1>2
  <2> QED
    BY <2>1, Induct
<1>4. Cardinality(t) \in Nat
  BY FS_CardinalityType
<1>5. P(Cardinality(t))
  BY <1>3, <1>4
<1>6. Small(Cardinality(t)) = SUBSET t
  BY FS_Subset
<1> HIDE DEF Small
<1> QED
  BY <1>5, <1>6, Zenon DEF P, IsTotal

\* An aggregate is longer than any of its units.
LEMMA AggregateTotal ==
  ASSUME NEW t \in SUBSET Video!Units, IsFiniteSet(t), NEW u \in t
  PROVE  LET total == Video!FoldFunctionOnSet(LAMBDA len, sum : sum + 2 + len, 0, UnitLen, t)
         IN total \in Nat /\ UnitLen[u] <= total
<1> DEFINE I(f) == f = [s \in SUBSET t |-> Added(f, s)]
           g == CHOOSE f : I(f)
<1>1. I(g)
  <2>1. \E f : I(f)
    BY TotalExists DEF IsTotal
  <2> HIDE DEF I
  <2> QED
    BY <2>1
<1>2. Video!FoldFunctionOnSet(LAMBDA len, sum : sum + 2 + len, 0, UnitLen, t) = g[t]
  BY DEF Video!FoldFunctionOnSet, Video!MapThenFoldSet, Added
<1> HIDE DEF g
<1>3. \A s \in SUBSET t : g[s] = Added(g, s)
  BY <1>1
<1> DEFINE Bounded(s) == g[s] \in Nat /\ \A v \in s : UnitLen[v] <= g[s]
           T == {n \in Nat : \A s \in SUBSET t : Cardinality(s) <= n => Bounded(s)}
<1>4. ASSUME NEW s \in SUBSET t, s = {} PROVE Bounded(s)
  <2>1. g[s] = 0
    BY <1>3, <1>4, Zenon DEF Added
  <2> QED
    BY <1>4, <2>1
<1>5. 0 \in T
  <2>1. ASSUME NEW s \in SUBSET t, s # {} PROVE ~(Cardinality(s) <= 0)
    <3>1. Cardinality(s) \in Nat \ {0}
      BY <2>1, OneTaken
    <3> QED
      BY <3>1
  <2> HIDE DEF Bounded
  <2> QED
    BY <1>4, <2>1
<1>6. ASSUME NEW n \in Nat, n \in T PROVE n + 1 \in T
  <2> SUFFICES ASSUME NEW s \in SUBSET t, Cardinality(s) <= n + 1, s # {} PROVE Bounded(s)
    <3> HIDE DEF Bounded
    <3> QED
      BY <1>4
  <2> DEFINE x == CHOOSE x \in s : TRUE
  <2>1. /\ x \in s /\ s \ {x} \in SUBSET t /\ Cardinality(s) \in Nat
        /\ Cardinality(s \ {x}) = Cardinality(s) - 1
    BY OneTaken
  <2>2. Cardinality(s \ {x}) <= n
    <3> HIDE DEF x
    <3> QED
      BY <2>1
  <2>3. Bounded(s \ {x})
    <3> HIDE DEF x, Bounded
    <3> QED
      BY <1>6, <2>1, <2>2
  <2>4. g[s] = g[s \ {x}] + 2 + UnitLen[x]
    BY <1>3, Zenon DEF Added
  <2>5. x \in Video!Units /\ \A v \in s : v \in Video!Units /\ (v = x \/ v \in s \ {x})
    BY <2>1
  <2> HIDE DEF x
  <2>6. \A v \in s : UnitLen[v] \in Nat
    BY <2>5, VideoConstants
  <2>7. g[s \ {x}] \in Nat /\ \A v \in s \ {x} : UnitLen[v] <= g[s \ {x}]
    BY <2>3
  <2>8. UnitLen[x] \in Nat
    BY <2>1, <2>6
  <2> QED
    BY <2>4, <2>5, <2>6, <2>7, <2>8
<1>7. Nat \subseteq T
  BY <1>5, <1>6, Induct
<1>8. Bounded(t)
  <2>1. Cardinality(t) \in Nat
    BY FS_CardinalityType
  <2> HIDE DEF Bounded
  <2> QED
    BY <1>7, <2>1
<1> QED
  BY <1>2, <1>8, Zenon

\* Payload p takes the stream from position a to position b: position <<u, k>> is
\* before fragment k of unit u, or before unit u when k = 1.
WholeFrom(p, a, b) == \E u \in Video!Units :
  /\ UnitLen[u] <= Mtu /\ a = <<u, 1>> /\ b = <<u + 1, 1>>
  /\ p.kind = "single" /\ p.body = Video!Nalu(u)
AggregateOf(p, b, u, w) ==
  /\ u < w /\ (\A v \in u..w : UnitLen[v] <= Mtu) /\ b = <<w + 1, 1>>
  /\ p.kind = "stapa" /\ p.nalus = [k \in 1..(w - u + 1) |-> Video!Nalu(u + k - 1)]
AggregateFrom(p, a, b) == \E u, w \in Video!Units : a = <<u, 1>> /\ AggregateOf(p, b, u, w)
FragmentOf(p, b, u, k) ==
  /\ UnitLen[u] > Mtu /\ p = Video!Fragments(u)[k]
  /\ b = IF k < FragCount(u) THEN <<u, k + 1>> ELSE <<u + 1, 1>>
FragmentFrom(p, a, b) == \E u \in Video!Units : \E k \in 1..FragCount(u) : a = <<u, k>> /\ FragmentOf(p, b, u, k)
Moves(p, a, b) == WholeFrom(p, a, b) \/ AggregateFrom(p, a, b) \/ FragmentFrom(p, a, b)

\* The payloads ps take the stream through the positions pos to the start of unit to.
Chain(ps, pos, to) ==
  /\ \A j \in 1..Len(ps) : Moves(ps[j], pos[j - 1], pos[j])
  /\ pos[Len(ps)] = <<to, 1>>

\* The stream before unit u has come out, and what of u has arrived is held,
\* unless u is over the limit.
Holds(u, k) ==
  k > 1 => /\ u \in Video!Units /\ UnitLen[u] > Mtu
           /\ UnitLen[u] <= MaxFu => fuActive /\ fuBuf = UpTo(u, k - 1)
           /\ UnitLen[u] > MaxFu => ~fuActive \/ fuBuf = UpTo(u, k - 1)
Received(a) == \E u, k \in Nat \ {0} : a = <<u, k>> /\ out = Expected(u - 1) /\ Holds(u, k)

OrderInv ==
  /\ next \in 1..(Len(UnitLen) + 1)
  /\ inOrder => \E pos : Chain(flight, pos, next) /\ Received(pos[0])

\* Two chains, one from where the other ends, make one.
LEMMA ChainGrows ==
  ASSUME NEW S, NEW ps \in Seq(S), NEW qs \in Seq(S), NEW pos, NEW rs, NEW u, NEW w,
         Chain(ps, pos, u), Chain(qs, rs, w), rs[0] = <<u, 1>>
  PROVE  \E ts : Chain(ps \o qs, ts, w) /\ ts[0] = pos[0]
<1> DEFINE m == Len(ps)
           n == Len(qs)
           ss == ps \o qs
           ts == [j \in 0..(m + n) |-> IF j <= m THEN pos[j] ELSE rs[j - m]]
<1>1. /\ m \in Nat /\ n \in Nat /\ Len(ss) = m + n
      /\ \A j \in 1..m : ss[j] = ps[j]
      /\ \A j \in (m + 1)..(m + n) : ss[j] = qs[j - m]
  OBVIOUS
<1>2. pos[m] = rs[0]
  BY DEF Chain
<1>3. /\ \A j \in 0..m : ts[j] = pos[j]
      /\ \A j \in m..(m + n) : ts[j] = rs[j - m]
  <2>1. \A j \in 0..(m + n) : ts[j] = IF j <= m THEN pos[j] ELSE rs[j - m]
    OBVIOUS
  <2>2. m - m = 0
    BY <1>1
  <2>3. ts[m] = rs[m - m]
    <3> HIDE DEF ts, m, n
    <3> QED
      BY <1>1, <1>2, <2>1, <2>2
  <2> HIDE DEF ts, m, n
  <2>4. ASSUME NEW j \in m..(m + n) PROVE ts[j] = rs[j - m]
    <3>1. j \in 0..(m + n) /\ (j = m \/ ~(j <= m))
      BY <1>1
    <3> QED
      BY <2>1, <2>3, <3>1
  <2>5. ASSUME NEW j \in 0..m PROVE ts[j] = pos[j]
    <3>1. j \in 0..(m + n) /\ j <= m
      BY <1>1
    <3> QED
      BY <2>1, <3>1
  <2> QED
    BY <2>4, <2>5
<1> HIDE DEF ss, ts, m, n
<1>4. ASSUME NEW j \in 1..(m + n) PROVE Moves(ss[j], ts[j - 1], ts[j])
  <2>1. CASE j <= m
    <3>1. Moves(ps[j], pos[j - 1], pos[j])
      BY <1>1, <2>1 DEF Chain, m
    <3>2. ss[j] = ps[j] /\ ts[j - 1] = pos[j - 1] /\ ts[j] = pos[j]
      BY <1>1, <1>3, <2>1
    <3> QED
      BY <3>1, <3>2, Zenon
  <2>2. CASE j > m
    <3>1. j - m \in 1..n /\ (j - m) - 1 = (j - 1) - m /\ j \in (m + 1)..(m + n) /\ j - 1 \in m..(m + n) /\ j \in m..(m + n)
      BY <1>1, <2>2
    <3>2. Moves(qs[j - m], rs[(j - m) - 1], rs[j - m])
      BY <3>1 DEF Chain, n
    <3>3. ss[j] = qs[j - m] /\ ts[j - 1] = rs[(j - 1) - m] /\ ts[j] = rs[j - m]
      BY <1>1, <1>3, <3>1
    <3> QED
      BY <3>1, <3>2, <3>3, Zenon
  <2> QED
    BY <1>1, <2>1, <2>2
<1>5. ts[m + n] = <<w, 1>>
  <2>1. ts[m + n] = rs[n]
    BY <1>1, <1>3
  <2> QED
    BY <2>1 DEF Chain, n
<1>6. ts[0] = pos[0]
  BY <1>1, <1>3
<1>7. Chain(ss, ts, w)
  BY <1>1, <1>4, <1>5 DEF Chain
<1> QED
  BY <1>6, <1>7, Zenon DEF ss

\* The payloads of a unit take the stream past it.
LEMMA UnitChain ==
  ASSUME NEW u \in Video!Units
  PROVE  \E rs : Chain(Video!PackageH264NALU(u), rs, u + 1) /\ rs[0] = <<u, 1>>
<1> DEFINE ps == Video!PackageH264NALU(u)
<1>1. /\ UnitLen[u] <= Mtu => ps = << [kind |-> "single", body |-> Video!Nalu(u)] >>
      /\ UnitLen[u] > Mtu => ps = Video!Fragments(u) /\ Len(ps) = FragCount(u)
  BY UnitPacked
<1>2. UnitLen[u] <= Mtu \/ UnitLen[u] > Mtu
  BY VideoConstants
<1> HIDE DEF ps
<1>3. CASE UnitLen[u] <= Mtu
  <2> DEFINE q == [kind |-> "single", body |-> Video!Nalu(u)]
             rs == [j \in 0..1 |-> <<u + j, 1>>]
  <2>1. q.kind = "single" /\ q.body = Video!Nalu(u)
    OBVIOUS
  <2>2. rs[0] = <<u, 1>> /\ rs[1] = <<u + 1, 1>>
    BY VideoConstants
  <2> HIDE DEF q, rs
  <2>3. ps = <<q>>
    BY <1>1, <1>3 DEF q
  <2>4. Len(ps) = 1 /\ ps[1] = q
    BY <2>3
  <2>5. Moves(ps[1], rs[0], rs[1])
    BY <1>3, <2>1, <2>2, <2>4, Zenon DEF Moves, WholeFrom
  <2>6. \A j \in 1..Len(ps) : Moves(ps[j], rs[j - 1], rs[j])
    BY <2>4, <2>5
  <2> QED
    BY <2>2, <2>4, <2>6, Zenon DEF Chain, ps
<1>4. CASE UnitLen[u] > Mtu
  <2> DEFINE c == FragCount(u)
             rs == [j \in 0..c |-> IF j < c THEN <<u, j + 1>> ELSE <<u + 1, 1>>]
  <2>1. c \in Nat \ {0, 1}
    BY <1>4, FragCountExact
  <2>2. rs[0] = <<u, 1>> /\ rs[c] = <<u + 1, 1>>
    BY <2>1
  <2>3. ASSUME NEW j \in 1..c PROVE Moves(ps[j], rs[j - 1], rs[j])
    <3>1. rs[j - 1] = <<u, j>> /\ rs[j] = IF j < c THEN <<u, j + 1>> ELSE <<u + 1, 1>>
      BY <2>1
    <3>2. ps[j] = Video!Fragments(u)[j]
      BY <1>1, <1>4
    <3>3. FragmentFrom(ps[j], rs[j - 1], rs[j])
      BY <1>4, <3>1, <3>2, Zenon DEF FragmentFrom, FragmentOf
    <3> QED
      BY <3>3 DEF Moves
  <2> HIDE DEF rs
  <2> QED
    BY <1>1, <1>4, <2>2, <2>3, Zenon DEF Chain, ps
<1> QED
  BY <1>2, <1>3, <1>4

\* The payload of an aggregate takes the stream past its units.
LEMMA AggregateChain ==
  ASSUME NEW u \in Video!Units, NEW w \in Video!Units, w > u, Video!PackageH264STAPA(u, w) # <<>>
  PROVE  \E rs : Chain(Video!PackageH264STAPA(u, w), rs, w + 1) /\ rs[0] = <<u, 1>>
<1> DEFINE q == [kind |-> "stapa", nalus |-> [k \in 1..(w - u + 1) |-> Video!Nalu(u + k - 1)]]
           ps == Video!PackageH264STAPA(u, w)
           total == Video!FoldFunctionOnSet(LAMBDA len, sum : sum + 2 + len, 0, UnitLen, u..w)
           rs == [j \in 0..1 |-> IF j = 0 THEN <<u, 1>> ELSE <<w + 1, 1>>]
<1>1. ps = <<q>>
  BY AggregatePacked
<1>2. q.kind = "stapa" /\ q.nalus = [k \in 1..(w - u + 1) |-> Video!Nalu(u + k - 1)]
  OBVIOUS
<1>3. rs[0] = <<u, 1>> /\ rs[1] = <<w + 1, 1>>
  OBVIOUS
<1>4. ~(1 + total > Mtu)
  BY Zenon DEF Video!PackageH264STAPA
<1>5. u \in Nat /\ w \in Nat /\ u..w \in SUBSET Video!Units /\ IsFiniteSet(u..w)
  BY VideoConstants, FS_Interval
<1>6. \A v \in u..w : total \in Nat /\ UnitLen[v] <= total
  BY <1>5, AggregateTotal, Zenon
<1> HIDE DEF total, ps, q, rs
<1>7. \A v \in u..w : UnitLen[v] <= Mtu
  <2> TAKE v \in u..w
  <2>1. UnitLen[v] \in Nat /\ Mtu \in Nat
    BY <1>5, VideoConstants
  <2> QED
    BY <1>4, <1>6, <2>1
<1>8. Moves(q, rs[0], rs[1])
  <2>1. u < w
    BY <1>5
  <2> QED
    BY <1>2, <1>3, <1>7, <2>1, Zenon DEF Moves, AggregateFrom, AggregateOf
<1>9. Len(ps) = 1 /\ ps[1] = q
  BY <1>1
<1>a. \A j \in 1..Len(ps) : Moves(ps[j], rs[j - 1], rs[j])
  BY <1>8, <1>9
<1> QED
  BY <1>3, <1>9, <1>a, Zenon DEF Chain, ps

\* The oldest payload gone, the chain starts one position later.
LEMMA ChainShrinks ==
  ASSUME NEW S, NEW ps \in Seq(S), 1 \in 1..Len(ps), NEW pos, NEW to, Chain(ps, pos, to)
  PROVE  Moves(ps[1], pos[0], pos[1]) /\ \E rs : Chain(Video!RemoveAt(ps, 1), rs, to) /\ rs[0] = pos[1]
<1> DEFINE n == Len(ps)
           qs == Video!RemoveAt(ps, 1)
           rs == [j \in 0..(n - 1) |-> pos[j + 1]]
<1>1. n \in Nat \ {0} /\ Len(qs) = n - 1 /\ \A j \in 1..(n - 1) : qs[j] = ps[j + 1]
  BY RemoveAtTyped
<1>2. Moves(ps[1], pos[0], pos[1])
  <2>1. Moves(ps[1], pos[1 - 1], pos[1])
    BY DEF Chain
  <2> QED
    BY <2>1
<1>3. \A j \in 0..(n - 1) : rs[j] = pos[j + 1]
  OBVIOUS
<1> HIDE DEF qs, rs, n
<1>4. ASSUME NEW j \in 1..(n - 1) PROVE Moves(qs[j], rs[j - 1], rs[j])
  <2>1. j + 1 \in 1..n /\ (j + 1) - 1 = j /\ j - 1 \in 0..(n - 1) /\ j \in 0..(n - 1) /\ (j - 1) + 1 = j
    BY <1>1
  <2>2. Moves(ps[j + 1], pos[(j + 1) - 1], pos[j + 1])
    BY <2>1 DEF Chain, n
  <2>3. qs[j] = ps[j + 1] /\ rs[j - 1] = pos[j] /\ rs[j] = pos[j + 1]
    BY <1>1, <1>3, <2>1
  <2> QED
    BY <2>1, <2>2, <2>3, Zenon
<1>5. rs[n - 1] = <<to, 1>> /\ rs[0] = pos[1]
  <2>1. n - 1 \in 0..(n - 1) /\ (n - 1) + 1 = n /\ 0 \in 0..(n - 1) /\ 0 + 1 = 1
    BY <1>1
  <2>2. pos[n] = <<to, 1>>
    BY DEF Chain, n
  <2> QED
    BY <1>3, <2>1, <2>2
<1>6. Chain(qs, rs, to)
  BY <1>1, <1>4, <1>5 DEF Chain
<1> QED
  BY <1>2, <1>5, <1>6, Zenon DEF qs

\* A unit that is sent whole is within the limit.
LEMMA WholeFits == \A u \in Video!Units : UnitLen[u] <= Mtu => Item(u) = <<Video!Nalu(u)>>
<1>1. \A u \in Video!Units : UnitLen[u] <= Mtu => UnitLen[u] <= MaxFu
  BY VideoConstants
<1> QED
  BY <1>1 DEF Item

\* The units of an aggregate are what the output is to grow by.
LEMMA AggregateExpected ==
  ASSUME NEW u \in Video!Units, NEW w \in Video!Units, u < w, \A v \in u..w : UnitLen[v] <= Mtu
  PROVE  Expected(w) = Expected(u - 1) \o [k \in 1..(w - u + 1) |-> Video!Nalu(u + k - 1)]
<1> DEFINE S == Seq(NaluByte)
           s(n) == [k \in 1..n |-> Video!Nalu(u + k - 1)]
           T == {n \in Nat : u + n - 1 <= w => Expected(u + n - 1) = Expected(u - 1) \o s(n)}
<1>1. u \in Nat \ {0} /\ w \in Nat /\ \A v \in u..w : v \in Video!Units /\ Item(v) = <<Video!Nalu(v)>>
  BY VideoConstants, WholeFits
<1>2. \A v \in u..w : Video!Nalu(v) \in S
  BY <1>1, NaluTyped
<1>3. \A m \in Nat : m <= w => Expected(m) \in Seq(S)
  <2> DEFINE M == {m \in Nat : m <= w => Expected(m) \in Seq(S)}
  <2>1. 0 \in M
    <3>1. \A A : <<>> \in Seq(A)
      OBVIOUS
    <3> QED
      BY <3>1, ExpectedStep
  <2>2. ASSUME NEW m \in Nat, m \in M PROVE m + 1 \in M
    <3> SUFFICES ASSUME m + 1 <= w PROVE Expected(m + 1) \in Seq(S)
      OBVIOUS
    <3>1. m + 1 \in Video!Units /\ m <= w
      BY <1>1, VideoConstants
    <3>2. Expected(m + 1) = Expected(m) \o Item(m + 1)
      BY <3>1, ExpectedStep
    <3>3. Video!Nalu(m + 1) \in S
      BY <3>1, NaluTyped
    <3>4. Item(m + 1) \in Seq(S)
      <4> DEFINE x == Video!Nalu(m + 1)
      <4> HIDE DEF x, S
      <4>1. <<x>> \in Seq(S) /\ <<>> \in Seq(S)
        BY <3>3 DEF x
      <4> QED
        BY <4>1 DEF Item, x
    <3>5. Expected(m) \in Seq(S)
      BY <2>2, <3>1
    <3> DEFINE e == Expected(m)
               x == Item(m + 1)
    <3>6. e \in Seq(S) /\ x \in Seq(S)
      BY <3>4, <3>5
    <3> HIDE DEF S, e, x
    <3>7. e \o x \in Seq(S)
      BY <3>6
    <3> QED
      BY <3>2, <3>7, Zenon DEF e, x
  <2>3. Nat \subseteq M
    <3> HIDE DEF M
    <3> QED
      BY <2>1, <2>2, Induct
  <2> QED
    BY <2>3
<1> HIDE DEF S
<1>4. 0 \in T
  <2>1. s(0) = <<>> /\ u + 0 - 1 = u - 1
    BY <1>1
  <2>2. Expected(u - 1) \in Seq(S)
    BY <1>1, <1>3
  <2> DEFINE e == Expected(u - 1)
  <2> HIDE DEF e
  <2>3. e \o <<>> = e
    BY <2>2 DEF e
  <2> QED
    BY <2>1, <2>3, Zenon DEF e
<1>5. ASSUME NEW n \in Nat, n \in T PROVE n + 1 \in T
  <2>0. n + 1 \in Nat
    OBVIOUS
  <2> SUFFICES ASSUME u + (n + 1) - 1 <= w PROVE Expected(u + (n + 1) - 1) = Expected(u - 1) \o s(n + 1)
    BY <2>0, Zenon
  <2> DEFINE v == u + n
  <2>1. v \in u..w /\ u + (n + 1) - 1 = v /\ u + n - 1 = v - 1 /\ v - 1 <= w /\ v - 1 \in Nat /\ (v - 1) + 1 = v
    BY <1>1
  <2>2. Expected(v - 1) = Expected(u - 1) \o s(n)
    BY <1>5, <2>1
  <2> HIDE DEF v
  <2>3. Expected(v) = Expected(v - 1) \o <<Video!Nalu(v)>>
    <3>1. v \in Video!Units /\ Item(v) = <<Video!Nalu(v)>>
      BY <1>1, <2>1
    <3>2. Expected((v - 1) + 1) = Expected(v - 1) \o Item((v - 1) + 1)
      BY <2>1, <3>1, ExpectedStep
    <3> QED
      BY <2>1, <3>1, <3>2
  <2>4. s(n) \in Seq(S) /\ s(n + 1) = s(n) \o <<Video!Nalu(v)>>
    <3>1. \A k \in 1..(n + 1) : u + k - 1 \in u..w
      BY <1>1, <2>1
    <3>2. \A k \in 1..(n + 1) : Video!Nalu(u + k - 1) \in S
      BY <1>2, <3>1
    <3>3. s(n) \in Seq(S) /\ Len(s(n)) = n
      BY <3>2
    <3>4. u + (n + 1) - 1 = v
      BY <2>1
    <3> DEFINE x == Video!Nalu(v)
               a == s(n)
               b == s(n + 1)
    <3>5. x \in S /\ b \in Seq(S) /\ Len(b) = n + 1 /\ b[n + 1] = x /\ \A k \in 1..n : b[k] = a[k]
      BY <3>2, <3>4, <1>2, <2>1
    <3> HIDE DEF x, a, b
    <3>6. b = a \o <<x>>
      BY <3>3, <3>5 DEF a
    <3> QED
      BY <3>3, <3>6 DEF x, a, b
  <2>5. Expected(u - 1) \in Seq(S) /\ Video!Nalu(v) \in S
    <3>1. u - 1 \in Nat /\ u - 1 <= w
      BY <1>1
    <3> QED
      BY <1>2, <1>3, <2>1, <3>1
  <2> DEFINE e == Expected(u - 1)
             a == s(n)
             x == Video!Nalu(v)
  <2>6. e \in Seq(S) /\ a \in Seq(S) /\ x \in S
    BY <2>4, <2>5
  <2> HIDE DEF e, a, x
  <2>7. (e \o a) \o <<x>> = e \o (a \o <<x>>)
    BY <2>6, SMTT(30)
  <2> HIDE DEF s
  <2> QED
    BY <2>1, <2>2, <2>3, <2>4, <2>7, Zenon DEF e, a, x
<1>6. Nat \subseteq T
  <2> HIDE DEF T
  <2> QED
    BY <1>4, <1>5, Induct
<1>7. w - u + 1 \in Nat /\ u + (w - u + 1) - 1 = w
  BY <1>1
<1>8. w - u + 1 \in T
  BY <1>6, <1>7
<1> HIDE DEF s
<1>9. Expected(u + (w - u + 1) - 1) = Expected(u - 1) \o s(w - u + 1)
  <2>1. u + (w - u + 1) - 1 <= w
    BY <1>1, <1>7
  <2> QED
    BY <1>8, <2>1
<1> QED
  BY <1>7, <1>9, Zenon DEF s

\* A payload that is neither a fragment nor an aggregate comes out whole, one that
\* is an aggregate as its units.
LEMMA WholeArrives ==
  ASSUME NEW p, Arrives(p)
  PROVE  /\ p.kind = "single" => out' = out \o <<p.body>>
         /\ p.kind = "stapa" => out' = out \o p.nalus
<1>1. "single" # "stapa" /\ "single" # "fua" /\ "stapa" # "fua"
  OBVIOUS
<1> QED
  BY <1>1, Zenon DEF Arrives, UnitArrives, AggregateArrives, StrayFragment, LongFragment, LastFragment,
                     MoreFragment, Fits

\* The start of unit u is reached when the output is what the units before it make.
LEMMA StartReceived ==
  ASSUME NEW u \in Nat \ {0}, out' = Expected(u - 1), NEW a, a = <<u, 1>>
  PROVE  Received(a)'
<1>1. ~(1 > 1) /\ 1 \in Nat \ {0}
  OBVIOUS
<1>2. Holds(u, 1)'
  BY <1>1 DEF Holds
<1> QED
  BY <1>1, <1>2, Zenon DEF Received

\* The payload that is due takes the output and the buffer one position further.
LEMMA MoveReceived ==
  ASSUME VideoTypes, NEW p, NEW a, NEW b, Moves(p, a, b), Received(a), Arrives(p)
  PROVE  Received(b)'
<1>1. PICK u \in Nat \ {0}, k \in Nat \ {0} : a = <<u, k>> /\ out = Expected(u - 1) /\ Holds(u, k)
  BY DEF Received
<1>2. \A v, l : a = <<v, l>> => v = u /\ l = k
  BY <1>1
<1>3. ASSUME u \in Video!Units PROVE Expected(u) = Expected(u - 1) \o Item(u) /\ u + 1 \in Nat \ {0} /\ (u + 1) - 1 = u
  <2>1. u - 1 \in Nat /\ (u - 1) + 1 = u /\ u + 1 \in Nat \ {0} /\ (u + 1) - 1 = u
    OBVIOUS
  <2>2. Expected((u - 1) + 1) = Expected(u - 1) \o Item((u - 1) + 1)
    BY <1>3, <2>1, ExpectedStep
  <2> QED
    BY <2>1, <2>2
<1>4. CASE WholeFrom(p, a, b)
  <2>1. u \in Video!Units /\ UnitLen[u] <= Mtu /\ b = <<u + 1, 1>> /\ p.kind = "single" /\ p.body = Video!Nalu(u)
    BY <1>2, <1>4, Zenon DEF WholeFrom
  <2>2. out' = Expected(u)
    BY <1>1, <1>3, <2>1, WholeFits, WholeArrives, Zenon
  <2> QED
    BY <1>3, <2>1, <2>2, StartReceived
<1>5. CASE AggregateFrom(p, a, b)
  <2>1. PICK w \in Video!Units :
          /\ u \in Video!Units /\ u < w /\ (\A v \in u..w : UnitLen[v] <= Mtu) /\ b = <<w + 1, 1>>
          /\ p.kind = "stapa" /\ p.nalus = [l \in 1..(w - u + 1) |-> Video!Nalu(u + l - 1)]
    <3>2. PICK v \in Video!Units, w \in Video!Units : a = <<v, 1>> /\ AggregateOf(p, b, v, w)
      BY <1>5, Zenon DEF AggregateFrom
    <3>3. v = u
      BY <1>2, <3>2
    <3>1. w \in Video!Units /\ u \in Video!Units /\ AggregateOf(p, b, u, w)
      BY <3>2, <3>3, Zenon
    <3> QED
      BY <3>1, Zenon DEF AggregateOf
  <2>2. Expected(w) = Expected(u - 1) \o [l \in 1..(w - u + 1) |-> Video!Nalu(u + l - 1)]
    BY <2>1, AggregateExpected
  <2>3. out' = out \o p.nalus
    BY <2>1, WholeArrives
  <2>4. out' = Expected(w)
    BY <1>1, <2>1, <2>2, <2>3, Zenon
  <2>5. w + 1 \in Nat \ {0} /\ (w + 1) - 1 = w
    BY VideoConstants
  <2> QED
    BY <2>1, <2>4, <2>5, StartReceived
<1>6. CASE FragmentFrom(p, a, b)
  <2>1. /\ u \in Video!Units /\ k \in 1..FragCount(u) /\ UnitLen[u] > Mtu /\ p = Video!Fragments(u)[k]
        /\ b = IF k < FragCount(u) THEN <<u, k + 1>> ELSE <<u + 1, 1>>
    <3>1. u \in Video!Units /\ k \in 1..FragCount(u) /\ FragmentOf(p, b, u, k)
      <4>1. PICK v \in Video!Units : \E l \in 1..FragCount(v) : a = <<v, l>> /\ FragmentOf(p, b, v, l)
        BY <1>6, Zenon DEF FragmentFrom
      <4>2. PICK l \in 1..FragCount(v) : a = <<v, l>> /\ FragmentOf(p, b, v, l)
        BY <4>1, Zenon
      <4>3. v = u /\ l = k
        BY <1>2, <4>2
      <4> QED
        BY <4>1, <4>2, <4>3, Zenon
    <3> QED
      BY <3>1, Zenon DEF FragmentOf
  <2>2. Arrives(Video!Fragments(u)[k])
    BY <2>1, Zenon
  <2>3. (UnitLen[u] <= MaxFu \/ UnitLen[u] > MaxFu) /\ ~(UnitLen[u] <= MaxFu /\ UnitLen[u] > MaxFu)
    BY <2>1, VideoConstants
  <2>4. k < FragCount(u) =>
          /\ out' = out
          /\ UnitLen[u] <= MaxFu => fuActive' /\ fuBuf' = UpTo(u, k)
          /\ UnitLen[u] > MaxFu => ~fuActive' \/ fuBuf' = UpTo(u, k)
    <3>1. CASE UnitLen[u] <= MaxFu
      <4>1. k > 1 => fuActive /\ fuBuf = UpTo(u, k - 1)
        BY <1>1, <3>1 DEF Holds
      <4>2. k < FragCount(u) => fuActive' /\ fuBuf' = UpTo(u, k) /\ out' = out
        BY <2>1, <2>2, <3>1, <4>1, FragmentJoins
      <4> QED
        BY <2>3, <3>1, <4>2, Zenon
    <3>2. CASE UnitLen[u] > MaxFu
      <4>1. k > 1 => ~fuActive \/ fuBuf = UpTo(u, k - 1)
        BY <1>1, <3>2 DEF Holds
      <4>2. out' = out /\ (k < FragCount(u) => ~fuActive' \/ fuBuf' = UpTo(u, k))
        BY <2>1, <2>2, <3>2, <4>1, LongUnitDropped
      <4> QED
        BY <2>3, <3>2, <4>2, Zenon
    <3> QED
      BY <2>3, <3>1, <3>2
  <2>5. k = FragCount(u) => out' = Expected(u)
    <3> HAVE k = FragCount(u)
    <3>1. CASE UnitLen[u] <= MaxFu
      <4>1. k > 1 => fuActive /\ fuBuf = UpTo(u, k - 1)
        BY <1>1, <3>1 DEF Holds
      <4>2. out' = out \o <<Video!Nalu(u)>>
        BY <2>1, <2>2, <3>1, <4>1, FragmentJoins
      <4> QED
        BY <1>1, <1>3, <2>1, <3>1, <4>2, Zenon DEF Item
    <3>2. CASE UnitLen[u] > MaxFu
      <4>1. k > 1 => ~fuActive \/ fuBuf = UpTo(u, k - 1)
        BY <1>1, <3>2 DEF Holds
      <4>2. out' = out
        BY <2>1, <2>2, <3>2, <4>1, LongUnitDropped
      <4>3. out \o <<>> = out
        BY DEF VideoTypes
      <4>4. Item(u) = <<>>
        BY <2>3, <3>2, Zenon DEF Item
      <4> QED
        BY <1>1, <1>3, <2>1, <4>2, <4>3, <4>4, Zenon
    <3> QED
      BY <2>3, <3>1, <3>2
  <2>6. CASE k < FragCount(u)
    <3>1. b = <<u, k + 1>> /\ k + 1 \in Nat \ {0} /\ (k + 1) - 1 = k
      BY <2>1, <2>6
    <3>2. out' = Expected(u - 1)
      BY <1>1, <2>4, <2>6
    <3>3. Holds(u, k + 1)'
      BY <2>1, <2>4, <2>6, <3>1, Zenon DEF Holds
    <3> QED
      BY <3>1, <3>2, <3>3, Zenon DEF Received
  <2>7. CASE ~(k < FragCount(u))
    <3>1. k = FragCount(u) /\ b = <<u + 1, 1>>
      BY <2>1, <2>7, FragCountExact
    <3> QED
      BY <1>3, <2>1, <2>5, <3>1, StartReceived
  <2> QED
    BY <2>6, <2>7
<1> QED
  BY <1>4, <1>5, <1>6 DEF Moves

\* A step keeps the chain of what is under way, and what has come out before it.
LEMMA OrderStays ==
  ASSUME VideoTypes, OrderInv, [Video!Next]_(Video!vars)
  PROVE  OrderInv'
<1>0. flight \in Seq(Payloads)
  BY DEF VideoTypes
<1>1. CASE UNCHANGED Video!vars
  BY <1>1 DEF OrderInv, Received, Holds, Video!vars
<1>2. ASSUME NEW ps \in Seq(Payloads), NEW to \in 1..(Len(UnitLen) + 1),
             flight' = flight \o ps, next' = to, UNCHANGED <<fuActive, fuBuf, out, inOrder>>,
             \E rs : Chain(ps, rs, to) /\ rs[0] = <<next, 1>>
      PROVE  OrderInv'
  <2> SUFFICES ASSUME inOrder PROVE \E ts : Chain(flight', ts, next') /\ Received(ts[0])'
    BY <1>2, Zenon DEF OrderInv
  <2>1. PICK pos : Chain(flight, pos, next) /\ Received(pos[0])
    BY DEF OrderInv
  <2>2. PICK rs : Chain(ps, rs, to) /\ rs[0] = <<next, 1>>
    BY <1>2
  <2>3. PICK ts : Chain(flight \o ps, ts, to) /\ ts[0] = pos[0]
    BY <1>0, <2>1, <2>2, ChainGrows
  <2>4. Received(ts[0])'
    BY <1>2, <2>1, <2>3, Zenon DEF Received, Holds
  <2> QED
    BY <1>2, <2>3, <2>4, Zenon
<1>3. CASE Video!SendUnit
  <2>1. next \in Video!Units /\ flight' = flight \o Video!PackageH264NALU(next) /\ next' = next + 1
        /\ UNCHANGED <<fuActive, fuBuf, out, inOrder>>
    BY <1>3 DEF Video!SendUnit, Video!Send
  <2>2. Video!PackageH264NALU(next) \in Seq(Payloads)
    BY <2>1, UnitPacked
  <2>3. next + 1 \in 1..(Len(UnitLen) + 1)
    BY <2>1, VideoConstants
  <2>4. \E rs : Chain(Video!PackageH264NALU(next), rs, next + 1) /\ rs[0] = <<next, 1>>
    BY <2>1, UnitChain
  <2> QED
    BY <1>2, <2>1, <2>2, <2>3, <2>4
<1>4. CASE Video!SendAggregate
  <2>1. PICK w \in Video!Units :
          /\ w > next /\ next \in Video!Units /\ Video!PackageH264STAPA(next, w) # <<>>
          /\ flight' = flight \o Video!PackageH264STAPA(next, w) /\ next' = next + (w - next + 1)
          /\ UNCHANGED <<fuActive, fuBuf, out, inOrder>>
    BY <1>4 DEF Video!SendAggregate, Video!Send
  <2> DEFINE p == [kind |-> "stapa", nalus |-> [l \in 1..(w - next + 1) |-> Video!Nalu(next + l - 1)]]
             ps == Video!PackageH264STAPA(next, w)
  <2>2. (ps = <<>> \/ ps = <<p>>) /\ p \in Payloads
    BY <2>1, AggregatePacked
  <2>3. next' = w + 1 /\ w + 1 \in 1..(Len(UnitLen) + 1)
    BY <2>1, VideoConstants
  <2>4. \E rs : Chain(ps, rs, w + 1) /\ rs[0] = <<next, 1>>
    BY <2>1, AggregateChain
  <2> HIDE DEF p, ps
  <2>5. ps \in Seq(Payloads)
    <3>1. <<p>> \in Seq(Payloads) /\ <<>> \in Seq(Payloads)
      BY <2>2
    <3> QED
      BY <2>2, <3>1
  <2> QED
    BY <1>2, <2>1, <2>3, <2>4, <2>5 DEF ps
<1>5. ASSUME NEW k \in 1..Window, Video!Lose(k) PROVE OrderInv'
  BY <1>5 DEF OrderInv, Video!Lose
<1>6. ASSUME NEW k \in 1..Window, Video!Arrive(k) PROVE OrderInv'
  <2>1. /\ k \in 1..Len(flight) /\ flight' = Video!RemoveAt(flight, k)
        /\ inOrder' = (inOrder /\ k = 1) /\ next' = next /\ Arrives(flight[k])
    BY <1>6, Arrived, ArrivedAs
  <2> SUFFICES ASSUME inOrder, k = 1 PROVE \E ts : Chain(flight', ts, next') /\ Received(ts[0])'
    BY <2>1, Zenon DEF OrderInv
  <2>2. PICK pos : Chain(flight, pos, next) /\ Received(pos[0])
    BY DEF OrderInv
  <2>3. Moves(flight[1], pos[0], pos[1])
    BY <1>0, <2>1, <2>2, ChainShrinks
  <2>4. PICK ts : Chain(Video!RemoveAt(flight, 1), ts, next) /\ ts[0] = pos[1]
    BY <1>0, <2>1, <2>2, ChainShrinks
  <2>5. PICK p, a, b : p = flight[1] /\ a = pos[0] /\ b = pos[1]
    OBVIOUS
  <2>6. Received(b)'
    BY <2>1, <2>2, <2>3, <2>5, MoveReceived, Zenon
  <2>7. Received(ts[0])'
    BY <2>4, <2>5, <2>6, Zenon
  <2> QED
    BY <2>1, <2>4, <2>7, Zenon
<1> QED
  BY <1>1, <1>3, <1>4, <1>5, <1>6 DEF Video!Next

\* A network that neither loses nor reorders delivers every unit but those over
\* the limit, in order, however units are split and aggregated (h264.go:17-231).
THEOREM NothingIsLost == SequentialSpec => []Lossless
<1> DEFINE Inv == part = "H264" => VideoTypes /\ OrderInv
<1>1. SequentialInit => Inv
  <2> SUFFICES ASSUME SequentialInit PROVE VideoTypes /\ OrderInv
    OBVIOUS
  <2>1. VideoTypes /\ next = 1 /\ flight = <<>> /\ out = <<>>
    BY VideoStart DEF SequentialInit, Video!Init
  <2> DEFINE pos == [j \in 0..0 |-> <<1, 1>>]
  <2>2. pos[0] = <<1, 1>> /\ Len(flight) = 0 /\ \A j \in 1..Len(flight) : FALSE
    BY <2>1
  <2> HIDE DEF pos
  <2>3. Chain(flight, pos, next)
    BY <2>1, <2>2 DEF Chain
  <2>4. Received(pos[0])
    <3>1. 1 - 1 = 0 /\ 1 \in Nat \ {0} /\ ~(1 > 1)
      OBVIOUS
    <3>2. out = Expected(1 - 1) /\ Holds(1, 1)
      BY <2>1, <3>1, ExpectedStep DEF Holds
    <3> QED
      BY <2>2, <3>1, <3>2, Zenon DEF Received
  <2>5. next \in 1..(Len(UnitLen) + 1)
    BY <2>1, VideoConstants
  <2> QED
    BY <2>1, <2>3, <2>4, <2>5, Zenon DEF OrderInv
<1>2. Inv /\ [SequentialNext]_allVars => Inv'
  <2> SUFFICES ASSUME Inv, [SequentialNext]_allVars, part = "H264" PROVE (VideoTypes /\ OrderInv)'
    BY OnePartMoves
  <2>1. [Video!Next]_(Video!vars)
    BY OnePartMoves
  <2> QED
    BY <2>1, Typed, OrderStays
<1>3. Inv => Lossless
  <2> SUFFICES ASSUME OrderInv, inOrder, flight = <<>> PROVE out = Expected(next - 1)
    BY DEF Lossless, Video!Lossless, Expected, Item
  <2>1. PICK pos : Chain(flight, pos, next) /\ Received(pos[0])
    BY DEF OrderInv
  <2>2. Len(flight) = 0
    OBVIOUS
  <2>3. pos[0] = <<next, 1>>
    BY <2>1, <2>2, Zenon DEF Chain
  <2> QED
    BY <2>1, <2>3 DEF Received
<1> QED
  BY <1>1, <1>2, <1>3, PTL DEF SequentialSpec

-----------------------------------------------------------------------------
(* RtpHeader.                                                              *)

\* u is v and w, one after the other.
Both(u, v, w, S) ==
  /\ u \in Seq(S) /\ Len(u) = Len(v) + Len(w)
  /\ \A k \in 1..Len(v) : u[k] = v[k]
  /\ \A k \in 1..Len(w) : u[Len(v) + k] = w[k]

\* Where the elements of both halves are.
LEMMA Halves ==
  ASSUME NEW S, NEW v \in Seq(S), NEW w \in Seq(S)
  PROVE  Both(v \o w, v, w, S)
BY DEF Both

\* w is v, of n bytes, and four more.
FourBehind(w, v, n, a, b, c, d) ==
  /\ w \in Seq(Int) /\ Len(w) = n + 4 /\ \A k \in 1..n : w[k] = v[k]
  /\ w[n + 1] = a /\ w[n + 2] = b /\ w[n + 3] = c /\ w[n + 4] = d

LEMMA FourMore ==
  ASSUME NEW v \in Seq(Int), NEW n \in Nat, Len(v) = n, NEW a \in Int, NEW b \in Int, NEW c \in Int, NEW d \in Int
  PROVE  FourBehind(v \o <<a, b, c, d>>, v, n, a, b, c, d)
<1> DEFINE t == <<a, b, c, d>>
           w == v \o t
<1>1. t \in Seq(Int) /\ Len(t) = 4 /\ t[1] = a /\ t[2] = b /\ t[3] = c /\ t[4] = d
  OBVIOUS
<1> HIDE DEF t
<1>2. Both(w, v, t, Int)
  BY <1>1, Halves
<1> HIDE DEF w
<1>3. FourBehind(w, v, n, t[1], t[2], t[3], t[4])
  BY <1>1, <1>2 DEF Both, FourBehind
<1> QED
  BY <1>1, <1>3, Zenon DEF t, w

\* The members of a tuple.
LEMMA TwoOf ==
  ASSUME NEW B, B \subseteq (0..255) \X (0..255), NEW x \in B
  PROVE  x = <<x[1], x[2]>> /\ x[1] \in Int /\ x[2] \in Int
OBVIOUS

LEMMA FourOf ==
  ASSUME NEW B, B \subseteq (0..255) \X (0..255) \X (0..255) \X (0..255), NEW x \in B
  PROVE  x = <<x[1], x[2], x[3], x[4]>> /\ x[1] \in Int /\ x[2] \in Int /\ x[3] \in Int /\ x[4] \in Int
OBVIOUS

\* The twelve bytes h that every header of the fields f begins with.
Starts(h, b, f) ==
  /\ h \in Seq(Int) /\ Len(h) = 12 /\ h[1] = b /\ h[2] = f.type + 128 * Codec!Bit(f.marker)
  /\ f.seq = <<h[3], h[4]>> /\ f.ts = <<h[5], h[6], h[7], h[8]>>
  /\ f.ssrc = <<h[9], h[10], h[11], h[12]>>

LEMMA FixedIs ==
  ASSUME NEW f \in Codec!Fields, NEW b \in 0..255
  PROVE  Starts(Codec!Fixed(b, f), b, f)
<1> DEFINE y == f.type + 128 * Codec!Bit(f.marker)
           s == f.seq
           t == f.ts
           u == f.ssrc
<1>1. /\ Shorts \subseteq (0..255) \X (0..255) /\ Longs \subseteq (0..255) \X (0..255) \X (0..255) \X (0..255)
      /\ Types \subseteq 0..127
  BY SequentialAssumption DEF Codec!HeaderAssumption
<1>2. f.type \in Types /\ s \in Shorts /\ t \in Longs /\ u \in Longs
  BY Zenon DEF Codec!Fields
<1>3. y \in Int
  <2>1. Codec!Bit(f.marker) \in {0, 1}
    BY Zenon DEF Codec!Bit
  <2>2. \A n \in 0..127, k \in {0, 1} : n + 128 * k \in Int
    OBVIOUS
  <2> QED
    BY <1>1, <1>2, <2>1, <2>2, ZenonT(60)
<1> HIDE DEF s, t, u, y
<1>4. s = <<s[1], s[2]>> /\ s[1] \in Int /\ s[2] \in Int
  BY <1>1, <1>2, TwoOf
<1>5. t = <<t[1], t[2], t[3], t[4]>> /\ t[1] \in Int /\ t[2] \in Int /\ t[3] \in Int /\ t[4] \in Int
  BY <1>1, <1>2, FourOf
<1>6. u = <<u[1], u[2], u[3], u[4]>> /\ u[1] \in Int /\ u[2] \in Int /\ u[3] \in Int /\ u[4] \in Int
  BY <1>1, <1>2, FourOf
<1> DEFINE g == <<b, y>> \o <<s[1], s[2]>>
           h == g \o <<t[1], t[2], t[3], t[4]>>
           w == h \o <<u[1], u[2], u[3], u[4]>>
<1>7. g \in Seq(Int) /\ Len(g) = 4 /\ g[1] = b /\ g[2] = y /\ g[3] = s[1] /\ g[4] = s[2]
  BY <1>3, <1>4
<1> HIDE DEF g
<1>8. FourBehind(h, g, 4, t[1], t[2], t[3], t[4])
  BY <1>5, <1>7, FourMore
<1> HIDE DEF h
<1>9. h \in Seq(Int) /\ Len(h) = 8
  BY <1>8 DEF FourBehind
<1>a. FourBehind(w, h, 8, u[1], u[2], u[3], u[4])
  BY <1>6, <1>9, FourMore
<1>b. Codec!Fixed(b, f) = w
  <2>1. Codec!Fixed(b, f) = <<b, y>> \o s \o t \o u
    BY Zenon DEF Codec!Fixed, Codec!Marked, y, s, t, u
  <2> QED
    BY <1>4, <1>5, <1>6, <2>1, Zenon DEF g, h
<1> HIDE DEF w
<1>c. /\ w \in Seq(Int) /\ Len(w) = 12 /\ w[1] = b /\ w[2] = y /\ w[3] = s[1] /\ w[4] = s[2]
      /\ w[5] = t[1] /\ w[6] = t[2] /\ w[7] = t[3] /\ w[8] = t[4]
      /\ w[9] = u[1] /\ w[10] = u[2] /\ w[11] = u[3] /\ w[12] = u[4]
  BY <1>7, <1>8, <1>a DEF FourBehind
<1> QED
  <2>1. s = <<w[3], w[4]>> /\ t = <<w[5], w[6], w[7], w[8]>> /\ u = <<w[9], w[10], w[11], w[12]>>
    BY <1>4, <1>5, <1>6, <1>c, Zenon
  <2>2. f.seq = s /\ f.ts = t /\ f.ssrc = u /\ y = f.type + 128 * Codec!Bit(f.marker)
    BY Zenon DEF s, t, u, y
  <2> QED
    BY <1>b, <1>c, <2>1, <2>2, Zenon DEF Starts

\* A header of first byte b: x says whether an extension, of w words, follows
\* its s sources, and r is all that follows the fixed part.
Shape(b, x, s, w, r) ==
  /\ x \in 0..1 /\ s \in 0..15 /\ w \in Nat /\ b = 128 + 16 * x + s /\ r \in Seq(Int)
  /\ x = 0 => Len(r) >= 4 * s
  /\ x = 1 => Len(r) >= 4 * s + 4 + 4 * w /\ r[4 * s + 3] * 256 + r[4 * s + 4] = w
HeaderSize(x, s, w) == IF x = 0 THEN 12 + 4 * s ELSE 16 + 4 * s + 4 * w

\* d gives the length n of its header, if it is long enough, and the fields f.
ReadsAs(d, f, n) ==
  /\ Codec!RtpHeaderByteLength(d) = IF Len(d) >= n THEN n ELSE Codec!Unparsed
  /\ Codec!RtpHeaderByteLength(d) # Codec!Unparsed => Codec!ParseRtpHeader(d) = f

\* d is the first k elements of a.
FirstOf(d, a, k) == d \in Seq(Int) /\ Len(d) = k /\ \A j \in 1..k : d[j] = a[j]

LEMMA FirstBytes ==
  ASSUME NEW a \in Seq(Int), NEW k \in 1..Len(a)
  PROVE  FirstOf(SubSeq(a, 1, k), a, k)
BY DEF FirstOf

\* The two or four bytes a field lies in.
LEMMA PartOfBytes ==
  ASSUME NEW d \in Seq(Int), Len(d) >= 12
  PROVE  /\ SubSeq(d, 3, 4) = <<d[3], d[4]>>
         /\ SubSeq(d, 5, 8) = <<d[5], d[6], d[7], d[8]>>
         /\ SubSeq(d, 9, 12) = <<d[9], d[10], d[11], d[12]>>
<1>1. \A e \in Seq(Int) : Len(e) = 2 => e = <<e[1], e[2]>>
  OBVIOUS
<1>2. \A e \in Seq(Int) : Len(e) = 4 => e = <<e[1], e[2], e[3], e[4]>>
  OBVIOUS
<1> DEFINE p == SubSeq(d, 3, 4)
           q == SubSeq(d, 5, 8)
           r == SubSeq(d, 9, 12)
<1>3. p \in Seq(Int) /\ Len(p) = 2 /\ p[1] = d[3] /\ p[2] = d[4]
  OBVIOUS
<1>4. q \in Seq(Int) /\ Len(q) = 4 /\ q[1] = d[5] /\ q[2] = d[6] /\ q[3] = d[7] /\ q[4] = d[8]
  BY SMTT(30)
<1>5. r \in Seq(Int) /\ Len(r) = 4 /\ r[1] = d[9] /\ r[2] = d[10] /\ r[3] = d[11] /\ r[4] = d[12]
  OBVIOUS
<1> HIDE DEF p, q, r
<1>6. p = <<d[3], d[4]>>
  BY <1>1, <1>3, Zenon
<1>7. q = <<d[5], d[6], d[7], d[8]>>
  BY <1>2, <1>4, Zenon
<1>8. r = <<d[9], d[10], d[11], d[12]>>
  BY <1>2, <1>5, Zenon
<1> QED
  BY <1>6, <1>7, <1>8, Zenon DEF p, q, r

\* The marker and the payload type share a byte.
LEMMA ByteShared ==
  ASSUME NEW n \in 0..127, NEW y
  PROVE  /\ y = n + 128 * 1 => y >= 128 /\ y % 128 = n
         /\ y = n + 128 * 0 => ~(y >= 128) /\ y % 128 = n
OBVIOUS

LEMMA SameTruth == ASSUME NEW n, NEW m \in BOOLEAN, n >= 128 <=> m PROVE (n >= 128) = m
OBVIOUS

\* The fields are in the fixed part.
LEMMA FieldsRead ==
  ASSUME NEW f \in Codec!Fields, NEW b, NEW h, Starts(h, b, f), NEW d \in Seq(Int), Len(d) >= 12,
         \A j \in 1..12 : d[j] = h[j]
  PROVE  Codec!ParseRtpHeader(d) = f
<1>1. f.type \in 0..127 /\ f.marker \in BOOLEAN
  <2>1. Types \subseteq 0..127
    BY SequentialAssumption DEF Codec!HeaderAssumption
  <2>2. f.type \in Types /\ f.marker \in BOOLEAN
    BY Zenon DEF Codec!Fields
  <2> QED
    BY <2>1, <2>2, Zenon
<1>2. d[2] = f.type + 128 * Codec!Bit(f.marker)
  <2>1. 2 \in 1..12
    OBVIOUS
  <2> QED
    BY <2>1, Zenon DEF Starts
<1>3. (d[2] >= 128) = f.marker /\ d[2] % 128 = f.type
  <2>1. CASE f.marker /\ Codec!Bit(f.marker) = 1
    <3>1. d[2] = f.type + 128 * 1
      BY <1>2, <2>1, Zenon
    <3>2. d[2] >= 128 /\ d[2] % 128 = f.type
      BY <1>1, <3>1, ByteShared, ZenonT(60)
    <3>3. d[2] >= 128 <=> f.marker
      BY <2>1, <3>2, Zenon
    <3> QED
      BY <1>1, <3>2, <3>3, SameTruth, Zenon
  <2>2. CASE ~f.marker /\ Codec!Bit(f.marker) = 0
    <3>1. d[2] = f.type + 128 * 0
      BY <1>2, <2>2, Zenon
    <3>2. ~(d[2] >= 128) /\ d[2] % 128 = f.type
      BY <1>1, <3>1, ByteShared, ZenonT(60)
    <3>3. d[2] >= 128 <=> f.marker
      BY <2>2, <3>2, Zenon
    <3> QED
      BY <1>1, <3>2, <3>3, SameTruth, Zenon
  <2> QED
    BY <1>1, <2>1, <2>2, Zenon DEF Codec!Bit
<1>4. SubSeq(d, 3, 4) = <<d[3], d[4]>>
  BY PartOfBytes
<1>5. SubSeq(d, 5, 8) = <<d[5], d[6], d[7], d[8]>>
  BY PartOfBytes
<1>6. SubSeq(d, 9, 12) = <<d[9], d[10], d[11], d[12]>>
  BY PartOfBytes
<1>7. /\ d[3] = h[3] /\ d[4] = h[4] /\ d[5] = h[5] /\ d[6] = h[6] /\ d[7] = h[7] /\ d[8] = h[8]
      /\ d[9] = h[9] /\ d[10] = h[10] /\ d[11] = h[11] /\ d[12] = h[12]
  OBVIOUS
<1>8. f.seq = SubSeq(d, 3, 4) /\ f.ts = SubSeq(d, 5, 8) /\ f.ssrc = SubSeq(d, 9, 12)
  BY <1>4, <1>5, <1>6, <1>7, Zenon DEF Starts
<1>9. f = [marker |-> f.marker, type |-> f.type, seq |-> f.seq, ts |-> f.ts, ssrc |-> f.ssrc]
  BY DEF Codec!Fields
<1>a. Codec!ParseRtpHeader(d) = [marker |-> d[2] >= 128, type |-> d[2] % 128,
        seq |-> SubSeq(d, 3, 4), ts |-> SubSeq(d, 5, 8), ssrc |-> SubSeq(d, 9, 12)]
  <2>1. Codec!Byte(d, 1) = d[2]
    BY DEF Codec!Byte
  <2> QED
    BY <2>1, Zenon DEF Codec!ParseRtpHeader, Codec!Marked
<1> QED
  BY <1>3, <1>8, <1>9, <1>a, Zenon

\* The three ways to the length, as one.
LengthBy(k, n, x, u, v) ==
  CASE ~(k >= 12) \/ k < n -> u [] k >= 12 /\ k >= n /\ x = 0 -> n [] OTHER -> v

\* However much of a header arrives, its length is known once all of it is there.
LEMMA HeaderRead ==
  ASSUME NEW f \in Codec!Fields, NEW b, NEW x, NEW s, NEW w, NEW r, Shape(b, x, s, w, r),
         NEW h, Starts(h, b, f), NEW k \in 1..Len(h \o r)
  PROVE  ReadsAs(SubSeq(h \o r, 1, k), f, HeaderSize(x, s, w))
<1> DEFINE a == h \o r
           d == SubSeq(a, 1, k)
           n == 12 + 4 * s
<1>1. h \in Seq(Int) /\ Len(h) = 12 /\ h[1] = b /\ r \in Seq(Int)
  BY DEF Starts, Shape
<1>2. Both(a, h, r, Int)
  BY <1>1, Halves
<1> HIDE DEF a
<1>3. FirstOf(d, a, k)
  BY <1>2, FirstBytes DEF Both
<1> HIDE DEF d
<1>4. d \in Seq(Int) /\ Len(d) = k /\ k \in Nat \ {0} /\ d[1] = b
  BY <1>1, <1>2, <1>3 DEF Both, FirstOf
<1>5. x \in 0..1 /\ s \in 0..15 /\ w \in Nat /\ b \div 64 = 2 /\ b % 16 = s /\ (b \div 16) % 2 = x
  <2>1. x \in 0..1 /\ s \in 0..15 /\ w \in Nat /\ b = 128 + 16 * x + s
    BY DEF Shape
  <2> QED
    BY <2>1
<1>6. Codec!IsRtpVersion2(d) <=> k >= 12
  BY <1>4, <1>5, SMTT(30) DEF Codec!IsRtpVersion2, Codec!Byte
<1>7. k >= 12 => Codec!ParseRtpHeader(d) = f
  <2> HAVE k >= 12
  <2>1. \A j \in 1..12 : j \in 1..k
    BY <1>4
  <2>2. \A j \in 1..12 : d[j] = h[j]
    BY <1>1, <1>2, <1>3, <2>1, Zenon DEF Both, FirstOf
  <2> QED
    BY <1>4, <2>2, FieldsRead
<1>8. Codec!Byte(d, 0) = b
  BY <1>4 DEF Codec!Byte
<1>9. x = 1 /\ k >= n + 4 => Codec!Byte(d, n + 2) * 256 + Codec!Byte(d, n + 3) = w
  <2> HAVE x = 1 /\ k >= n + 4
  <2>1. d[n + 3] = a[n + 3] /\ d[n + 4] = a[n + 4]
    <3>1. n + 3 \in 1..k /\ n + 4 \in 1..k
      BY <1>4, <1>5
    <3> QED
      BY <1>3, <3>1, Zenon DEF FirstOf
  <2>2. a[n + 3] = r[4 * s + 3] /\ a[n + 4] = r[4 * s + 4]
    <3>1. 4 * s + 3 \in 1..Len(r) /\ 4 * s + 4 \in 1..Len(r) /\ 12 + (4 * s + 3) = n + 3 /\ 12 + (4 * s + 4) = n + 4
      BY <1>1, <1>5, SMTT(30) DEF Shape
    <3>2. a[12 + (4 * s + 3)] = r[4 * s + 3] /\ a[12 + (4 * s + 4)] = r[4 * s + 4]
      BY <1>1, <1>2, <3>1, Zenon DEF Both
    <3> QED
      BY <3>1, <3>2, Zenon
  <2>3. n + 2 + 1 = n + 3 /\ n + 3 + 1 = n + 4
    BY <1>5
  <2> QED
    BY <2>1, <2>2, <2>3, Zenon DEF Codec!Byte, Shape
<1>a. n = 12 + 4 * (b % 16) /\ n \in Nat /\ n >= 12
  BY <1>5, SMTT(30)
<1> DEFINE words == Codec!Byte(d, n + 2) * 256 + Codec!Byte(d, n + 3)
           rest == IF k < n + 4 \/ k < n + 4 + 4 * words THEN Codec!Unparsed ELSE n + 4 + 4 * words
<1>b. Codec!RtpHeaderByteLength(d) = LengthBy(k, n, x, Codec!Unparsed, rest)
  BY <1>4, <1>5, <1>6, <1>8, <1>a, ZenonT(60) DEF Codec!RtpHeaderByteLength, LengthBy
<1>c. x = 1 /\ k >= n + 4 => words = w
  BY <1>9, Zenon DEF words
<1> HIDE DEF words, n
<1> DEFINE m == HeaderSize(x, s, w)
           len == Codec!RtpHeaderByteLength(d)
<1>d. (x = 0 => m = n) /\ (x # 0 => m = n + 4 + 4 * w)
  BY <1>5 DEF HeaderSize, n
<1> HIDE DEF m
<1>e. x # 0 => rest = IF k < m THEN -1 ELSE m
  <2> HAVE x # 0
  <2>1. CASE k < n + 4
    <3>1. k < m
      BY <1>4, <1>5, <1>a, <1>d, <2>1, SMTT(30)
    <3> QED
      BY <2>1, <3>1, Zenon DEF rest, Codec!Unparsed
  <2>2. CASE k >= n + 4
    <3>1. x = 1 /\ ~(k < n + 4)
      BY <1>4, <1>5, <1>a, <2>2, SMTT(30)
    <3>2. words = w /\ n + 4 + 4 * words = m
      BY <1>c, <1>d, <2>2, <3>1, Zenon
    <3> QED
      BY <3>1, <3>2, Zenon DEF rest, Codec!Unparsed
  <2> QED
    BY <1>4, <1>a, <2>1, <2>2
<1> HIDE DEF rest
<1>f. k \in Nat /\ n \in Nat /\ n >= 12 /\ x \in 0..1
  BY <1>4, <1>5, <1>a
<1>i. /\ k < n => len = Codec!Unparsed
      /\ k >= n /\ x = 0 => len = n
      /\ k >= n /\ x # 0 => len = rest
  <2>1. k < n => LengthBy(k, n, x, Codec!Unparsed, rest) = Codec!Unparsed
    BY <1>f DEF LengthBy
  <2>2. k >= n /\ x = 0 => LengthBy(k, n, x, Codec!Unparsed, rest) = n
    BY <1>f DEF LengthBy
  <2>3. k >= n /\ x # 0 => LengthBy(k, n, x, Codec!Unparsed, rest) = rest
    BY <1>f DEF LengthBy
  <2> QED
    BY <1>b, <2>1, <2>2, <2>3, Zenon
<1> HIDE DEF len
<1>j. n <= m /\ m \in Nat
  BY <1>5, <1>a, <1>d, SMTT(30)
<1>k. len = IF k >= m THEN m ELSE -1
  <2>1. CASE k < n
    <3>1. k < m /\ ~(k >= m)
      BY <1>f, <1>j, <2>1
    <3> QED
      BY <1>i, <2>1, <3>1, Zenon DEF Codec!Unparsed
  <2>2. CASE k >= n /\ x = 0
    BY <1>d, <1>i, <2>2, Zenon
  <2>3. CASE k >= n /\ x # 0
    <3>1. k < m <=> ~(k >= m)
      BY <1>f, <1>j
    <3> QED
      BY <1>e, <1>i, <2>3, <3>1, Zenon
  <2> QED
    BY <1>f, <2>1, <2>2, <2>3
<1>h. len # -1 => k >= 12
  BY <1>f, <1>j, <1>k
<1> QED
  BY <1>4, <1>7, <1>k, <1>h, Zenon DEF ReadsAs, len, d, a, m, Codec!Unparsed

\* What follows the fixed part of such a header, and nothing else.
Follows(b, x, s, w, m) == Shape(b, x, s, w, m) /\ 12 + Len(m) = HeaderSize(x, s, w)

\* A packet as it is built, with the length of its header and its fields.
CodecPacket(p) ==
  \E h, b, x, s, w, r : /\ p.fields \in Codec!Fields /\ Starts(h, b, p.fields) /\ Shape(b, x, s, w, r)
                        /\ p.len = HeaderSize(x, s, w) /\ p.bytes = h \o r

LEMMA FillIs ==
  ASSUME NEW n \in Nat, NEW byte \in Int
  PROVE  Codec!Fill(n, byte) \in Seq(Int) /\ Len(Codec!Fill(n, byte)) = n
BY DEF Codec!Fill

LEMMA LengthOfBoth ==
  ASSUME NEW v \in Seq(Int), NEW w \in Seq(Int)
  PROVE  v \o w \in Seq(Int) /\ Len(v \o w) = Len(v) + Len(w)
OBVIOUS

LEMMA ConcatAgain ==
  ASSUME NEW v \in Seq(Int), NEW w \in Seq(Int), NEW x \in Seq(Int)
  PROVE  v \o w \o x = v \o (w \o x)
BY SMTT(30)

LEMMA Whole == ASSUME NEW v \in Seq(Int) PROVE SubSeq(v, 1, Len(v)) = v
OBVIOUS

Rejoined(v, w, x, y) == v \o w \o x \o y = v \o ((w \o x) \o y)

LEMMA FourParts ==
  ASSUME NEW v \in Seq(Int), NEW w \in Seq(Int), NEW x \in Seq(Int), NEW y \in Seq(Int)
  PROVE  Rejoined(v, w, x, y)
<1>1. v \o w \o x = v \o (w \o x)
  BY ConcatAgain, ZenonT(40)
<1>2. w \o x \in Seq(Int)
  OBVIOUS
<1> DEFINE u == w \o x
<1> HIDE DEF u
<1>3. u \in Seq(Int)
  BY <1>2, Zenon DEF u
<1>4. (v \o u) \o y = v \o (u \o y)
  BY <1>3, ConcatAgain, ZenonT(60)
<1> QED
  BY <1>1, <1>4, Zenon DEF Rejoined, u

\* A number as its bytes.
LEMMA TwoBytes ==
  ASSUME NEW w \in Nat
  PROVE  w \div 256 \in Int /\ w % 256 \in Int /\ (w \div 256) * 256 + (w % 256) = w
OBVIOUS

\* u has four bytes, the last of which are a and c.
FourOfTwo(u, a, c) == u \in Seq(Int) /\ Len(u) = 4 /\ u[3] = a /\ u[4] = c

LEMMA TwoAndTwo ==
  ASSUME NEW a \in Int, NEW c \in Int
  PROVE  FourOfTwo(<<222, 190>> \o <<a, c>>, a, c)
BY DEF FourOfTwo

\* More bytes behind a header do not change it.
LEMMA ShapeGrows ==
  ASSUME NEW b, NEW x, NEW s, NEW w, NEW m, Shape(b, x, s, w, m), NEW e \in Seq(Int)
  PROVE  Shape(b, x, s, w, m \o e)
<1> DEFINE r == m \o e
<1>1. m \in Seq(Int) /\ s \in 0..15 /\ w \in Nat /\ x \in 0..1
  BY DEF Shape
<1>2. Both(r, m, e, Int)
  BY <1>1, Halves
<1> HIDE DEF r
<1>3. r \in Seq(Int) /\ Len(r) >= Len(m) /\ Len(m) \in Nat
  BY <1>1, <1>2 DEF Both
<1>4. x = 1 => r[4 * s + 3] = m[4 * s + 3] /\ r[4 * s + 4] = m[4 * s + 4]
  <2> HAVE x = 1
  <2>1. Len(m) >= 4 * s + 4 + 4 * w
    BY Zenon DEF Shape
  <2>2. 4 * s + 3 \in 1..Len(m) /\ 4 * s + 4 \in 1..Len(m)
    BY <1>1, <1>3, <2>1, SMTT(30)
  <2> QED
    BY <1>2, <2>2, Zenon DEF Both
<1>5. Shape(b, x, s, w, r)
  <2>1. x = 0 => Len(r) >= 4 * s
    <3>1. x = 0 => Len(m) >= 4 * s
      BY Zenon DEF Shape
    <3>2. Len(r) \in Nat
      BY <1>3
    <3> QED
      BY <1>1, <1>3, <3>1, <3>2
  <2>2. x = 1 => Len(r) >= 4 * s + 4 + 4 * w
    <3>1. x = 1 => Len(m) >= 4 * s + 4 + 4 * w
      BY Zenon DEF Shape
    <3>2. Len(r) \in Nat
      BY <1>3
    <3> QED
      BY <1>1, <1>3, <3>1, <3>2
  <2> QED
    BY <1>3, <1>4, <2>1, <2>2, Zenon DEF Shape
<1> QED
  BY <1>5, Zenon DEF r

\* A packet is its fixed part, what follows of its header, and its payload.
LEMMA Assembled ==
  ASSUME NEW f \in Codec!Fields, NEW b, NEW x, NEW s, NEW w, NEW m, Follows(b, x, s, w, m)
  PROVE  CodecPacket(Codec!Packet(f, Codec!Fixed(b, f) \o m))
<1> DEFINE h == Codec!Fixed(b, f)
           e == Codec!Fill(BodyLen, 7)
           p == Codec!Packet(f, h \o m)
<1>1. Shape(b, x, s, w, m) /\ m \in Seq(Int) /\ b \in 0..255
  BY DEF Follows, Shape
<1>2. Starts(h, b, f)
  BY <1>1, FixedIs
<1>3. e \in Seq(Int)
  <2>1. BodyLen \in Nat
    BY SequentialAssumption DEF Codec!HeaderAssumption
  <2> QED
    BY <2>1, FillIs
<1>4. p.fields = f /\ p.len = Len(h \o m) /\ p.bytes = (h \o m) \o e
  BY DEF Codec!Packet
<1> HIDE DEF h, e, p
<1>5. h \in Seq(Int) /\ Len(h) = 12
  BY <1>2 DEF Starts
<1>6. (h \o m) \o e = h \o (m \o e)
  BY <1>1, <1>3, <1>5, ConcatAgain
<1>7. Len(h \o m) = HeaderSize(x, s, w)
  <2>1. Len(h \o m) = 12 + Len(m)
    BY <1>1, <1>5, LengthOfBoth
  <2> QED
    BY <2>1, Zenon DEF Follows
<1>8. Shape(b, x, s, w, m \o e)
  BY <1>1, <1>3, ShapeGrows
<1>9. CodecPacket(p)
  BY <1>2, <1>4, <1>6, <1>7, <1>8, Zenon DEF CodecPacket
<1> QED
  BY <1>9, Zenon DEF h, p

\* The extension after the fixed part: the profile, and then w words.
Extension(w, e) == (Codec!Profile \o <<w \div 256, w % 256>>) \o e

\* What the encoder writes of them.
Written(f, w, e) ==
  SubSeq(Codec!Fixed(144, f) \o Codec!Profile \o <<w \div 256, w % 256>> \o e, 1, 16 + 4 * w)

LEMMA ExtensionFollows ==
  ASSUME NEW w \in Nat, NEW e \in Seq(Int), Len(e) = 4 * w
  PROVE  Follows(144, 1, 0, w, Extension(w, e))
<1> DEFINE t == Codec!Profile \o <<w \div 256, w % 256>>
           m == t \o e
<1>1. w \div 256 \in Int /\ w % 256 \in Int /\ (w \div 256) * 256 + (w % 256) = w
  BY TwoBytes
<1>2. t \in Seq(Int) /\ Len(t) = 4 /\ t[3] = w \div 256 /\ t[4] = w % 256
  <2>1. t = <<222, 190>> \o <<w \div 256, w % 256>>
    BY Zenon DEF Codec!Profile, t
  <2> HIDE DEF t
  <2>2. FourOfTwo(t, w \div 256, w % 256)
    BY <1>1, <2>1, TwoAndTwo
  <2> QED
    BY <2>2, Zenon DEF FourOfTwo
<1> HIDE DEF t
<1>3. Both(m, t, e, Int)
  BY <1>2, Halves
<1> HIDE DEF m
<1>4. m \in Seq(Int) /\ Len(m) = 4 + 4 * w /\ m[3] = t[3] /\ m[4] = t[4]
  BY <1>2, <1>3 DEF Both
<1>5. m[3] * 256 + m[4] = w
  BY <1>1, <1>2, <1>4, ZenonT(60)
<1>6. 4 * 0 + 3 = 3 /\ 4 * 0 + 4 = 4 /\ 144 = 128 + 16 * 1 + 0
  OBVIOUS
<1>7. m[4 * 0 + 3] * 256 + m[4 * 0 + 4] = w
  BY <1>5, <1>6, Zenon
<1>8. Len(m) >= 4 * 0 + 4 + 4 * w /\ 12 + Len(m) = HeaderSize(1, 0, w)
  BY <1>4 DEF HeaderSize
<1>9. Shape(144, 1, 0, w, m)
  BY <1>4, <1>6, <1>7, <1>8 DEF Shape
<1> QED
  BY <1>8, <1>9, Zenon DEF Follows, Extension, m, t

\* The encoder writes its header whole.
LEMMA EncodedWhole ==
  ASSUME NEW f \in Codec!Fields, NEW w \in Nat, NEW e \in Seq(Int), Len(e) = 4 * w
  PROVE  Written(f, w, e) = Codec!Fixed(144, f) \o Extension(w, e)
<1> DEFINE h == Codec!Fixed(144, f)
           p == Codec!Profile
           q == <<w \div 256, w % 256>>
           all == h \o p \o q \o e
           m == Extension(w, e)
<1>1. h \in Seq(Int) /\ Len(h) = 12
  <2>1. Starts(h, 144, f)
    BY FixedIs
  <2> QED
    BY <2>1, Zenon DEF Starts
<1>2. p \in Seq(Int) /\ q \in Seq(Int)
  BY DEF Codec!Profile
<1>3. m \in Seq(Int) /\ Len(m) = 4 + 4 * w
  <2>1. Follows(144, 1, 0, w, m)
    BY ExtensionFollows
  <2> HIDE DEF m
  <2>2. m \in Seq(Int) /\ 12 + Len(m) = HeaderSize(1, 0, w)
    BY <2>1, Zenon DEF Follows, Shape
  <2>3. HeaderSize(1, 0, w) = 16 + 4 * w
    BY DEF HeaderSize
  <2>4. Len(m) \in Nat
    BY <2>2
  <2> QED
    BY <2>2, <2>3, <2>4
<1> HIDE DEF h, p, q
<1>4. all = h \o m
  <2>1. Rejoined(h, p, q, e)
    BY <1>1, <1>2, FourParts
  <2> QED
    BY <2>1, Zenon DEF Rejoined, Extension, p, q, m
<1> HIDE DEF m
<1>5. h \o m \in Seq(Int) /\ Len(h \o m) = 16 + 4 * w
  <2>1. h \o m \in Seq(Int) /\ Len(h \o m) = Len(h) + Len(m)
    BY <1>1, <1>3, LengthOfBoth, Zenon
  <2> QED
    BY <1>1, <1>3, <2>1
<1>6. SubSeq(h \o m, 1, Len(h \o m)) = h \o m
  BY <1>5, Whole
<1>7. SubSeq(all, 1, 16 + 4 * w) = h \o m
  BY <1>4, <1>5, <1>6, Zenon
<1> QED
  BY <1>7, Zenon DEF Written, h, p, q, m

\* What is written makes a packet.
LEMMA Encoded ==
  ASSUME NEW f \in Codec!Fields, NEW w \in Nat, NEW e \in Seq(Int), Len(e) = 4 * w
  PROVE  CodecPacket(Codec!Packet(f, Written(f, w, e)))
<1>1. Follows(144, 1, 0, w, Extension(w, e))
  BY ExtensionFollows
<1>2. Written(f, w, e) = Codec!Fixed(144, f) \o Extension(w, e)
  BY EncodedWhole
<1>3. CodecPacket(Codec!Packet(f, Codec!Fixed(144, f) \o Extension(w, e)))
  BY <1>1, Assembled
<1> QED
  BY <1>2, <1>3, Zenon

LEMMA FourLong ==
  ASSUME NEW B, B \subseteq (0..255) \X (0..255) \X (0..255) \X (0..255), NEW x \in B
  PROVE  x \in Seq(Int) /\ Len(x) = 4
<1>1. x = <<x[1], x[2], x[3], x[4]>>
  BY FourOf
<1>2. x[1] \in Int /\ x[2] \in Int /\ x[3] \in Int /\ x[4] \in Int
  BY FourOf
<1>3. \A a, b, c, d \in Int : <<a, b, c, d>> \in Seq(Int) /\ Len(<<a, b, c, d>>) = 4
  OBVIOUS
<1>4. <<x[1], x[2], x[3], x[4]>> \in Seq(Int) /\ Len(<<x[1], x[2], x[3], x[4]>>) = 4
  BY <1>2, <1>3, Zenon
<1> QED
  BY <1>1, <1>4, Zenon

\* Whichever of the two the encoder is given, it writes whole words of it.
LEMMA WordsOf ==
  ASSUME NEW word \in Longs \cup {Codec!Nil}
  PROVE  /\ word = Codec!Nil => word \in Seq(Int) /\ Len(word) = 4 * 0
         /\ word # Codec!Nil => word \in Seq(Int) /\ Len(word) = 4 * 1
<1>1. word = Codec!Nil => word \in Seq(Int) /\ Len(word) = 4 * 0
  BY DEF Codec!Nil
<1>2. word # Codec!Nil => word \in Seq(Int) /\ Len(word) = 4 * 1
  <2> HAVE word # Codec!Nil
  <2>4. 4 * 1 = 4 /\ word \in Longs
    OBVIOUS
  <2>1. Longs \subseteq (0..255) \X (0..255) \X (0..255) \X (0..255)
    BY SequentialAssumption DEF Codec!HeaderAssumption
  <2> QED
    BY <2>1, <2>4, FourLong
<1> QED
  BY <1>1, <1>2, Zenon

LEMMA AudioIsPacket ==
  ASSUME NEW p \in Codec!AudioPackets PROVE CodecPacket(p)
<1>1. PICK f \in Codec!Fields, word \in Longs \cup {Codec!Nil} :
        p = Codec!Packet(f, Codec!EncodeRtpHeader(f, word, Codec!Nil))
  BY DEF Codec!AudioPackets
<1> DEFINE h == Codec!EncodeRtpHeader(f, word, Codec!Nil)
<1>2. 128 + 16 = 144 /\ 16 + 4 * 0 = 16 /\ 16 + 4 * 1 = 20 /\ 0 \in Nat /\ 1 \in Nat
  OBVIOUS
<1>3. word = Codec!Nil =>
        h = Written(f, 0, word)
  BY <1>2, ZenonT(60) DEF Codec!EncodeRtpHeader, Codec!ByteSize, Codec!Bit, Written
<1>4. word # Codec!Nil =>
        h = Written(f, 1, word)
  BY <1>2, ZenonT(60) DEF Codec!EncodeRtpHeader, Codec!ByteSize, Codec!Bit, Written
<1> HIDE DEF h
<1>5. CASE word = Codec!Nil
  <2>1. word \in Seq(Int) /\ Len(word) = 4 * 0
    BY <1>5, WordsOf, Zenon
  <2>2. CodecPacket(Codec!Packet(f, Written(f, 0, word)))
    BY <1>2, <2>1, Encoded
  <2> QED
    BY <1>1, <1>3, <1>5, <2>2, Zenon DEF h
<1>6. CASE word # Codec!Nil
  <2>1. word \in Seq(Int) /\ Len(word) = 4 * 1
    BY <1>6, WordsOf, Zenon
  <2>2. CodecPacket(Codec!Packet(f, Written(f, 1, word)))
    BY <1>2, <2>1, Encoded, ZenonT(60)
  <2> QED
    BY <1>1, <1>4, <1>6, <2>2, Zenon DEF h
<1> QED
  BY <1>5, <1>6, Zenon

LEMMA VideoIsPacket ==
  ASSUME NEW p \in Codec!VideoPackets PROVE CodecPacket(p)
<1>1. PICK f \in Codec!Fields, word \in Longs \cup {Codec!Nil}, n \in ExtensionLens :
        p = Codec!Packet(f, Codec!EncodeRtpHeader(f, word, Codec!Fill(n, 255)))
  BY DEF Codec!VideoPackets
<1> DEFINE e == Codec!Fill(n, 255)
           h == Codec!EncodeRtpHeader(f, word, e)
           w == n \div 4
<1>2. n \in Nat \ {0} /\ n % 4 = 0
  BY SequentialAssumption DEF Codec!HeaderAssumption
<1>3. w \in Nat /\ n = 4 * w /\ n \in Nat /\ n # 0
  BY <1>2
<1>4. e \in Seq(Int) /\ Len(e) = n
  <2>1. 255 \in Int
    OBVIOUS
  <2> QED
    BY <1>3, <2>1, FillIs, Zenon
<1> HIDE DEF e
<1>5. e # Codec!Nil
  BY <1>3, <1>4 DEF Codec!Nil
<1>6. 128 + 16 = 144 /\ 12 + 4 + n = 16 + 4 * w
  BY <1>3
<1>7. h = Written(f, w, e)
  BY <1>4, <1>5, <1>6, ZenonT(60) DEF Codec!EncodeRtpHeader, Codec!ByteSize, Written
<1>8. Len(e) = 4 * w
  BY <1>3, <1>4, Zenon
<1> HIDE DEF h, w
<1>9. CodecPacket(Codec!Packet(f, Written(f, w, e)))
  BY <1>3, <1>4, <1>8, Encoded
<1> QED
  BY <1>1, <1>7, <1>9, Zenon DEF h, e

\* What follows in a foreign header: s sources and, if any, an extension of n words.
ForeignRest(s, n) ==
  Codec!Fill(4 * s, 9) \o (IF n >= 0 THEN <<1, 2, 0, n>> \o Codec!Fill(4 * n, 255) ELSE <<>>)
ForeignWords(n) == IF n >= 0 THEN n ELSE 0

LEMMA ForeignFollows ==
  ASSUME NEW s \in {0, 1, 15}, NEW n \in {-1, 0, 2}
  PROVE  Follows(128 + 16 * Codec!Bit(n >= 0) + s, Codec!Bit(n >= 0), s, ForeignWords(n), ForeignRest(s, n))
<1> DEFINE u == Codec!Fill(4 * s, 9)
<1>1. 4 * s \in Nat /\ 9 \in Int /\ s \in 0..15 /\ 255 \in Int
  OBVIOUS
<1>2. u \in Seq(Int) /\ Len(u) = 4 * s
  BY <1>1, FillIs, Zenon
<1> HIDE DEF u
<1>3. CASE n >= 0
  <2> DEFINE v == Codec!Fill(4 * n, 255)
             h == <<1, 2, 0, n>>
             e == h \o v
             m == u \o e
  <2>1. n \in Nat /\ 4 * n \in Nat
    BY <1>3
  <2>2. v \in Seq(Int) /\ Len(v) = 4 * n
    BY <1>1, <2>1, FillIs, Zenon
  <2>3. h \in Seq(Int) /\ Len(h) = 4 /\ h[3] = 0 /\ h[4] = n
    OBVIOUS
  <2> HIDE DEF v, h
  <2>4. Both(e, h, v, Int)
    BY <2>2, <2>3, Halves
  <2> HIDE DEF e
  <2>5. e \in Seq(Int) /\ Len(e) = 4 + 4 * n /\ e[3] = 0 /\ e[4] = n
    BY <2>2, <2>3, <2>4 DEF Both
  <2>6. Both(m, u, e, Int)
    BY <1>2, <2>5, Halves
  <2> HIDE DEF m
  <2>7. m \in Seq(Int) /\ Len(m) = 4 * s + 4 + 4 * n /\ m[4 * s + 3] = 0 /\ m[4 * s + 4] = n
    BY <1>1, <1>2, <2>1, <2>5, <2>6 DEF Both
  <2>8. m[4 * s + 3] * 256 + m[4 * s + 4] = n
    BY <2>1, <2>7
  <2>9. Shape(128 + 16 * 1 + s, 1, s, n, m)
    BY <1>1, <2>1, <2>7, <2>8 DEF Shape
  <2>a. 12 + Len(m) = HeaderSize(1, s, n)
    BY <1>1, <2>1, <2>7 DEF HeaderSize
  <2>b. Codec!Bit(n >= 0) = 1
    BY <1>3, Zenon DEF Codec!Bit
  <2> QED
    BY <1>3, <2>9, <2>a, <2>b, Zenon DEF Follows, ForeignRest, ForeignWords, u, v, h, e, m
<1>4. CASE ~(n >= 0)
  <2>1. u \o <<>> = u
    BY <1>2
  <2>2. Shape(128 + 16 * 0 + s, 0, s, 0, u)
    BY <1>1, <1>2 DEF Shape
  <2>3. 12 + Len(u) = HeaderSize(0, s, 0)
    BY <1>2 DEF HeaderSize
  <2>4. Codec!Bit(n >= 0) = 0
    BY <1>4, Zenon DEF Codec!Bit
  <2> QED
    BY <1>4, <2>1, <2>2, <2>3, <2>4, Zenon DEF Follows, ForeignRest, ForeignWords, u
<1> QED
  BY <1>3, <1>4, Zenon

LEMMA ForeignIsPacket ==
  ASSUME NEW p \in Codec!ForeignPackets PROVE CodecPacket(p)
<1>1. PICK f \in Codec!Fields, s \in {0, 1, 15}, n \in {-1, 0, 2} :
        p = Codec!Packet(f, Codec!Fixed(128 + 16 * Codec!Bit(n >= 0) + s, f) \o Codec!Fill(4 * s, 9)
              \o (IF n >= 0 THEN <<1, 2, 0, n>> \o Codec!Fill(4 * n, 255) ELSE <<>>))
  BY DEF Codec!ForeignPackets
<1> DEFINE x == Codec!Bit(n >= 0)
           w == ForeignWords(n)
           b == 128 + 16 * x + s
           h == Codec!Fixed(b, f)
           u == Codec!Fill(4 * s, 9)
           e == IF n >= 0 THEN <<1, 2, 0, n>> \o Codec!Fill(4 * n, 255) ELSE <<>>
           m == ForeignRest(s, n)
<1>2. Follows(b, x, s, w, m)
  BY ForeignFollows
<1>3. h \in Seq(Int)
  <2>1. b \in 0..255
    <3> HIDE DEF x, w, b, m
    <3>1. x \in 0..1 /\ s \in 0..15 /\ b = 128 + 16 * x + s
      BY <1>2, Zenon DEF Follows, Shape
    <3> QED
      BY <3>1
  <2> QED
    BY <2>1, FixedIs, Zenon DEF Starts
<1>4. u \in Seq(Int)
  <2>1. 4 * s \in Nat /\ 9 \in Int
    OBVIOUS
  <2> QED
    BY <2>1, FillIs, Zenon
<1>5. e \in Seq(Int)
  <2>1. CASE n >= 0
    <3>1. 4 * n \in Nat /\ 255 \in Int /\ <<1, 2, 0, n>> \in Seq(Int)
      BY <2>1
    <3>2. Codec!Fill(4 * n, 255) \in Seq(Int)
      BY <3>1, FillIs
    <3>3. <<1, 2, 0, n>> \o Codec!Fill(4 * n, 255) \in Seq(Int)
      BY <3>1, <3>2, LengthOfBoth
    <3> QED
      BY <2>1, <3>3, Zenon
  <2>2. CASE ~(n >= 0)
    <3>1. <<>> \in Seq(Int)
      OBVIOUS
    <3> QED
      BY <2>2, <3>1, Zenon
  <2> QED
    BY <2>1, <2>2, Zenon
<1>6. p = Codec!Packet(f, h \o u \o e)
  BY <1>1, Zenon
<1>7. h \o u \o e = h \o (u \o e)
  <2> HIDE DEF h, u, e
  <2> QED
    BY <1>3, <1>4, <1>5, ConcatAgain
<1>8. CodecPacket(Codec!Packet(f, h \o m))
  <2> HIDE DEF x, w, m
  <2> QED
    BY <1>2, Assembled
<1> QED
  BY <1>6, <1>7, <1>8, ZenonT(60) DEF ForeignRest, m

\* The packet under way, and how much of it has arrived.
CodecInv ==
  wire # <<>> => /\ CodecPacket(header)
                 /\ \E k \in 1..Len(header.bytes) : wire = SubSeq(header.bytes, 1, k)

LEMMA ReadBack == ASSUME CodecInv PROVE Codec!HeaderReadBack
<1> SUFFICES ASSUME wire # <<>>
             PROVE  /\ Codec!RtpHeaderByteLength(wire) =
                         IF Len(wire) >= header.len THEN header.len ELSE Codec!Unparsed
                    /\ Codec!RtpHeaderByteLength(wire) # Codec!Unparsed =>
                         Codec!ParseRtpHeader(wire) = header.fields
  BY Zenon DEF Codec!HeaderReadBack
<1>1. PICK h, b, x, s, w, r : /\ header.fields \in Codec!Fields /\ Starts(h, b, header.fields)
                              /\ Shape(b, x, s, w, r)
                              /\ header.len = HeaderSize(x, s, w) /\ header.bytes = h \o r
  BY Zenon DEF CodecInv, CodecPacket
<1>2. PICK k \in 1..Len(h \o r) : wire = SubSeq(h \o r, 1, k)
  BY <1>1, Zenon DEF CodecInv
<1>3. ReadsAs(SubSeq(h \o r, 1, k), header.fields, HeaderSize(x, s, w))
  BY <1>1, HeaderRead
<1> QED
  BY <1>1, <1>2, <1>3, Zenon DEF ReadsAs

\* A packet that arrives, and the first bytes of it.
LEMMA CodecArrives ==
  ASSUME NEW p, CodecPacket(p), header' = p, wire' = p.bytes PROVE CodecInv'
<1>1. PICK h, b, x, s, w, r : /\ Starts(h, b, p.fields) /\ Shape(b, x, s, w, r) /\ p.bytes = h \o r
  BY Zenon DEF CodecPacket
<1>2. h \in Seq(Int) /\ Len(h) = 12 /\ r \in Seq(Int)
  BY <1>1, Zenon DEF Starts, Shape
<1> DEFINE a == p.bytes
<1>3. a \in Seq(Int) /\ Len(a) = Len(h) + Len(r)
  BY <1>1, <1>2, LengthOfBoth
<1> HIDE DEF a
<1>4. Len(a) \in 1..Len(a)
  <2>1. Len(r) \in Nat
    BY <1>2
  <2> QED
    BY <1>2, <1>3, <2>1
<1>5. SubSeq(a, 1, Len(a)) = a
  BY <1>3, Whole
<1>6. \E k \in 1..Len(a) : a = SubSeq(a, 1, k)
  BY <1>4, <1>5, Zenon
<1> QED
  BY <1>6, Zenon DEF CodecInv, a

LEMMA CodecStays == ASSUME CodecInv, [Codec!Next]_(Codec!vars) PROVE CodecInv'
<1>1. CASE Codec!Arrives(Codec!AudioPackets)
  BY <1>1, AudioIsPacket, CodecArrives, Zenon DEF Codec!Arrives
<1>2. CASE Codec!Arrives(Codec!VideoPackets)
  BY <1>2, VideoIsPacket, CodecArrives, Zenon DEF Codec!Arrives
<1>3. CASE Codec!Arrives(Codec!ForeignPackets)
  BY <1>3, ForeignIsPacket, CodecArrives, Zenon DEF Codec!Arrives
<1>4. CASE Codec!Cut
  <2>1. PICK n \in 1..(Len(wire) - 1) : wire' = SubSeq(wire, 1, n)
    BY <1>4, Zenon DEF Codec!Cut
  <2>2. wire = header.bytes /\ header' = header
    BY <1>4, Zenon DEF Codec!Cut
  <2>3. wire # <<>> /\ n \in 1..Len(wire)
    OBVIOUS
  <2> QED
    BY <2>1, <2>2, <2>3, Zenon DEF CodecInv
<1>5. CASE UNCHANGED Codec!vars
  BY <1>5 DEF CodecInv, Codec!vars
<1> QED
  BY <1>1, <1>2, <1>3, <1>4, <1>5 DEF Codec!Next

\* The fields and the length of an RTP header, cut anywhere, come out as they
\* went in (rtp.go:118-227).
THEOREM HeaderComesBack == SequentialSpec => []HeaderReadBack
<1> DEFINE Inv == part = "RtpHeader" => CodecInv
<1>1. SequentialInit => Inv
  BY DEF SequentialInit, Codec!Init, CodecInv
<1>2. Inv /\ [SequentialNext]_allVars => Inv'
  <2> SUFFICES ASSUME Inv, [SequentialNext]_allVars, part = "RtpHeader" PROVE CodecInv'
    BY WirePartMoves
  <2>1. [Codec!Next]_(Codec!vars)
    BY WirePartMoves
  <2> QED
    BY <2>1, CodecStays
<1>3. Inv => HeaderReadBack
  BY ReadBack DEF HeaderReadBack
<1> QED
  BY <1>1, <1>2, <1>3, PTL DEF SequentialSpec

-----------------------------------------------------------------------------
(* AnnexB.                                                                 *)

Bytes == {0, 1, 2}

\* A 00 00 01 stands at the offset o.
ShortCode(o) == Annex!byte(o) = 0 /\ Annex!byte(o + 1) = 0 /\ Annex!byte(o + 2) = 1

LEMMA ThreeBytes ==
  ASSUME NEW d \in Seq(Int), NEW o \in Nat, o + 3 <= Len(d)
  PROVE  SubSeq(d, o + 1, o + 3) = <<0, 0, 1>> <=> d[o + 1] = 0 /\ d[o + 2] = 0 /\ d[o + 3] = 1
<1> DEFINE e == SubSeq(d, o + 1, o + 3)
<1>1. e \in Seq(Int) /\ Len(e) = 3 /\ e[1] = d[o + 1] /\ e[2] = d[o + 2] /\ e[3] = d[o + 3]
  <2>1. e \in Seq(Int) /\ Len(e) = 3
    OBVIOUS
  <2>2. e[1] = d[o + 1]
    OBVIOUS
  <2>3. e[2] = d[o + 2]
    OBVIOUS
  <2>4. e[3] = d[o + 3]
    OBVIOUS
  <2> QED
    BY <2>1, <2>2, <2>3, <2>4
<1>2. \A t \in Seq(Int) : Len(t) = 3 => (t = <<0, 0, 1>> <=> t[1] = 0 /\ t[2] = 0 /\ t[3] = 1)
  OBVIOUS
<1> HIDE DEF e
<1>3. e = <<0, 0, 1>> <=> e[1] = 0 /\ e[2] = 0 /\ e[3] = 1
  BY <1>1, <1>2, Zenon
<1> QED
  BY <1>1, <1>3, Zenon DEF e

LEMMA FourBytes ==
  ASSUME NEW d \in Seq(Int), NEW o \in Nat, o + 4 <= Len(d)
  PROVE  SubSeq(d, o + 1, o + 4) = <<0, 0, 0, 1>> <=>
           d[o + 1] = 0 /\ d[o + 2] = 0 /\ d[o + 3] = 0 /\ d[o + 4] = 1
<1> DEFINE e == SubSeq(d, o + 1, o + 4)
<1>1. /\ e \in Seq(Int) /\ Len(e) = 4 /\ e[1] = d[o + 1] /\ e[2] = d[o + 2] /\ e[3] = d[o + 3]
      /\ e[4] = d[o + 4]
  <2>1. e \in Seq(Int) /\ Len(e) = 4
    OBVIOUS
  <2>2. e[1] = d[o + 1]
    OBVIOUS
  <2>3. e[2] = d[o + 2]
    OBVIOUS
  <2>4. e[3] = d[o + 3]
    OBVIOUS
  <2>5. e[4] = d[o + 4]
    OBVIOUS
  <2> QED
    BY <2>1, <2>2, <2>3, <2>4, <2>5
<1>2. \A t \in Seq(Int) : Len(t) = 4 =>
        (t = <<0, 0, 0, 1>> <=> t[1] = 0 /\ t[2] = 0 /\ t[3] = 0 /\ t[4] = 1)
  OBVIOUS
<1> HIDE DEF e
<1>3. e = <<0, 0, 0, 1>> <=> e[1] = 0 /\ e[2] = 0 /\ e[3] = 0 /\ e[4] = 1
  BY <1>1, <1>2, Zenon
<1> QED
  BY <1>1, <1>3, Zenon DEF e

\* What the length of the start code at o says of the bytes there.
CodeLenIs(o) ==
  /\ Annex!annexBStartCodeLen(o) \in {0, 3, 4}
  /\ Annex!annexBStartCodeLen(o) = 3 => o + 3 <= Len(data) /\ ShortCode(o)
  /\ Annex!annexBStartCodeLen(o) = 4 => o + 4 <= Len(data) /\ Annex!byte(o) = 0 /\ ShortCode(o + 1)
  /\ Annex!annexBStartCodeLen(o) = 0 /\ o + 3 <= Len(data) => ~ShortCode(o)

LenBy(four, three) == CASE four -> 4 [] three -> 3 [] OTHER -> 0
LenBySays(four, three) ==
  (four => LenBy(four, three) = 4) /\ (three => LenBy(four, three) = 3)
  /\ (~four /\ ~three => LenBy(four, three) = 0)

LEMMA LenByFacts ==
  ASSUME NEW four \in BOOLEAN, NEW three \in BOOLEAN, four => ~three
  PROVE  LenBySays(four, three)
<1>1. four => LenBy(four, three) = 4
  BY SMT DEF LenBy
<1>2. three => LenBy(four, three) = 3
  BY SMT DEF LenBy
<1>3. ~four /\ ~three => LenBy(four, three) = 0
  BY SMT DEF LenBy
<1> QED
  BY <1>1, <1>2, <1>3, Zenon DEF LenBySays

LEMMA CodeLen ==
  ASSUME data \in Seq(Int), NEW o \in Nat
  PROVE  CodeLenIs(o)
<1> DEFINE four == o + 3 < Len(data) /\ Annex!Slice(o, o + 4) = <<0, 0, 0, 1>>
           three == o + 2 < Len(data) /\ Annex!Slice(o, o + 3) = <<0, 0, 1>>
           len == Annex!annexBStartCodeLen(o)
<1>0. Len(data) \in Nat /\ (o + 1) + 1 = o + 2 /\ (o + 1) + 2 = o + 3 /\ (o + 2) + 1 = o + 3 /\ (o + 3) + 1 = o + 4
  OBVIOUS
<1>1. four <=> o + 4 <= Len(data) /\ data[o + 1] = 0 /\ data[o + 2] = 0 /\ data[o + 3] = 0 /\ data[o + 4] = 1
  <2>1. o + 3 < Len(data) <=> o + 4 <= Len(data)
    BY <1>0
  <2>2. o + 4 <= Len(data) => (SubSeq(data, o + 1, o + 4) = <<0, 0, 0, 1>> <=>
          data[o + 1] = 0 /\ data[o + 2] = 0 /\ data[o + 3] = 0 /\ data[o + 4] = 1)
    BY FourBytes
  <2> QED
    BY <2>1, <2>2, Zenon DEF Annex!Slice
<1>2. three <=> o + 3 <= Len(data) /\ data[o + 1] = 0 /\ data[o + 2] = 0 /\ data[o + 3] = 1
  <2>1. o + 2 < Len(data) <=> o + 3 <= Len(data)
    BY <1>0
  <2>2. o + 3 <= Len(data) => (SubSeq(data, o + 1, o + 3) = <<0, 0, 1>> <=>
          data[o + 1] = 0 /\ data[o + 2] = 0 /\ data[o + 3] = 1)
    BY ThreeBytes
  <2> QED
    BY <2>1, <2>2, Zenon DEF Annex!Slice
<1>3. four => ~three
  BY <1>1, <1>2, SMTT(30)
<1>a. len = LenBy(four, three)
  BY Zenon DEF Annex!annexBStartCodeLen, LenBy
<1>b. four \in BOOLEAN /\ three \in BOOLEAN
  BY Zenon
<1> HIDE DEF four, three, len
<1>4. ShortCode(o) <=> data[o + 1] = 0 /\ data[o + 2] = 0 /\ data[o + 3] = 1
  BY <1>0, Zenon DEF ShortCode, Annex!byte
<1>5. ShortCode(o + 1) <=> data[o + 2] = 0 /\ data[o + 3] = 0 /\ data[o + 4] = 1
  BY <1>0, Zenon DEF ShortCode, Annex!byte
<1>8. LenBySays(four, three)
  BY <1>3, <1>b, LenByFacts
<1>9. (four => len = 4) /\ (three => len = 3) /\ (~four /\ ~three => len = 0)
  BY <1>8, <1>a, Zenon DEF LenBySays
<1>6. len \in {0, 3, 4} /\ (len = 3 => ~four /\ three) /\ (len = 4 => four) /\ (len = 0 => ~three)
  BY <1>3, <1>9, SMT
<1>7. Annex!byte(o) = data[o + 1]
  BY Zenon DEF Annex!byte
<1> QED
  BY <1>1, <1>2, <1>4, <1>5, <1>6, <1>7, Zenon DEF CodeLenIs, len

\* A unit begins after each 00 00 01, and nowhere else.
LEMMA UnitStartIs ==
  ASSUME data \in Seq(Int), NEW p \in Int
  PROVE  p \in Annex!UnitStarts <=> p \in 3..Len(data) /\ ShortCode(p - 3)
<1>1. ASSUME p \in 3..Len(data)
      PROVE  Annex!Slice(p - 3, p) = <<0, 0, 1>> <=> ShortCode(p - 3)
  <2> DEFINE o == p - 3
  <2>1. o \in Nat /\ o + 3 = p /\ o + 3 <= Len(data) /\ (o + 1) + 1 = o + 2 /\ (o + 2) + 1 = o + 3
    BY <1>1
  <2> HIDE DEF o
  <2>2. SubSeq(data, o + 1, o + 3) = <<0, 0, 1>> <=> data[o + 1] = 0 /\ data[o + 2] = 0 /\ data[o + 3] = 1
    BY <2>1, ThreeBytes
  <2> QED
    BY <2>1, <2>2, Zenon DEF Annex!Slice, ShortCode, Annex!byte, o
<1> QED
  BY <1>1, Zenon DEF Annex!UnitStarts

-----------------------------------------------------------------------------
Kept == {p \in Annex!UnitStarts : Annex!UnitAt(p) # <<>>}

\* s, whose domain is D, holds the units that begin at the offsets K, in order.
EnumeratesOver(D, s, K) ==
  \E at \in [D -> K] :
    /\ \A k \in D : s[k] = Annex!UnitAt(at[k])
    /\ \A k, l \in D : k < l => at[k] < at[l]
    /\ \A p \in K : \E k \in D : at[k] = p

Enumerates(s, K) == EnumeratesOver(1..Len(s), s, K)

UnitsFound == {Annex!UnitAt(p) : p \in Annex!UnitStarts}

\* Every start code before i has been seen, and the units that end before
\* start are the ones that came out.
AnnexInv ==
  /\ data \in Seq(Int) /\ i \in 0..Len(data) /\ done \in BOOLEAN
  /\ start = -1 \/ (start \in Annex!UnitStarts /\ start <= i)
  /\ \A p \in Annex!UnitStarts : p < i + 3 => p <= start
  /\ nalus \in Seq(UnitsFound)
  /\ done => i = Len(data) /\ Enumerates(nalus, Kept)
  /\ ~done => Enumerates(nalus, {p \in Kept : p < start})

\* The next unit is the last of a longer list.
LEMMA OneMoreUnit ==
  ASSUME NEW S, NEW s \in Seq(S), NEW K \in SUBSET Int, NEW p \in Int, Annex!UnitAt(p) \in S,
         \A q \in K : q < p, Enumerates(s, K)
  PROVE  Enumerates(Append(s, Annex!UnitAt(p)), K \cup {p})
<1> DEFINE n == Len(s)
           u == Annex!UnitAt(p)
           more == Append(s, u)
<1>0. n \in Nat
  OBVIOUS
<1>1. PICK at \in [1..n -> K] :
        /\ \A k \in 1..n : s[k] = Annex!UnitAt(at[k])
        /\ \A k, l \in 1..n : k < l => at[k] < at[l]
        /\ \A q \in K : \E k \in 1..n : at[k] = q
  BY Zenon DEF Enumerates, EnumeratesOver
<1>2. Len(more) = n + 1 /\ more[n + 1] = u /\ \A k \in 1..n : more[k] = s[k]
  <2> HIDE DEF u
  <2>1. u \in S
    BY Zenon DEF u
  <2> QED
    BY <2>1
<1> DEFINE bt == [k \in 1..(n + 1) |-> IF k <= n THEN at[k] ELSE p]
<1> HIDE DEF n, u, more
<1>3. bt \in [1..(n + 1) -> K \cup {p}]
  BY <1>0, <1>1
<1>4. bt[n + 1] = p /\ \A k \in 1..n : bt[k] = at[k]
  BY <1>0
<1> HIDE DEF bt
<1>5. ASSUME NEW k \in 1..(n + 1) PROVE more[k] = Annex!UnitAt(bt[k])
  <2>1. CASE k \in 1..n
    BY <2>1, <1>1, <1>2, <1>4, Zenon
  <2>2. CASE k = n + 1
    BY <2>2, <1>2, <1>4, Zenon DEF u
  <2> QED
    BY <1>0, <2>1, <2>2
<1>6. ASSUME NEW k \in 1..(n + 1), NEW l \in 1..(n + 1), k < l PROVE bt[k] < bt[l]
  <2>1. k \in 1..n
    BY <1>0, <1>6
  <2>2. CASE l \in 1..n
    BY <2>1, <2>2, <1>1, <1>4, <1>6
  <2>3. CASE l = n + 1
    <3>1. bt[k] \in K /\ bt[l] = p
      BY <2>1, <2>3, <1>1, <1>4
    <3> QED
      BY <3>1
  <2> QED
    BY <1>0, <2>2, <2>3
<1>7. ASSUME NEW q \in K \cup {p} PROVE \E k \in 1..(n + 1) : bt[k] = q
  <2>1. CASE q \in K
    <3>1. PICK k \in 1..n : at[k] = q
      BY <2>1, <1>1, Zenon
    <3>2. k \in 1..(n + 1)
      BY <1>0
    <3> QED
      BY <3>1, <3>2, <1>4, Zenon
  <2>2. CASE q = p
    <3>1. n + 1 \in 1..(n + 1)
      BY <1>0
    <3> QED
      BY <3>1, <2>2, <1>4, Zenon
  <2> QED
    BY <2>1, <2>2, Zenon
<1>8. EnumeratesOver(1..(n + 1), more, K \cup {p})
  <2>1. /\ \A k \in 1..(n + 1) : more[k] = Annex!UnitAt(bt[k])
        /\ \A k, l \in 1..(n + 1) : k < l => bt[k] < bt[l]
        /\ \A q \in K \cup {p} : \E k \in 1..(n + 1) : bt[k] = q
    BY <1>5, <1>6, <1>7, Zenon
  <2> QED
    BY <1>3, <2>1, Zenon DEF EnumeratesOver
<1>9. 1..(n + 1) = 1..Len(more)
  BY <1>2, Zenon
<1>10. Enumerates(more, K \cup {p})
  BY <1>8, <1>9, Zenon DEF Enumerates
<1> QED
  BY <1>10, Zenon DEF more, u

\* The unit before a start code of either length loses the same zeros.
SameTrim(j) == \A s \in 0..i : Annex!Trimmed(s, j - 3) = Annex!Trimmed(s, i)

\* A start code ends where a unit begins, and none begins between start and there.
LEMMA CodeFound ==
  ASSUME AnnexInv, i < Len(data), NEW j \in Int, j = i + Annex!annexBStartCodeLen(i),
         Annex!annexBStartCodeLen(i) > 0
  PROVE  /\ j \in Annex!UnitStarts /\ j \in (i + 3)..Len(data)
         /\ \A p \in Annex!UnitStarts : p < j => p <= start
         /\ \A p \in Annex!UnitStarts : p < j + 3 => p <= j
         /\ SameTrim(j)
<1> DEFINE len == Annex!annexBStartCodeLen(i)
<1>1. data \in Seq(Int) /\ i \in Nat /\ Len(data) \in Nat
  BY DEF AnnexInv
<1>2. \A p \in Annex!UnitStarts : p < i + 3 => p <= start
  BY DEF AnnexInv
<1>3. CodeLenIs(i)
  BY <1>1, CodeLen
<1>4. \A p \in Int : p \in Annex!UnitStarts <=> p \in 3..Len(data) /\ ShortCode(p - 3)
  BY <1>1, UnitStartIs
<1>5. \A p \in Annex!UnitStarts : p \in Int
  BY DEF Annex!UnitStarts
<1> HIDE DEF len
<1>6. CASE len = 3
  <2>1. i + 3 <= Len(data) /\ ShortCode(i) /\ j = i + 3
    BY <1>3, <1>6, Zenon DEF CodeLenIs, len
  <2>2. Annex!byte(i + 2) = 1
    BY <2>1, Zenon DEF ShortCode
  <2>3. ~ShortCode(i + 1)
    <3>1. (i + 1) + 1 = i + 2
      BY <1>1
    <3> QED
      BY <2>2, <3>1, SMT DEF ShortCode
  <2>4. ~ShortCode(i + 2)
    BY <2>2, SMT DEF ShortCode
  <2>5. j \in Annex!UnitStarts
    <3>1. j \in 3..Len(data) /\ j - 3 = i
      BY <1>1, <2>1
    <3> QED
      BY <1>4, <2>1, <3>1
  <2>6. ASSUME NEW p \in Annex!UnitStarts, p < j + 3 PROVE p <= j
    <3>1. p \in Int /\ ShortCode(p - 3)
      BY <1>4, <1>5
    <3>2. p # i + 4 /\ p # i + 5
      <4>1. (i + 4) - 3 = i + 1 /\ (i + 5) - 3 = i + 2
        BY <1>1
      <4> QED
        BY <3>1, <4>1, <2>3, <2>4
    <3> QED
      BY <1>1, <2>1, <2>6, <3>1, <3>2
  <2>7. j - 3 = i
    BY <1>1, <2>1
  <2>8. SameTrim(j)
    BY <2>7, Zenon DEF SameTrim
  <2> QED
    BY <1>1, <1>2, <2>1, <2>5, <2>6, <2>8
<1>7. CASE len = 4
  <2>1. i + 4 <= Len(data) /\ Annex!byte(i) = 0 /\ ShortCode(i + 1) /\ j = i + 4
    BY <1>3, <1>7, Zenon DEF CodeLenIs, len
  <2>2. Annex!byte(i + 2) = 0 /\ Annex!byte(i + 3) = 1
    <3>1. (i + 1) + 1 = i + 2 /\ (i + 1) + 2 = i + 3
      BY <1>1
    <3> QED
      BY <2>1, <3>1, Zenon DEF ShortCode
  <2>3. ~ShortCode(i) /\ ~ShortCode(i + 2) /\ ~ShortCode(i + 3)
    <3>1. (i + 2) + 1 = i + 3
      BY <1>1
    <3> QED
      BY <2>2, <3>1, SMT DEF ShortCode
  <2>5. j \in Annex!UnitStarts
    <3>1. j \in 3..Len(data) /\ j - 3 = i + 1
      BY <1>1, <2>1
    <3> QED
      BY <1>4, <2>1, <3>1
  <2>6. ASSUME NEW p \in Annex!UnitStarts PROVE p # i + 3 /\ p # i + 5 /\ p # i + 6 /\ p \in Int
    <3>1. p \in Int /\ ShortCode(p - 3)
      BY <1>4, <1>5
    <3>2. (i + 3) - 3 = i /\ (i + 5) - 3 = i + 2 /\ (i + 6) - 3 = i + 3
      BY <1>1
    <3> QED
      BY <3>1, <3>2, <2>3
  <2>7. j - 3 = i + 1
    BY <1>1, <2>1
  <2>8. ASSUME NEW s \in 0..i PROVE Annex!Trimmed(s, i + 1) = Annex!Trimmed(s, i)
    <3>1. {e \in (s + 1)..(i + 1) : Annex!byte(e - 1) # 0} = {e \in (s + 1)..i : Annex!byte(e - 1) # 0}
      <4>1. \A e \in (s + 1)..(i + 1) : e \in (s + 1)..i \/ e = i + 1
        BY <1>1
      <4>2. \A e \in (s + 1)..i : e \in (s + 1)..(i + 1)
        BY <1>1
      <4>3. (i + 1) - 1 = i
        BY <1>1
      <4> QED
        BY <2>1, <4>1, <4>2, <4>3, SMT
    <3> QED
      BY <3>1, Zenon DEF Annex!Trimmed
  <2>9. SameTrim(j)
    BY <2>7, <2>8, Zenon DEF SameTrim
  <2> QED
    BY <1>1, <1>2, <2>1, <2>5, <2>6, <2>9
<1>8. len \in {3, 4}
  BY <1>3 DEF CodeLenIs, len
<1> QED
  BY <1>6, <1>7, <1>8, Zenon

\* The unit at start ends where the next one's start code begins.
LEMMA UnitEnds ==
  ASSUME AnnexInv, start \in Annex!UnitStarts, NEW j \in Int, j \in Annex!UnitStarts, j > i,
         \A p \in Annex!UnitStarts : p < j => p <= start, SameTrim(j)
  PROVE  Annex!UnitAt(start) = Annex!Trimmed(start, i)
<1> DEFINE later == {q \in Annex!UnitStarts : q > start}
<1>1. start \in 0..i /\ start < j
  BY DEF AnnexInv, Annex!UnitStarts
<1>2. j \in later
  BY <1>1
<1>3. \A q \in later : q \in Int /\ j <= q
  BY <1>1 DEF Annex!UnitStarts
<1> HIDE DEF later
<1>4. Annex!Min(later) = j
  <2>1. j \in later /\ \A q \in later : j =< q
    BY <1>2, <1>3
  <2>2. \A x \in later : (\A q \in later : x =< q) => x = j
    BY <1>2, <1>3
  <2> QED
    BY <2>1, <2>2, Zenon DEF Annex!Min
<1>5. Annex!UnitAt(start) = Annex!Trimmed(start, j - 3)
  <2>1. later # {}
    BY <1>2, Zenon
  <2>2. Annex!UnitAt(start) = IF later = {} THEN Annex!Slice(start, Len(data))
                             ELSE Annex!Trimmed(start, Annex!Min(later) - 3)
    BY Zenon DEF Annex!UnitAt, later
  <2> QED
    BY <2>1, <2>2, <1>4, SMT
<1> QED
  BY <1>1, <1>5, Zenon DEF SameTrim

LEMMA AnnexFixed ==
  ASSUME data' = data
  PROVE  /\ Annex!UnitStarts' = Annex!UnitStarts /\ Kept' = Kept /\ UnitsFound' = UnitsFound
<1>1. Annex!UnitStarts' = Annex!UnitStarts
  BY Zenon DEF Annex!UnitStarts, Annex!Slice
<1>2. \A p : Annex!UnitAt(p)' = Annex!UnitAt(p)
  BY <1>1, Zenon DEF Annex!UnitAt, Annex!Slice, Annex!Trimmed, Annex!byte
<1> QED
  BY <1>1, <1>2, Zenon DEF Kept, UnitsFound

EnumNext(s, K) ==
  \E at \in [1..Len(s) -> K] :
    /\ \A k \in 1..Len(s) : s[k] = Annex!UnitAt(at[k])'
    /\ \A k, l \in 1..Len(s) : k < l => at[k] < at[l]
    /\ \A p \in K : \E k \in 1..Len(s) : at[k] = p

LEMMA EnumFixed ==
  ASSUME data' = data, NEW s, NEW K, Enumerates(s, K)
  PROVE  EnumNext(s, K)
<1>1. Annex!UnitStarts' = Annex!UnitStarts
  BY AnnexFixed
<1>2. \A p : Annex!UnitAt(p)' = Annex!UnitAt(p)
  BY <1>1, Zenon DEF Annex!UnitAt, Annex!Slice, Annex!Trimmed, Annex!byte
<1> QED
  BY <1>2, Zenon DEF Enumerates, EnumeratesOver, EnumNext

\* What comes out at a start code: the unit before it, if there is one and it
\* is not empty.
LEMMA UnitOut ==
  ASSUME AnnexInv, ~done, NEW j \in Int, j \in Annex!UnitStarts, j > i,
         \A p \in Annex!UnitStarts : p < j => p <= start, SameTrim(j),
         NEW s, s = IF start >= 0 /\ Annex!Trimmed(start, i) # <<>>
                    THEN Append(nalus, Annex!Trimmed(start, i)) ELSE nalus
  PROVE  s \in Seq(UnitsFound) /\ Enumerates(s, {p \in Kept : p < j})
<1> DEFINE before == {p \in Kept : p < start}
           upto == {p \in Kept : p < j}
<1>1. nalus \in Seq(UnitsFound) /\ Enumerates(nalus, before)
  BY Zenon DEF AnnexInv
<1>2. \A p \in Annex!UnitStarts : p \in Int /\ p >= 3
  BY DEF Annex!UnitStarts
<1>3. start = -1 \/ (start \in Annex!UnitStarts /\ start < j /\ start >= 0)
  <2>1. i \in Int /\ (start = -1 \/ (start \in Annex!UnitStarts /\ start <= i))
    BY DEF AnnexInv
  <2>2. start \in Annex!UnitStarts => start \in Int /\ start >= 3
    BY <1>2, Zenon
  <2>3. \A a, b, c \in Int : a <= b /\ b < c => a < c
    OBVIOUS
  <2>4. \A a \in Int : a >= 3 => a >= 0
    OBVIOUS
  <2>5. i < j
    OBVIOUS
  <2> QED
    BY <2>1, <2>2, <2>3, <2>4, <2>5, Zenon
<1>4. Kept \subseteq Annex!UnitStarts
  BY DEF Kept
<1>5. ASSUME NEW p PROVE p \in upto <=> p \in before \/ (p = start /\ p \in Kept)
  <2>1. p \in Kept => p \in Int /\ (p < j => p <= start)
    BY <1>2, <1>4
  <2>2. p \in Kept => (p < j <=> p < start \/ p = start)
    <3>1. \A a, b, c \in Int : b = -1 \/ b < c => ((a < c => a <= b) => (a < c <=> a < b \/ a = b) \/ b = -1)
      OBVIOUS
    <3>2. start \in Int
      <4>1. -1 \in Int
        OBVIOUS
      <4> QED
        BY <4>1, <1>2, <1>3, Zenon
    <3>3. start = -1 => (p \in Kept => ~(p < j) /\ ~(p < start) /\ p # start)
      BY <1>2, <1>4, <2>1
    <3> QED
      BY <1>3, <2>1, <3>1, <3>2, <3>3, Zenon
  <2> QED
    BY <2>2, Zenon
<1>6. CASE start = -1
  <2>1. before = upto
    BY <1>2, <1>4, <1>5, <1>6
  <2>2. s = nalus
    BY <1>6
  <2> QED
    BY <2>1, <2>2, <1>1, Zenon
<1>7. CASE start \in Annex!UnitStarts /\ start >= 0
  <2>1. Annex!UnitAt(start) = Annex!Trimmed(start, i)
    BY <1>7, UnitEnds
  <2>2. CASE Annex!UnitAt(start) # <<>>
    <3>1. s = Append(nalus, Annex!UnitAt(start))
      BY <1>7, <2>1, <2>2, SMT
    <3>2. start \in Kept /\ start \in Int /\ Annex!UnitAt(start) \in UnitsFound
      BY <1>7, <2>2, <1>2, Zenon DEF Kept, UnitsFound
    <3>3. upto = before \cup {start}
      BY <1>5, <3>2, Zenon
    <3>4. before \in SUBSET Int /\ \A q \in before : q < start
      BY <1>2, <1>4
    <3> HIDE DEF before, upto
    <3>5. Enumerates(Append(nalus, Annex!UnitAt(start)), before \cup {start})
      BY <1>1, <3>2, <3>4, OneMoreUnit
    <3>6. Append(nalus, Annex!UnitAt(start)) \in Seq(UnitsFound)
      <4> DEFINE u == Annex!UnitAt(start)
      <4>1. u \in UnitsFound
        BY <3>2
      <4> HIDE DEF u
      <4>2. Append(nalus, u) \in Seq(UnitsFound)
        BY <1>1, <4>1
      <4> QED
        BY <4>2, Zenon DEF u
    <3>7. s \in Seq(UnitsFound) /\ Enumerates(s, upto)
      BY <3>1, <3>3, <3>5, <3>6, Zenon
    <3> QED
      BY <3>7, Zenon DEF upto
  <2>3. CASE Annex!UnitAt(start) = <<>>
    <3>1. s = nalus
      BY <2>1, <2>3, SMT
    <3>2. start \notin Kept
      BY <2>3, Zenon DEF Kept
    <3>3. upto = before
      BY <1>5, <3>2, Zenon
    <3> QED
      BY <3>1, <3>3, <1>1, Zenon
  <2> QED
    BY <2>2, <2>3, Zenon
<1> QED
  BY <1>3, <1>6, <1>7, Zenon

\* What comes out at the end of the stream: the unit that is left.
LEMMA LastUnitOut ==
  ASSUME AnnexInv, ~done, i = Len(data),
         NEW s, s = IF start >= 0 /\ start < Len(data)
                    THEN Append(nalus, Annex!Slice(start, Len(data))) ELSE nalus
  PROVE  s \in Seq(UnitsFound) /\ Enumerates(s, Kept)
<1> DEFINE before == {p \in Kept : p < start}
<1>1. nalus \in Seq(UnitsFound) /\ Enumerates(nalus, before)
  BY Zenon DEF AnnexInv
<1>2. data \in Seq(Int) /\ Len(data) \in Nat
  BY DEF AnnexInv
<1>3. \A p \in Annex!UnitStarts : p \in 3..Len(data)
  BY DEF Annex!UnitStarts
<1>4. start = -1 \/ (start \in Annex!UnitStarts /\ start \in 3..Len(data))
  BY <1>3 DEF AnnexInv
<1>5. \A p \in Annex!UnitStarts : p <= start
  <2>1. \A p \in Annex!UnitStarts : p < i + 3 => p <= start
    BY Zenon DEF AnnexInv
  <2> QED
    BY <1>2, <1>3, <2>1
<1>6. Kept \subseteq Annex!UnitStarts
  BY DEF Kept
<1>7. ASSUME NEW p PROVE p \in Kept <=> p \in before \/ (p = start /\ p \in Kept)
  BY <1>3, <1>4, <1>5, <1>6
<1>8. CASE start = -1
  <2>1. before = Kept
    BY <1>3, <1>5, <1>6, <1>7, <1>8
  <2>2. s = nalus
    BY <1>8
  <2> QED
    BY <2>1, <2>2, <1>1, Zenon
<1>9. CASE start \in Annex!UnitStarts /\ start \in 3..Len(data)
  <2>1. Annex!UnitAt(start) = Annex!Slice(start, Len(data))
    <3> DEFINE later == {q \in Annex!UnitStarts : q > start}
    <3>1. later = {}
      <4>1. \A q \in Annex!UnitStarts : ~(q > start)
        BY <1>3, <1>5, <1>9
      <4> QED
        BY <4>1, Zenon
    <3>2. Annex!UnitAt(start) = IF later = {} THEN Annex!Slice(start, Len(data))
                               ELSE Annex!Trimmed(start, Annex!Min(later) - 3)
      BY Zenon DEF Annex!UnitAt
    <3> HIDE DEF later
    <3> QED
      BY <3>1, <3>2, SMT
  <2>2. Annex!Slice(start, Len(data)) # <<>> <=> start < Len(data)
    <3>1. Len(SubSeq(data, start + 1, Len(data))) = Len(data) - start
      BY <1>2, <1>9
    <3>2. SubSeq(data, start + 1, Len(data)) \in Seq(Int)
      BY <1>2, <1>9
    <3>3. \A t \in Seq(Int) : t # <<>> <=> Len(t) # 0
      OBVIOUS
    <3>4. SubSeq(data, start + 1, Len(data)) # <<>> <=> Len(data) - start # 0
      BY <3>1, <3>2, <3>3, Zenon
    <3>5. Len(data) - start # 0 <=> start < Len(data)
      BY <1>2, <1>9
    <3> QED
      BY <3>4, <3>5, Zenon DEF Annex!Slice
  <2>3. CASE start < Len(data)
    <3>1. s = Append(nalus, Annex!UnitAt(start))
      BY <1>9, <2>1, <2>3, SMT
    <3>2. start \in Kept /\ start \in Int /\ Annex!UnitAt(start) \in UnitsFound
      <4>1. start \in Int
        BY <1>9
      <4> QED
        BY <4>1, <1>9, <2>1, <2>2, <2>3, Zenon DEF Kept, UnitsFound
    <3>3. Kept = before \cup {start}
      BY <1>7, <3>2, Zenon
    <3>4. before \in SUBSET Int /\ \A q \in before : q < start
      BY <1>3, <1>6
    <3> HIDE DEF before
    <3>5. Enumerates(Append(nalus, Annex!UnitAt(start)), before \cup {start})
      BY <1>1, <3>2, <3>4, OneMoreUnit
    <3>6. Append(nalus, Annex!UnitAt(start)) \in Seq(UnitsFound)
      <4> DEFINE u == Annex!UnitAt(start)
      <4>1. u \in UnitsFound
        BY <3>2
      <4> HIDE DEF u
      <4>2. Append(nalus, u) \in Seq(UnitsFound)
        BY <1>1, <4>1
      <4> QED
        BY <4>2, Zenon DEF u
    <3> QED
      BY <3>1, <3>3, <3>5, <3>6, Zenon
  <2>4. CASE ~(start < Len(data))
    <3>1. s = nalus
      BY <2>4, SMT
    <3>2. start \notin Kept
      BY <2>1, <2>2, <2>4, Zenon DEF Kept
    <3>3. Kept = before
      BY <1>7, <3>2, Zenon
    <3> QED
      BY <3>1, <3>3, <1>1, Zenon
  <2> QED
    BY <2>3, <2>4, Zenon
<1> QED
  BY <1>4, <1>8, <1>9, Zenon

LEMMA AnnexStays == ASSUME AnnexInv, [Annex!Next]_(Annex!vars) PROVE AnnexInv'
<1>0. data \in Seq(Int) /\ i \in 0..Len(data) /\ Len(data) \in Nat
  BY DEF AnnexInv
<1>1. CASE Annex!StartCode
  <2> DEFINE j == i + Annex!annexBStartCodeLen(i)
  <2>1. /\ i < Len(data) /\ Annex!annexBStartCodeLen(i) > 0 /\ i' = j /\ start' = j
        /\ data' = data /\ done' = done
    BY <1>1, Zenon DEF Annex!StartCode
  <2>2. ~done
    BY <2>1, <1>0 DEF AnnexInv
  <2>3. j \in Int
    <3>1. CodeLenIs(i)
      BY <1>0, CodeLen
    <3>2. Annex!annexBStartCodeLen(i) \in {0, 3, 4}
      BY <3>1, Zenon DEF CodeLenIs
    <3> QED
      BY <1>0, <3>2
  <2>4. nalus' = IF start >= 0 /\ Annex!Trimmed(start, i) # <<>>
                 THEN Append(nalus, Annex!Trimmed(start, i)) ELSE nalus
    BY <1>1, Zenon DEF Annex!StartCode
  <2> HIDE DEF j
  <2>5. /\ j \in Annex!UnitStarts /\ j \in (i + 3)..Len(data)
        /\ \A p \in Annex!UnitStarts : p < j => p <= start
        /\ \A p \in Annex!UnitStarts : p < j + 3 => p <= j
        /\ SameTrim(j)
    BY <2>1, <2>3, CodeFound DEF j
  <2>6. j > i /\ j \in 0..Len(data) /\ j <= j
    BY <1>0, <2>5
  <2>7. nalus' \in Seq(UnitsFound) /\ Enumerates(nalus', {p \in Kept : p < j})
    BY <2>2, <2>3, <2>4, <2>5, <2>6, UnitOut
  <2>8. /\ Annex!UnitStarts' = Annex!UnitStarts /\ Kept' = Kept /\ UnitsFound' = UnitsFound
    BY <2>1, AnnexFixed
  <2>9. EnumNext(nalus', {p \in Kept : p < j})
    BY <2>1, <2>7, EnumFixed
  <2>10. data' \in Seq(Int) /\ i' \in 0..Len(data)' /\ done' \in BOOLEAN
    BY <1>0, <2>1, <2>6, Zenon DEF AnnexInv
  <2>11. start' \in Annex!UnitStarts' /\ start' <= i'
    BY <2>1, <2>5, <2>6, <2>8, Zenon
  <2>12. \A p \in Annex!UnitStarts' : p < i' + 3 => p <= start'
    BY <2>1, <2>5, <2>8, Zenon
  <2>13. nalus' \in Seq(UnitsFound')
    BY <2>7, <2>8, Zenon
  <2>14. EnumNext(nalus', {p \in Kept' : p < start'})
    BY <2>1, <2>8, <2>9, Zenon
  <2>15. Enumerates(nalus, {p \in Kept : p < start})'
    BY <2>14, Zenon DEF EnumNext, Enumerates, EnumeratesOver
  <2> QED
    BY <2>1, <2>2, <2>10, <2>11, <2>12, <2>13, <2>15, Zenon DEF AnnexInv
<1>2. CASE Annex!Advance
  <2>1. /\ i < Len(data) /\ Annex!annexBStartCodeLen(i) = 0 /\ i' = i + 1 /\ start' = start
        /\ data' = data /\ nalus' = nalus /\ done' = done
    BY <1>2, Zenon DEF Annex!Advance
  <2>2. ~done
    BY <2>1, <1>0 DEF AnnexInv
  <2>3. CodeLenIs(i)
    BY <1>0, CodeLen
  <2>4. i + 3 <= Len(data) => ~ShortCode(i)
    BY <2>1, <2>3, Zenon DEF CodeLenIs
  <2>5. \A p \in Annex!UnitStarts : p < (i + 1) + 3 => p <= start
    <3> SUFFICES ASSUME NEW p \in Annex!UnitStarts, p < (i + 1) + 3 PROVE p <= start
      OBVIOUS
    <3>1. p \in 3..Len(data)
      BY DEF Annex!UnitStarts
    <3>2. ShortCode(p - 3)
      BY <1>0, <3>1, UnitStartIs
    <3>3. p # i + 3
      <4>1. (i + 3) - 3 = i
        BY <1>0
      <4> QED
        BY <3>1, <3>2, <4>1, <2>4
    <3>4. p < i + 3 => p <= start
      BY Zenon DEF AnnexInv
    <3> QED
      BY <1>0, <3>1, <3>3, <3>4
  <2>6. Annex!UnitStarts' = Annex!UnitStarts /\ Kept' = Kept /\ UnitsFound' = UnitsFound
    BY <2>1, AnnexFixed
  <2>7. EnumNext(nalus, {p \in Kept : p < start})
    <3>1. Enumerates(nalus, {p \in Kept : p < start})
      BY <2>2, Zenon DEF AnnexInv
    <3> QED
      BY <2>1, <3>1, EnumFixed
  <2>8. EnumNext(nalus', {p \in Kept' : p < start'})
    BY <2>1, <2>6, <2>7, Zenon
  <2>9. Enumerates(nalus, {p \in Kept : p < start})'
    BY <2>8, Zenon DEF EnumNext, Enumerates, EnumeratesOver
  <2>10. i + 1 \in 0..Len(data) /\ (start <= i => start <= i + 1)
    <3>1. start \in Int
      BY DEF AnnexInv, Annex!UnitStarts
    <3> QED
      BY <1>0, <2>1, <3>1
  <2>11. data' \in Seq(Int) /\ i' \in 0..Len(data)' /\ done' \in BOOLEAN
    BY <1>0, <2>1, <2>10, Zenon DEF AnnexInv
  <2>12. start' = -1 \/ (start' \in Annex!UnitStarts' /\ start' <= i')
    BY <2>1, <2>6, <2>10, Zenon DEF AnnexInv
  <2>13. \A p \in Annex!UnitStarts' : p < i' + 3 => p <= start'
    BY <2>1, <2>5, <2>6, Zenon
  <2>14. nalus' \in Seq(UnitsFound')
    BY <2>1, <2>6, Zenon DEF AnnexInv
  <2> QED
    BY <2>1, <2>2, <2>9, <2>11, <2>12, <2>13, <2>14, Zenon DEF AnnexInv
<1>3. CASE Annex!LastUnit
  <2>1. /\ i >= Len(data) /\ ~done /\ done' = TRUE /\ i' = i /\ start' = start /\ data' = data
    BY <1>3, Zenon DEF Annex!LastUnit
  <2>2. nalus' = IF start >= 0 /\ start < Len(data)
                 THEN Append(nalus, Annex!Slice(start, Len(data))) ELSE nalus
    BY <1>3, Zenon DEF Annex!LastUnit
  <2>3. i = Len(data)
    BY <1>0, <2>1
  <2>4. nalus' \in Seq(UnitsFound) /\ Enumerates(nalus', Kept)
    BY <2>1, <2>2, <2>3, LastUnitOut
  <2>6. Annex!UnitStarts' = Annex!UnitStarts /\ Kept' = Kept /\ UnitsFound' = UnitsFound
    BY <2>1, AnnexFixed
  <2>7. EnumNext(nalus', Kept)
    BY <2>1, <2>4, EnumFixed
  <2>8. EnumNext(nalus', Kept')
    BY <2>6, <2>7, Zenon
  <2>9. Enumerates(nalus, Kept)'
    BY <2>8, Zenon DEF EnumNext, Enumerates, EnumeratesOver
  <2>11. data' \in Seq(Int) /\ i' \in 0..Len(data)' /\ i' = Len(data)' /\ done' \in BOOLEAN
    BY <1>0, <2>1, <2>3, Zenon
  <2>12. start' = -1 \/ (start' \in Annex!UnitStarts' /\ start' <= i')
    BY <2>1, <2>6, Zenon DEF AnnexInv
  <2>13. \A p \in Annex!UnitStarts' : p < i' + 3 => p <= start'
    BY <2>1, <2>6, Zenon DEF AnnexInv
  <2>14. nalus' \in Seq(UnitsFound')
    BY <2>4, <2>6, Zenon
  <2> QED
    BY <2>1, <2>9, <2>11, <2>12, <2>13, <2>14, Zenon DEF AnnexInv
<1>4. CASE UNCHANGED Annex!vars
  <2>1. data' = data /\ i' = i /\ start' = start /\ nalus' = nalus /\ done' = done
    BY <1>4 DEF Annex!vars
  <2>2. Annex!UnitStarts' = Annex!UnitStarts /\ Kept' = Kept /\ UnitsFound' = UnitsFound
    BY <2>1, AnnexFixed
  <2>3. done => Enumerates(nalus, Kept)'
    <3> SUFFICES ASSUME done PROVE Enumerates(nalus, Kept)'
      OBVIOUS
    <3>1. EnumNext(nalus, Kept)
      BY <2>1, EnumFixed, Zenon DEF AnnexInv
    <3>2. EnumNext(nalus', Kept')
      BY <2>1, <2>2, <3>1, Zenon
    <3> QED
      BY <3>2, Zenon DEF EnumNext, Enumerates, EnumeratesOver
  <2>4. ~done => Enumerates(nalus, {p \in Kept : p < start})'
    <3> SUFFICES ASSUME ~done PROVE Enumerates(nalus, {p \in Kept : p < start})'
      OBVIOUS
    <3>1. EnumNext(nalus, {p \in Kept : p < start})
      BY <2>1, EnumFixed, Zenon DEF AnnexInv
    <3>2. EnumNext(nalus', {p \in Kept' : p < start'})
      BY <2>1, <2>2, <3>1, Zenon
    <3> QED
      BY <3>2, Zenon DEF EnumNext, Enumerates, EnumeratesOver
  <2> QED
    BY <2>1, <2>2, <2>3, <2>4, Zenon DEF AnnexInv
<1> QED
  BY <1>1, <1>2, <1>3, <1>4 DEF Annex!Next

LEMMA AnnexStarts == ASSUME Annex!AnnexAssumption, Annex!Init PROVE AnnexInv
<1>1. PICK m \in 0..MaxLen : data \in [1..m -> {0, 1, 2}]
  BY Zenon DEF Annex!Init, Annex!BoundedSeq, Annex!SeqOf
<1>2. data \in Seq(Int) /\ Len(data) \in Nat
  BY <1>1 DEF Annex!AnnexAssumption
<1>3. i = 0 /\ start = -1 /\ nalus = <<>> /\ done = FALSE
  BY Zenon DEF Annex!Init
<1>4. \A p \in Annex!UnitStarts : p \in Int /\ p >= 3
  BY DEF Annex!UnitStarts
<1>5. i \in 0..Len(data) /\ nalus \in Seq(UnitsFound)
  BY <1>2, <1>3
<1>6. \A p \in Annex!UnitStarts : ~(p < i + 3)
  BY <1>3, <1>4
<1>7. Enumerates(nalus, {p \in Kept : p < start})
  <2> DEFINE none == {p \in Kept : p < start}
  <2>1. none = {}
    BY <1>3, <1>4 DEF Kept
  <2>2. 1..Len(nalus) = {}
    BY <1>3
  <2> HIDE DEF none
  <2>3. EnumeratesOver({}, nalus, {})
    <3>1. [k \in {} |-> 0] \in [{} -> {}]
      BY Zenon
    <3> QED
      BY <3>1, Zenon DEF EnumeratesOver
  <2>4. Enumerates(nalus, none)
    BY <2>1, <2>2, <2>3, Zenon DEF Enumerates
  <2> QED
    BY <2>4, Zenon DEF none
<1> QED
  BY <1>2, <1>3, <1>5, <1>6, <1>7, Zenon DEF AnnexInv

LEMMA AllEnumerated == ASSUME AnnexInv PROVE Annex!SplitsAtStartCodes
BY Zenon DEF AnnexInv, Enumerates, EnumeratesOver, Kept, Annex!SplitsAtStartCodes

\* SplitAnnexB cuts a stream of any length at its start codes and nowhere else
\* (h264.go:102-131).
THEOREM CutAtStartCodes == SequentialSpec => []SplitsAtStartCodes
<1> DEFINE Inv == part = "AnnexB" => AnnexInv
<1>1. SequentialInit => Inv
  BY SequentialAssumption, AnnexStarts DEF SequentialInit
<1>2. Inv /\ [SequentialNext]_allVars => Inv'
  <2> SUFFICES ASSUME Inv, [SequentialNext]_allVars, part = "AnnexB" PROVE AnnexInv'
    BY WirePartMoves
  <2>1. [Annex!Next]_(Annex!vars)
    BY WirePartMoves
  <2> QED
    BY <2>1, AnnexStays
<1>3. Inv => SplitsAtStartCodes
  BY AllEnumerated DEF SplitsAtStartCodes
<1> QED
  BY <1>1, <1>2, <1>3, PTL DEF SequentialSpec
=============================================================================
