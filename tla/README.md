# meowcaller in TLA+

`src/meowcaller` is the media, transport and signalling library for WhatsApp calls in Go. Its other
directories are vendored libraries and the scripts of a profile page. The library has no main program:
the loops that own a call (the send loop, the receive loop, the application) are its callers, so the
models take from the code what each object does when it is called, and treat who calls it as the
environment. This directory holds the models, the TLC runs on small instances and the proofs.

## 1. Inventory

| component | state | operations | who calls it, and with whom it shares |
|---|---|---|---|
| `Player` (player.go) | source, Idle/Playing/Paused, OnFinish callback; a mutex | Play, Pause, Resume, Stop, OnFinish, nextFrame | application goroutines and the send loop, at the same time; calls AudioSource and the callback outside its lock |
| `frameSource`, `downmixResampler`, WAVFile/MP3File/OpusFile (source.go) | pending samples, read position and last sample of the resampler, samples still to skip, end flag | ReadFrame, Close, the decoder's `more`, newWavReader | the send loop through Player; Close possibly from another goroutine |
| `wavRecorder` (sink.go), `annexBRecorder` (video.go) | byte count, closed flag, buffered writer, file; a mutex | WriteFrame / WriteVideo, Close | receive loop and application |
| `CallSession` (session.go) | phase, direction | TransitionTo | signalling; no lock |
| `MediaPipeline` (session.go) with `RtpStream` (rtp/rtp.go), `RocTracker`, `RecvRocTracker` (srtp/e2e.go) | sequence number, timestamp, speech latch, packet count; rollover counts of both directions | ProtectAudio, ProtectRTP, UnprotectAudio | send loop, video sender and receive loop; no lock; the far end's pipeline over a network |
| `SframeSession` (srtp/sframe.go) | keys of both directions, send counter | Encrypt, Decrypt | one goroutine; the far end over the relay |
| SRTP ciphers (srtp/e2e.go, srtp/hbh.go) | counter block, within one call | aesICMCrypt, aesCM and the session-key derivations | MediaPipeline, for each packet |
| `RelayMediaChannel` (relay/relay.go) | four layers: UDP, DTLS, SCTP, DataChannel | ConnectRelayMedia, Close, Send, Recv | any goroutine |
| ClassifyRelayPacket, IsRtcpPacket (relay.go, rtp/rtcp.go) | none | first-bytes demultiplexing of the relay's packets | the receive loop |
| STUN encoder and parsers (stun/stun.go) | offset of a walk | EncodeStunRequest, ParseStunAttributes, ParseStunErrorCode, relay addresses | transport set-up, with the relay on the other side |
| RTP header codec and payload classes (rtp/rtp.go), MLow table of contents (mlow/toc.go) | none | EncodeRtpHeader, ParseRtpHeader, IsSpeech…, ParseSmplTOC | MediaPipeline, and the decoder of the same frame |
| H.264 packetizer, `H264Depacketizer`, SplitAnnexB (rtp/h264.go) | fragment buffer and its active flag | PackageH264NALU, PackageH264STAPA, Depacketize, SplitAnnexB | video sender and receiver over a network |
| `SmplVadState` (mlow/vad.go) | noise level and its inverse per band, frame counter, hangover, filter states | ProcessPacket, getNoiseLevels | the encoder, packet after packet |
| HKDF derivations, WARP tag, SSRC, stanzas | none | pure functions of bytes | — |

What is hard in it: the player acts on a copy of its source outside the lock; the two rollover trackers
must agree across loss, reordering, damage and wraps; the depacketizer sees fragments but not sequence
numbers; resources are built layer by layer and must be released from any half-way state; a recording's
header is a promise that a crash or a full disk may break; the resampler, the pre-skip and the VAD carry
state across chunk and packet boundaries; the walks over RIFF chunks and STUN attributes take their steps
from lengths that somebody else wrote; a cipher's counter must not meet itself; and several objects have no lock.

## 2. The modules

| module | code | state and actions |
|---|---|---|
| `Player` | player.go | One action per locked section; ReadFrame, Close and the callback, which run unlocked, are actions of their own (`Snapshot`, `ReadFrame`/`ReadError`, `Settle`, `CloseEnded`, `Callback`). `pc[t]` is where a goroutine is; the send loop may call the player from inside the callback. |
| `Playback` | (promise of player.go) | What the player promises of each source: fresh, active, then replaced, or finished and reported; released after it was retired and before a finish is reported. |
| `RtpStream` | rtp/rtp.go | Operators on the record of the sequencer, so that `RtpSender` and `MediaPath` share them. |
| `RtpSender` | rtp/rtp.go | One stream alone, with the history of headers. |
| `RtpHeader` | rtp/rtp.go | A header is encoded, the packet cut, and read back: byte layout and lengths, for this sender's words and for those other senders may attach. |
| `MlowToc` | mlow/toc.go, rtp/rtp.go | First byte and length of a frame, classified by both packages. |
| `RocTracker` | srtp/e2e.go | Operators of the two rollover trackers over a sequence space of 2*Half values. |
| `MediaPath` | session.go | Two pipelines and a network: ProtectAudio, ProtectRTP, Lose, Receive (which may keep a copy: duplication; any packet in flight: reordering), ReceiveMalformed. A packet is its true index, sequence number and the rollover count it is keyed with. |
| `DamagedPath` | session.go | The receiving half again, over a network in order that loses runs of packets and damages the sequence number of one: the tag is not checked (session.go:242), so the damage reaches the tracker. |
| `Keystream` | srtp/hbh.go, srtp/e2e.go | The counter blocks of both ciphers: initial value from salt, SSRC and index or from a key's label, one block per step. The bytes hold `ByteMod` values. |
| `CallSession` | session.go | TransitionTo with any argument. |
| `RelayChannel` | relay/relay.go | ConnectRelayMedia as five steps that may each fail, the roll-back one closer at a time, Close by any number of goroutines one closer at a time. |
| `RelayDemux` | relay.go, rtcp.go, rtp.go, stun.go | The packets the repository builds, by first two bytes and length, and what the two classifiers say. |
| `StunMessage` | stun/stun.go | A message is written, cut or damaged in one byte on its way, and both walks read it attribute by attribute. Relay addresses are lists of parts that are octets or are not. |
| `H264` | rtp/h264.go | Units become payloads, a network loses and swaps them, Depacketize. A byte is (unit, position), so a wrong join is visible. |
| `AnnexB` | rtp/h264.go | SplitAnnexB's scan, one loop iteration per step. |
| `Sframe` | srtp/sframe.go | Both sessions and a relay that never forgets a frame and carries plain ones. |
| `WavRecorder` | sink.go | WriteFrame in one step (it holds the mutex), Close in four, between which the process may die. The buffered writer and the disk are external: a write may stop anywhere. |
| `AnnexBRecorder` | video.go | WriteVideo and Close over the same kind of disk; a unit is a start code and a body, so a unit torn in the middle of the file is visible. |
| `RiffReader` | source.go | newWavReader, one chunk per step, on files whose chunks have any order, size and format and that may end anywhere. |
| `WavSource` | source.go | One read buffer per step through down-mix and resampler to frames. A sample is the offset it was read from, so a gap, a repetition or a shift of channels is visible. |
| `OpusSource` | source.go | OpusFile's `more`, one packet per step, with pre-skip and packets that fail to decode; the ticks of its clock per sample make the skip uneven. |
| `VadNoise` | mlow/vad.go | getNoiseLevels on one band. |
| `VadHangover` | mlow/vad.go | ProcessPacket's decision, the activity of each frame being an input. |
| `MCSequential` | (composition) | The twelve parts that share nothing with the others (CallSession extended, eleven by INSTANCE); `part` says which one moves, so their state spaces add up. It also assumes what these modules require of their constants. |
| `MCMediaFiles` | (composition) | The same for what reads and writes files: WavRecorder extended, WavSource, RiffReader, OpusSource and AnnexBRecorder by INSTANCE. |
| `*Proofs` | | MediaPathProofs, PlayerProofs, RelayChannelProofs, RocTrackerProofs and SframeProofs hold the theorems about the module they are named after (RelayChannelProofs and SframeProofs within MCCall); SequentialProofs and WireProofs (Keystream and StunMessage) those about all parts of MCSequential, MediaFilesProofs those about all parts of MCMediaFiles |
| `MCCall` | (composition) | The same for what carries the media of a call: MediaPath extended, RelayChannel and Sframe by INSTANCE. |
| `MCPlayer` | | the instance of Player for TLC |

Every operator whose comment begins with "Mutant of" is a plausible bug of the definition it names; it
is used by no specification, and PROJECT.json pairs it with the property that would catch it.

`MediaPath` composes `RtpStream` (by INSTANCE) and `RocTracker` (by EXTENDS): the sequence number that
the one counts is what the other's wrap test looks at. `Player` refines `Playback`: the mapping is
`Life`, computed from the player's source and the histories of plays, replacements and finishes.
`WavSource` and `OpusSource` are what `Player` calls an AudioSource, abstracted there to a number of
frames; the offset at which `RiffReader` stops is where `WavSource` begins.

## 3. The runs

| run | question | bounds |
|---|---|---|
| player | Do finishes, closes and the active source survive every interleaving of two application goroutines with the send loop? Does the player implement Playback? | 2 users, 2 sources of 0 or 1 frames, each played once (a source played again is covered by the theorems only). Two goroutines and a loop are what a race on one source needs; the second source makes replacement possible. |
| call_media | What carries the media of a call, one part at a time (below). | below |
| media_path_video | Finding 1. | only MediaPath moves; 6 video packets, at any time of the call |
| sequential | Each part that works on its own, one at a time (below). | below |
| relay_demux_video | Finding 4. | as in sequential |
| h264_splice | Finding 2. | as in sequential |
| stun_four_octets | Finding 6. | as in sequential |
| toc_dtx_active | Finding 8. | as in sequential |
| media_files | Files one way and the other, one part at a time (below). | below |
| wav_wraps | Finding 7. | as in media_files |
| wav_source_surround | Finding 3. | three channels |
| riff_odd_fmt | Finding 5. | fmt chunks of 17 and 18 bytes |

The parts of `call_media`:

| part | shows | bounds |
|---|---|---|
| MediaPath | SenderIndexExact, DecryptsWhatWasSent, TrackerIsHighest: both trackers stay exact, and everything accepted decrypts | sequence space of 6, 14 packets: two wraps; 3 in flight; window of half a turn; two video packets at the start of the call, no more than half a turn (`VideoUntil`) from the audio, where the shared tracker still does no harm |
| RelayChannel | EndedHoldsNothing, LayersNested, FirstErrorWins: leaks, order and errors of set-up and teardown | 2 closers, every step and closer may fail |
| Sframe | NonceUnique, OpensThePeersOnly: nonces, and who opens what | frames of 0 and 1 bytes, 3 per side, varint base 2: the counter outgrows one byte |

The parts of `sequential`:

| part | shows | bounds |
|---|---|---|
| RtpSender | MarkerOnFirstSpeech, PiggybackAfterStart: the headers of a stream | 5 packets, sequence numbers modulo 3 (wraps, passes the piggyback start packet) |
| CallSession | SetupInOrder: no call skips or re-enters a phase | 2 calls, asked for anything |
| AnnexB | SplitsAtStartCodes: the scan against a definition by start-code positions | all streams over {0, 1, 2} of up to 8 bytes (two adjacent four-byte start codes) |
| RelayDemux | ReportsAreSeen: the two demultiplexers | all STUN types, three reports, both Opus types and video, payload lengths around every length the tests look at |
| VadNoise | NoiseInRange: divisors stay positive, products stay in their width | 13-bit integers with the code's proportions, eight energies from silence to saturation, unbounded runs |
| VadHangover | CodedWhenVoiced: when a packet counts as voice | all patterns of 15 frames with the code's own 60 ms |
| H264 | UnitSurvives, NothingJoinedAcross, Lossless: reassembly under loss and reordering | units of 12, 1, 1, 7, 8 and 13 bytes at an MTU of 7 and a limit of 12: whole, aggregated, two and three fragments, exactly at and over the limit; 2 losses; neighbours swap |
| StunMessage | StunReadBack, WalkStaysInside: what was written is read back as far as the packet goes, and neither walk panics: a byte read that is not there, be it of a type, a length, a value or a code, ends the walk in `Panic` | an allocate request, a relay's error answer and a type the repository answers with, two attributes of 0, 3 or 4 bytes (with and without padding), any cut, any byte damaged to a small or a large value |
| Keystream | CountersExact: for as many blocks as two bytes can number (1 MiB of payload) every counter tells the packet and the block; past them the hop-by-hop cipher, and only it, repeats | bytes of base 4, 18 blocks: the last byte carries and the packet passes the 16 blocks after which hbh.go's counter starts over |
| DamagedPath | OneDamagedPacketHarmless: one damaged packet spoils itself only | sequence space of 16, runs of 6 losses, 55 packets: three wraps |
| RtpHeader | HeaderReadBack: fields and length come out as they went in | two sequence numbers, time stamps and SSRCs at both ends of the byte range, both extension lengths, any cut |
| MlowToc | SpeechIsNotSilence: the sender's speech is the decoder's, and its silence has no voice flag there (that silence is inactive is false: finding 8) | all 256 first bytes, every length at a threshold |

The parts of `media_files`:

| part | shows | bounds |
|---|---|---|
| WavRecorder | HeaderNeverLies, NilMeansComplete, ClosedForGood: what a crash, a failed write or a late frame leaves behind, with a true byte count as long as the count fits (past that: finding 7) | frames below and above the buffer size, 14 bytes in all: the buffer is flushed, filled exactly and bypassed; a byte count modulo 12, so that it wraps; one number stands for both sizes of the header; 2 goroutines |
| AnnexBRecorder | RecordingIsPrefix: the file is always a prefix of what was accepted | 4 units of 1, 3 or 6 bytes, a buffer of 4 |
| WavSource | NoGaps, PlaysItAll, SourceEnds: chunked reading against resampling in one piece | all lengths up to five buffers, mono and stereo, rates 1/2, 1 (no resampling), 5/4 and 11/4 |
| RiffReader | RiffExact: a good file is read, at the right offset with the right format, and a bad one refused | up to 4 chunks, in any order, sizes below, at and above what is required, odd and even (fmt chunks of even size: odd ones are finding 5) |
| OpusSource | OpusPlaysItAll, SourceEnds: exactly the pre-skip is dropped, once | up to 5 packets, empty, shorter and longer than a frame; pre-skips of none, less than, exactly and more than a packet |

Deadlock checking is on where the environment never stops (player) and off where the input ends: a call is over, a file is closed, all units are sent.

Widths are scaled down with their proportions kept: sequence numbers to 6 or 16 values with half of that,
varints to base 2, counter bytes to base 4, the recorder's byte count to 12, the VAD's integers to 13 bits
with the coefficients scaled with them (`NoiseAssumption`, `RocAssumption`, `KeystreamAssumption` and
`DamagedAssumption` say which proportions matter). Loops whose counters grow without bound are cut by
`MaxPackets`, `MaxPlays`, `MaxFrames`, `MaxBuilt`, `MaxVideo`, `VideoUntil`, `MaxInFlight`, `MaxLost`,
`MaxAccepted`, `MaxLen`, `MaxSent`, `MaxChunks`, `MaxUnits`, `MaxAttrs` and `MaxBlocks`.

### Fairness

* Player: weak fairness of the send loop (it ticks as long as the call lives, and its callback returns)
  and of the Close that ends a Play or Stop already begun. Nobody must ever call the player. With it
  TLC checks PlaybackEnds and that the player implements Playback, whose promise includes progress.
* WavSource and OpusSource: weak fairness of the reader, which is the Player's loop: it reads until it is told the end (SourceEnds).

The other modules state safety only. RelayChannel could say no more: ConnectRelayMedia gives the
handshakes no deadline, so set-up need not end. A STUN walk, the RIFF walk and the splitter
advance with each step over an input that ends.

## 4. Findings

1. **Audio and video share one send tracker** (session.go:211, run media_path_video). `ProtectRTP` feeds
   video sequence numbers to `sendRoc`, which counts wraps of the audio sequence. In the trace video has
   sent 1 to 5 and audio nothing; the first audio packet, number 1, lies more than half a turn (3) below the
   remembered 5, the test at srtp/e2e.go:158 takes that for a wrap, and it is sealed under rollover count 1
   where the receiver starts at 0. In the code it takes a video packet whose number is more than 32768 above
   that of the audio packet after it. Without video, or with video that is over early in the call, the path is
   exact, which is theorem AudioDecrypts. The code warns of this path: "NOT VALIDATED: the video send media
   path is unproven" (session.go:209).
2. **A lost middle fragment is spliced over** (rtp/h264.go:208, run h264_splice).
3. **Files with 3, 5, 6 or 7 channels lose bytes at every read buffer** (source.go:149, run wav_source_surround).
4. **IsRtcpPacket takes video for RTCP** (rtp/rtcp.go:32, run relay_demux_video), against its comment;
   ClassifyRelayPacket, which looks at the first byte, is right about the same packets.
5. **An odd-sized "fmt " chunk loses the walk** (source.go:210, run riff_odd_fmt): every other chunk is
   followed over its padding byte, this one is not, and a good file is refused.
6. **"1.2.x.3.4" is taken for an address** (stun/stun.go:151, run stun_four_octets): a part that is no
   octet is passed over, where the comment asks for exactly four.
7. **The recorder's byte count wraps at 4 GiB** (sink.go:80, run wav_wraps): `dataLen` has 32 bits and no check,
   so Close rewrites the header with the remainder and returns nil, where sink.go:10-12 promises "the true byte
   count". In the trace the count has 12 values, 14 bytes were accepted and the header says 2. The RIFF size,
   `36+dataLen` (sink.go:41), wraps 36 bytes earlier still. The header gives too little, never too much (HeaderNeverLies).
8. **Comfort noise that the decoder calls active** (rtp/rtp.go:63, run toc_dtx_active): a payload of 2 to 15 bytes
   whose first byte is 0x0a, 0x0b, 0x0e or 0x0f, or of 2 to 6 whose first byte is 0x32, 0x33, 0x36, 0x37, 0x3a,
   0x3b, 0x3e or 0x3f, is silence to `IsOpusDtxPayload` and active to `ParseSmplTOC` (mlow/toc.go:67), with which
   the repository's vectors agree (mlow/testdata/toc_vectors.json:123, 130). The theorem about both
   (`SpeechAndSilenceApart`) therefore does not speak of `active` for silence.

A ninth disagreement has no run: srtp/sframe.go:198-200 says that Decrypt returns (plaintext, true) "when the
trailing SFrame header parses and the GCM tag authenticates", and a sealed frame of an empty payload meets both,
but line 215 asks for a byte more than the tag and it is taken for plain Opus. `OpensThePeersOnly` says nothing
of such frames: it neither asks that they be opened nor that they not be.

Smaller observations, which contradict nothing the repository says:

* A Pause that falls between nextFrame's unlock and its ReadFrame does not stop that frame (player.go:107;
  `Snapshot` and `ReadFrame` are separate actions).
* ParseStunAttributes ignores the body length of the header and reads what follows it; ParseStunErrorCode
  does not ask IsStunPacket first (stun.go:272-328).
* EstimateSrtpRtpWireBytes assumes tags of 10 bytes (rtp.go).
* A read error in an Opus stream drops the frame that was not yet full (source.go).
* A damaged first packet seeds the receive tracker; a first packet from the second turn, half a turn lost
  in a row, two damaged packets, or one with a late one, can shift its count for good. `DamagedPath`
  therefore damages one packet, never the first, on a network in order, and `MediaPath` asks for `Timely`.

## 5. What is proved

All theorems hold for every value of the constants that the modules' named assumptions admit.

* `PlayerProofs`: for any goroutines, sources, lengths and numbers of plays. The inductive invariant has
  three parts beside the type. `Counted` counts the plays of a source: each is active, pending in nextFrame, or fired, or lost
  to a replacement, which gives FinishOncePerPlay where the fired count alone says nothing about the
  next step. `Located` says which goroutine holds a source that has left the player and is not closed, which gives
  NoLeak. `Accounted` ties both to where the send loop is. `SingleUse` adds, for sources played once, that the active source
  is open and that two goroutines meet in one Close only in the window named by OverlappingCloseWindow.
  The run plays each source once; the theorems but SingleUse also cover sources played again, even while active.
* `MediaPathProofs!AudioDecrypts`: the sender's tracker is the quotient of its index by the
  sequence space, the receiver's tracker is the highest index it has folded, and a packet less than
  half a turn from that index is given exactly its own rollover count. The argument is arithmetic on
  quotients; the lemmas on `Advance`, `Estimate` and `Fold` are stated on operators and cited by name.
  It rests on `Timely`, the assumption on the network: nothing is late by half a turn or more and no
  half turn is lost in a row (RFC 3711's estimate has this limit), and on `VideoEarly`: no video, or
  video that ends before either sequence has passed half a turn, which is how the call_media run is
  bounded. With later video the theorem is false, as finding 1 shows. The invariant tells the tracker left by an audio packet
  (`AfterAudio`) from that left by a video packet (`AfterVideo`), which is no index but still counts no wrap.
* `RelayChannelProofs!NothingLeaks` and `FirstErrorWinsHolds`: the invariant says which layers are open at
  each step of connecting, that the cleanup list is exactly the open layers bottom up, and that every Close
  in progress has released all layers above the one it is at and carries the topmost error so far.
* `SframeProofs!NonceUniqueHolds`: frames sealed by one party are numbered apart, below its counter (`NonceInv`), and the two parties seal
  under different keys, so key and nonce never repeat.
* `SframeProofs!OpensThePeersOnlyHolds`, for any varint base: every frame the relay holds was sealed whole (`OpenInv`: by a
  party, under its key, with a header that parses, of three bytes or more), so the length test and the key decide who opens it; of frames without a payload it says only who does not.
  That each party has a peer is an assumption on `Parties`.
* `PlayerProofs!PlayerKeepsPromise`: the safety half of the refinement, for sources played once. Each action of
  `Player` maps to the step of `Playback` named in `PlayRefines`, `StopRefines`, `SettleRefines`, `CloseRefines` and
  `CallbackRefines`, or to none. Beside the invariants above it needs `ToldClosed`: the source
  whose finish is being reported has been closed.

`SequentialProofs`, about the parts of MCSequential while they move:

* `CallsMoveForward`: the history of phases of a call is the chain up to its own phase, so no call skips a phase or re-enters one it has left.
  The second half, that a step takes no call back, is in the theorem only: SetupInOrder, which the run checks, looks at the phases visited.
* `FirstSpeechIsMarked` and `PiggybackStarts`: one invariant (`SenderInv`) ties the latch and the packet count of the stream
  to the packets built: the latch is set once speech is among them, the count is that of the packets which are no comfort noise.
* `NoReportIsMissed` and `SpeechAndSilenceApart`: both hold packet by packet, from the arithmetic of first bytes and lengths
  (`DemuxersAgree`, `BytesApart`).
* `NoiseStaysInRange`: level and inverse level stay in `1..NlCap` and `1..InvTop` (`NoiseInv`). The step needs that a
  fixed-point fraction of a way lies on the way (`PartOfTheWay`), and the proportions in `NoiseAssumption`.
* `VoiceIsCoded`: `HangoverInv` says what is left of the hangover after each packet in terms of the last frame of speech.
  `FoldExists` shows that the function behind the library's fold exists, for otherwise nothing is known of it.
* `NoneJoinedAcross`: the fragment buffer holds a run of fragments that arrived one after the other, from a start (`JoinInv`).
* `UnitsSurvive`: once the first fragments of a unit have arrived in a row, the buffer is the unit so far, or the unit is over the
  limit (`SurviveInv`); what an earlier unit left in the buffer is gone with the first of them.
* `NothingIsLost`: on a network in order, what has come out, and what the buffer and the payloads in flight still hold, is what was packed, in
  order (`OrderInv`), for units sent whole, in fragments or aggregated.
* `HeaderComesBack`, for every packet built, of this sender or of others: a packet is the twelve fixed bytes, which hold the fields
  (`FixedIs`), then what the first byte says follows (`Shape`), then its payload (`CodecPacket`). The three kinds of
  packets are each brought to that form (`EncodedWhole`, `ForeignFollows`), and `HeaderRead` reads it back for every number of bytes that arrive.
* `DamageDoesNoHarm`: the invariant (`InReach`) is that the tracker lags
  behind the sender by no more than the packets missed in a row, which `LossRun` keeps below half a turn, and that
  it leads by less than half a turn, and then only once the damaged packet has moved it: so each packet that
  arrives as it was sent is guessed right, and the stream catches up with a tracker that leads.
* `CutAtStartCodes`: every start code up to where the scan stands has been seen, the unit it is in begins behind the last of them,
  and what came out are the non-empty units before that one, in order (`AnnexInv`). The scan's test for a code of four bytes and the
  reference, which knows only 00 00 01, meet in `UnitEnds`: the zeros before a code belong to no unit.

`WireProofs`, about the other two parts of MCSequential:

* `CountersStayExact`, for bytes of 4 to 256 values: the last two bytes of the hop-by-hop counter are the block, the other fourteen the salt
  over the name of the packet or of the key, and the end-to-end counter is the same up to the 14th byte, into which it carries once the
  block passes what two bytes hold (`KeyInv`). That the exclusive or with the salt takes the salt off again is proved bit by bit
  (`XorUndoes`), and that the bytes of a name spell its number by splitting quotients (`Recombined`).
* `WalksStayInside`, for any packet whatever of any length: a walk that read a type, a length, a value or a code that is not there would end in `Panic`,
  and it never does (`HeadThere`, `AttrsStepSafe`, `CodeStepSafe`): each attribute begins at least four bytes behind the last, and a walk only reads
  what its length tests have seen to be there. The walks are functions on offsets that grow, so the induction goes down
  from the end of the packet (`AttrsStayInside`, `CodeStaysInside`); `AttrsWalked` and `CodeWalked` first show that there are such functions.
* `StunComesBack`: the invariant says only that the message is one that is encoded here or by the relay, for any types and up to 14 attributes
  (`StunInv`). The argument is in what that means: the bytes of a message are laid out as its header, its attributes one behind the other with
  their padding, and its hashes (`Layout`, `MessageLaid`), and a walk over any part of bytes laid out so gives the attributes that end
  within the part (`AttrsWalk`) and the first code among them (`CodeWalk`).

`MediaFilesProofs`, about the parts of MCMediaFiles:

* `HeaderNeverLiesHolds`, `NilMeansCompleteHolds`, `ClosedForGoodHolds`: what was accepted is
  on the disk, in the buffer, or the recorder has an error to return (`NothingLost`, part of `WavInv`);
  the count in the header is a remainder of that, and a remainder is never the larger; it is the count itself as long as
  that is below the width (`NilMeansComplete`), and beyond it need not be (finding 7).
* `RecordingHolds`: as long as no write has failed, file and buffer together are the stream; after that the file no longer grows (`VideoInv`).
* `RiffReaderExact`: where the walk stands is the sum of the chunks behind it (`RiffInv`; `WalkSteps` unfolds the fold that
  gives the reference its offsets). Its hypothesis, that every fmt chunk has an even size, is what finding 5 violates.
* `OpusIsPlayed`: what was played and what waits is the decoded stream without its first `preSkip / Clock` samples (`OpusInv`),
  whether the skip ends within a packet, at its end or packets later.
* `NoGapsHolds` and `WavIsPlayed`, for every rate and length: after any number of buffers, the resampler's position
  and last sample are those of the resampler in one piece at that offset (`SourceInv`, by `ProcessIs` for one buffer and
  `ResampledIs` for the reference; how many samples a length yields is `IsCount`). Their hypothesis, that a read buffer is a
  whole number of sample groups for every number of channels, is what finding 3 violates: with it the run's counterexample is excluded and nothing else is.

The type invariants of these modules are parts of the inductive invariants and are proved with them;
those of Player stand as theorems of their own (`TypeCorrect`, `IdleHoldsNothingHolds`).

The provers have no induction over an operator. Where one over the length of a stream is needed, these proofs do it with the set of the
lengths for which the claim holds (`Induct`), and state first that the recursive function which a library operator chooses exists
(`FoldExists`, `FlattenExists`, `TotalExists`, `WalkExists`, `AttrsWalked`).

Every invariant and action property of the passing runs is stated by a theorem. Only model-checked:

* PlaybackEnds, SourceEnds and the progress that `Playback` promises: liveness is out of the prover's reach, so
  KeepsPromise is proved as far as its steps go.

## 6. What is not modelled

* Cryptography (HKDF, AES, GCM, HMAC): functions of bytes without state; the models use the names of keys
  and the indices and counters they are used with.
* The protobuf subscriptions and descriptors inside STUN attributes, and the hashes that sign them; SSRC
  derivation, participant ids, stanza builders and parsers, voip settings: pure conversions without loops over foreign lengths,
  compared with recorded vectors by the repository's tests.
* The VAD's filter bank, energies and sigmoid: straight-line arithmetic on samples.
* MP3File's own loop, which is WAVFile's with two channels; the go-mp3 and Opus decoders, which are external.
* Overlapping calls on objects without a lock (CallSession, MediaPipeline, SframeSession): the callers are
  not in the repository. A data race there would be the callers' mistake; the hazards name it.
* More than one damaged packet, or damage together with reordering: the code gives no guarantee there.
* Logging, the scripts of the profile page and the vendored libraries.

Three hazards have no property, because the code makes no promise to check: Pause during a read
(player.go:107), half a turn lost in a row (srtp/e2e.go:192), and the handshakes without a deadline (relay/relay.go:160).

## 7. Plan

Left, in this order:

1. MediaPath's assumptions and those of DamagedPath joined in one network that damages, loses and reorders within a window, with the theorem about it.
2. Runs: a source played again while it is active in the player run, which needs its single-use properties restated per play.
3. Models: the activity score of the VAD from its band energies, with bounds on the fixed-point products;
   the order of an offer's children, if the builders grow conditions.
