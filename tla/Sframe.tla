------------------------------- MODULE Sframe -------------------------------
(***************************************************************************)
(* meowcaller/srtp/sframe.go: the two SframeSessions of a call, and a      *)
(* relay that loses, reorders, repeats and reflects frames and carries     *)
(* frames that are plain Opus.  The key of a participant is the one derived *)
(* from its id; a frame opens under the key and nonce it was sealed with   *)
(* and no other (GCM is external).  Each session is used by one goroutine: *)
(* it has no lock.  Lengths are in bytes.                                  *)
(***************************************************************************)
EXTENDS Integers, FiniteSets

CONSTANTS Parties,     \* the two ends of the call
          Lengths,     \* the lengths of frames before they are sealed
          VarintBase,  \* a varint byte holds one digit of a number in this base
          TagLen,      \* gcmTagLen
          MaxFrames    \* bound: how many frames a party seals

SframeAssumption ==
  /\ \A p, q, r \in Parties : p = q \/ q = r \/ p = r
  /\ \A p \in Parties : \E q \in Parties : q # p
  /\ Lengths \subseteq Nat /\ VarintBase \in Nat /\ VarintBase > 1
  /\ TagLen \in Nat \ {0} /\ MaxFrames \in Nat

VARIABLES txCounter,  \* txCounter[p]: SframeSession.txCounter
          sent,       \* history: the frames sealed or sent as plain Opus, never forgotten by the relay
          result      \* history: what Decrypt last said of a frame, {} before

vars == <<txCounter, sent, result>>

Peer(p) == CHOOSE q \in Parties : q # p

\* Mutant of EncryptKey: the keys of the two directions are mixed up.
EncryptKeySelf(p) == p

\* NewSframeSession: a session seals for the peer's id and opens with its own.
EncryptKey(p) == Peer(p)
DecryptKey(p) == p

\* The length of a number as a varint: a byte, and one for each power of the base
\* that the number reaches.
VarintLen(n) == 1 + Cardinality({k \in 1..n : VarintBase ^ k <= n})

\* buildSframeHeader: the counter, key id 0 and the length of the whole header.
HeaderLen(counter) == VarintLen(counter) + VarintLen(0) + 1

Sealed(p, n) == [by |-> p, sealed |-> TRUE, key |-> EncryptKey(p), counter |-> txCounter[p],
                 body |-> n + TagLen, header |-> HeaderLen(txCounter[p])]

\* A plain frame whose last bytes look like a header of some length.
Plain(p, n, header) == [by |-> p, sealed |-> FALSE, key |-> EncryptKey(p), counter |-> 0,
                        body |-> n + TagLen, header |-> header]

\* parseSframeHeader on the last header bytes of a frame: a header whose length
\* byte says something else holds no counter.
Parses(f) == f.header = VarintLen(f.counter) + VarintLen(0) + 1

\* Decrypt: the header is long enough and parses, the rest holds more than a
\* tag, and the tag authenticates.  Otherwise the frame is used verbatim.
Decrypts(p, f) ==
  /\ f.header >= 3
  /\ f.body >= TagLen + 1
  /\ Parses(f)
  /\ f.sealed /\ f.key = DecryptKey(p)

Init == /\ txCounter = [p \in Parties |-> 0]
        /\ sent = {}
        /\ result = {}

\* Mutant of Encrypt: an empty frame does not use up its counter.
EncryptReuses(p) ==
  /\ txCounter[p] < MaxFrames
  /\ \E n \in Lengths :
       /\ sent' = sent \cup {Sealed(p, n)}
       /\ txCounter' = [txCounter EXCEPT ![p] = IF n = 0 THEN @ ELSE @ + 1]
  /\ UNCHANGED result

Encrypt(p) ==
  /\ txCounter[p] < MaxFrames
  /\ \E n \in Lengths : sent' = sent \cup {Sealed(p, n)}
  /\ txCounter' = [txCounter EXCEPT ![p] = @ + 1]
  /\ UNCHANGED result

\* External: the peer sends an Opus frame it has not sealed.
SendPlain(p) ==
  /\ \E n \in Lengths, header \in 2..4 : sent' = sent \cup {Plain(p, n, header)}
  /\ \A f \in sent : f.sealed \/ f.by # p
  /\ UNCHANGED <<txCounter, result>>

\* The relay hands p a frame, its own or the peer's, for the first time or again.
Decrypt(p) ==
  /\ \E f \in sent : result' = {[at |-> p, frame |-> f, opened |-> Decrypts(p, f)]}
  /\ UNCHANGED <<txCounter, sent>>

Next == \E p \in Parties : Encrypt(p) \/ SendPlain(p) \/ Decrypt(p)

Spec == Init /\ [][Next]_vars

-----------------------------------------------------------------------------
\* No two frames of a call are sealed with the same key and nonce, across both
\* directions: the counters of the two sessions both start at 0.
NonceUnique ==
  \A f, g \in sent : f.sealed /\ g.sealed /\ f.key = g.key /\ f.counter = g.counter => f = g

\* Whatever was lost, repeated or overtaken, a party opens each frame with a
\* payload that its peer sealed, once the counter has outgrown one byte too
\* ("(plaintext, true) when the SFrame header parses and the GCM tag
\* authenticates", sframe.go:198), and what it opens is a frame its peer sealed
\* ("otherwise (nil, false), meaning the frame is plain Opus", sframe.go:199):
\* neither a plain frame that ends like a header nor a frame of its own that the
\* relay reflects.  Sealed frames without a payload are left out: Decrypt wants a
\* byte more than the tag (sframe.go:215), which that comment does not say.
OpensThePeersOnly ==
  \A r \in result :
    /\ r.opened => r.frame.sealed /\ r.frame.by # r.at
    /\ r.frame.sealed /\ r.frame.by # r.at /\ r.frame.body > TagLen => r.opened
=============================================================================
