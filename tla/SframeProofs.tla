---------------------------- MODULE SframeProofs ----------------------------
(***************************************************************************)
(* For calls of any length: no nonce is used twice under a key, as each    *)
(* session counts its own frames and the two never share a key; and a      *)
(* party opens what its peer sealed with a payload, and nothing that its   *)
(* peer has not sealed.                                                    *)
(***************************************************************************)
EXTENDS MCCall, FiniteSetTheorems, TLAPS

LEMMA FrameConstants ==
  /\ \A p, q, r \in Parties : p = q \/ q = r \/ p = r
  /\ \A p \in Parties : \E q \in Parties : q # p
  /\ Lengths \subseteq Nat /\ TagLen \in Nat \ {0}
BY CallAssumption DEF Frames!SframeAssumption

\* A step of the call is one of the sessions', or leaves them alone.
LEMMA FramesMove == [CallNext]_allVars => [Frames!Next]_(Frames!vars)
<1>1. CASE UNCHANGED allVars
  BY <1>1 DEF allVars, frameVars, Frames!vars
<1>2. CASE CallNext
  BY <1>2 DEF CallNext, AudioStep, ChannelStep, FrameStep, Only, frameVars, Frames!vars
<1> QED
  BY <1>1, <1>2

\* Every sealed frame was sealed by a party of the call, for the other one, with
\* a counter that party has used up since, and no two of a party with the same.
SealedBy(f) == /\ f.by \in Parties /\ f.key = Frames!EncryptKey(f.by)
               /\ f.counter \in Nat /\ f.counter < txCounter[f.by]

NonceInv == /\ txCounter \in [Parties -> Nat]
            /\ \A f \in frames : f.sealed => SealedBy(f)
            /\ \A f, g \in frames : f.sealed /\ g.sealed /\ f.by = g.by /\ f.counter = g.counter => f = g

\* The two sessions seal under different keys.
LEMMA KeysDiffer == \A p, q \in Parties : Frames!EncryptKey(p) = Frames!EncryptKey(q) => p = q
<1> SUFFICES ASSUME NEW p \in Parties, NEW q \in Parties, p # q PROVE Frames!EncryptKey(p) # Frames!EncryptKey(q)
  OBVIOUS
<1>1. Frames!Peer(p) \in Parties /\ Frames!Peer(p) # p
  BY DEF Frames!Peer
<1>2. Frames!Peer(q) \in Parties /\ Frames!Peer(q) # q
  BY DEF Frames!Peer
<1>3. Frames!Peer(p) = q /\ Frames!Peer(q) = p
  BY <1>1, <1>2, FrameConstants
<1> QED
  BY <1>3 DEF Frames!EncryptKey

\* A frame that is sealed uses up the counter it is sealed with.
LEMMA NonceStep == NonceInv /\ [Frames!Next]_(Frames!vars) => NonceInv'
<1> SUFFICES ASSUME NonceInv, [Frames!Next]_(Frames!vars) PROVE NonceInv'
  OBVIOUS
<1>1. ASSUME NEW p \in Parties, Frames!Encrypt(p) PROVE NonceInv'
  <2>1. PICK n \in Lengths : frames' = frames \cup {Frames!Sealed(p, n)}
    BY <1>1 DEF Frames!Encrypt
  <2>2. txCounter' = [txCounter EXCEPT ![p] = @ + 1]
    BY <1>1 DEF Frames!Encrypt
  <2>3. PICK new \in frames' : /\ frames' = frames \cup {new} /\ new.sealed /\ new.by = p
                            /\ new.key = Frames!EncryptKey(p) /\ new.counter = txCounter[p]
    <3>1. LET x == Frames!Sealed(p, n)
          IN x.sealed /\ x.by = p /\ x.key = Frames!EncryptKey(p) /\ x.counter = txCounter[p]
      BY DEF Frames!Sealed
    <3> HIDE DEF Frames!Sealed
    <3>2. Frames!Sealed(p, n) \in frames'
      BY <2>1
    <3> QED
      BY <2>1, <3>1, <3>2
  <2>4. txCounter \in [Parties -> Nat] /\ txCounter' \in [Parties -> Nat] /\ txCounter'[p] = txCounter[p] + 1
        /\ \A q \in Parties : txCounter[q] <= txCounter'[q]
    BY <2>2 DEF NonceInv
  <2>5. \A f \in frames : f.sealed => SealedBy(f) /\ (f.by = p => f.counter # txCounter[p])
    BY <2>4 DEF NonceInv, SealedBy
  <2>6. \A f \in frames : f.sealed => SealedBy(f)'
    BY <2>4, <2>5 DEF SealedBy, Frames!EncryptKey, Frames!Peer
  <2>7. SealedBy(new)'
    BY <2>3, <2>4 DEF SealedBy, Frames!EncryptKey, Frames!Peer
  <2>8. ASSUME NEW f \in frames', NEW g \in frames', f.sealed, g.sealed, f.by = g.by, f.counter = g.counter
        PROVE  f = g
    BY <2>3, <2>5, <2>8 DEF NonceInv
  <2> QED
    BY <2>3, <2>4, <2>6, <2>7, <2>8 DEF NonceInv
<1>2. ASSUME NEW p \in Parties, Frames!SendPlain(p) PROVE NonceInv'
  <2>1. PICK n \in Lengths, header \in 2..4 : frames' = frames \cup {Frames!Plain(p, n, header)}
    BY <1>2 DEF Frames!SendPlain
  <2>2. ~Frames!Plain(p, n, header).sealed
    BY DEF Frames!Plain
  <2>3. txCounter' = txCounter
    BY <1>2 DEF Frames!SendPlain
  <2> QED
    BY <2>1, <2>2, <2>3 DEF NonceInv, SealedBy
<1>3. ASSUME NEW p \in Parties, Frames!Decrypt(p) PROVE NonceInv'
  BY <1>3 DEF Frames!Decrypt, NonceInv, SealedBy
<1>4. CASE UNCHANGED Frames!vars
  BY <1>4 DEF Frames!vars, NonceInv, SealedBy
<1> QED
  BY <1>1, <1>2, <1>3, <1>4 DEF Frames!Next

\* However long the call and whatever the relay does, no two frames are sealed
\* under the same key and nonce (sframe.go:162-174, 183-194).
THEOREM NonceUniqueHolds == CallSpec => []NonceUnique
<1>1. CallInit => NonceInv
  BY DEF CallInit, Frames!Init, NonceInv
<1>2. NonceInv => NonceUnique
  <2> SUFFICES ASSUME NonceInv, NEW f \in frames, NEW g \in frames,
                      f.sealed, g.sealed, f.key = g.key, f.counter = g.counter
               PROVE  f = g
    BY DEF NonceUnique, Frames!NonceUnique
  <2>1. f.by \in Parties /\ g.by \in Parties /\ Frames!EncryptKey(f.by) = Frames!EncryptKey(g.by)
    BY DEF NonceInv, SealedBy
  <2>2. f.by = g.by
    BY <2>1, KeysDiffer
  <2> QED
    BY <2>2 DEF NonceInv
<1> QED
  BY <1>1, <1>2, FramesMove, NonceStep, PTL DEF CallSpec

-----------------------------------------------------------------------------
\* What Encrypt puts into a frame.
Whole(f) == /\ f.by \in Parties /\ f.key = Frames!EncryptKey(f.by) /\ f.body \in Nat /\ f.header >= 3 /\ Frames!Parses(f)

\* Every sealed frame is whole, and Decrypt opened what it should of what it was handed.
OpenInv == /\ txCounter \in [Parties -> Nat]
           /\ \A f \in frames : f.sealed => Whole(f)
           /\ \A f \in frames : f.by \in Parties /\ f.body \in Nat
           /\ Frames!OpensThePeersOnly

\* Sframe has the standard modules as its own.
LEMMA SameCardinality == \A P : Frames!Cardinality(P) = Cardinality(P)
BY Zenon DEF Frames!Cardinality, Cardinality, Frames!IsFiniteSet, IsFiniteSet

\* A varint has a byte at least.
LEMMA VarintLong == ASSUME NEW n \in Nat PROVE Frames!VarintLen(n) \in Nat /\ Frames!VarintLen(n) >= 1
<1> DEFINE Powers == {k \in 1..n : VarintBase ^ k <= n}
<1>1. IsFiniteSet(1..n)
  BY FS_Interval
<1>2. IsFiniteSet(Powers)
  <2>1. Powers \subseteq 1..n
    OBVIOUS
  <2> QED
    BY <1>1, <2>1, FS_Subset
<1>3. Cardinality(Powers) \in Nat
  BY <1>2, FS_CardinalityType
<1>4. Frames!VarintLen(n) = 1 + Cardinality(Powers)
  BY SameCardinality DEF Frames!VarintLen
<1> HIDE DEF Powers
<1> QED
  BY <1>3, <1>4

\* A party has one peer, and is the peer of its peer.
LEMMA PeerOf == ASSUME NEW p \in Parties, NEW q \in Parties PROVE Frames!Peer(q) = p <=> q # p
<1>1. Frames!Peer(q) \in Parties /\ Frames!Peer(q) # q
  BY FrameConstants DEF Frames!Peer
<1> QED
  BY <1>1, FrameConstants

\* Decrypt opens a frame exactly when the peer sealed it and there is a payload,
\* on sframe.go:215's terms.
LEMMA DecryptsPeers ==
  ASSUME NEW p \in Parties, NEW f, f.sealed => Whole(f), f.body \in Nat
  PROVE  Frames!Decrypts(p, f) <=> f.sealed /\ f.by # p /\ f.body > TagLen
<1>1. f.body >= TagLen + 1 <=> f.body > TagLen
  BY FrameConstants
<1>2. ASSUME f.sealed PROVE f.key = Frames!DecryptKey(p) <=> f.by # p
  BY <1>2, PeerOf DEF Whole, Frames!EncryptKey, Frames!DecryptKey
<1>3. f.sealed => f.header >= 3 /\ Frames!Parses(f)
  BY DEF Whole
<1> QED
  BY <1>1, <1>2, <1>3, Zenon DEF Frames!Decrypts

\* Every step keeps the frames whole and what is opened the peer's.
LEMMA OpenStep == OpenInv /\ [Frames!Next]_(Frames!vars) => OpenInv'
<1> SUFFICES ASSUME OpenInv, [Frames!Next]_(Frames!vars) PROVE OpenInv'
  OBVIOUS
<1>1. ASSUME NEW p \in Parties, Frames!Encrypt(p) PROVE OpenInv'
  <2>1. PICK n \in Lengths : frames' = frames \cup {Frames!Sealed(p, n)}
    BY <1>1 DEF Frames!Encrypt
  <2>2. txCounter' = [txCounter EXCEPT ![p] = @ + 1] /\ UNCHANGED result
    BY <1>1 DEF Frames!Encrypt
  <2>3. txCounter[p] \in Nat /\ n \in Nat /\ TagLen \in Nat /\ txCounter' \in [Parties -> Nat]
    BY <2>2, FrameConstants DEF OpenInv
  <2>4. Frames!HeaderLen(txCounter[p]) >= 3
    <3>1. /\ Frames!VarintLen(txCounter[p]) \in Nat /\ Frames!VarintLen(txCounter[p]) >= 1
          /\ Frames!VarintLen(0) \in Nat /\ Frames!VarintLen(0) >= 1
      BY <2>3, VarintLong
    <3> QED
      BY <3>1 DEF Frames!HeaderLen
  <2>5. Whole(Frames!Sealed(p, n)) /\ Frames!Sealed(p, n).by = p /\ Frames!Sealed(p, n).body \in Nat
    BY <2>3, <2>4 DEF Whole, Frames!Sealed, Frames!Parses, Frames!HeaderLen
  <2>6. \A f \in frames' : f \in frames \/ f = Frames!Sealed(p, n)
    BY <2>1
  <2>7. \A f \in frames' : (f.sealed => Whole(f)) /\ f.by \in Parties /\ f.body \in Nat
    BY <2>5, <2>6, Zenon DEF OpenInv
  <2>8. Frames!OpensThePeersOnly'
    BY <2>2 DEF OpenInv, Frames!OpensThePeersOnly
  <2>9. \A f : Whole(f)' <=> Whole(f)
    BY DEF Whole, Frames!Parses, Frames!EncryptKey, Frames!Peer, Frames!VarintLen
  <2> QED
    BY <2>3, <2>7, <2>8, <2>9, Zenon DEF OpenInv
<1>2. ASSUME NEW p \in Parties, Frames!SendPlain(p) PROVE OpenInv'
  <2>1. PICK n \in Lengths, header \in 2..4 : frames' = frames \cup {Frames!Plain(p, n, header)}
    BY <1>2 DEF Frames!SendPlain
  <2>2. ~Frames!Plain(p, n, header).sealed /\ Frames!Plain(p, n, header).by = p /\ Frames!Plain(p, n, header).body \in Nat
    BY FrameConstants DEF Frames!Plain
  <2>3. txCounter' = txCounter /\ result' = result
    BY <1>2 DEF Frames!SendPlain
  <2>4. \A f \in frames' : f \in frames \/ f = Frames!Plain(p, n, header)
    BY <2>1
  <2>5. \A f \in frames' : (f.sealed => Whole(f)) /\ f.by \in Parties /\ f.body \in Nat
    BY <2>2, <2>4, Zenon DEF OpenInv
  <2>6. Frames!OpensThePeersOnly'
    BY <2>3 DEF OpenInv, Frames!OpensThePeersOnly
  <2>7. \A f : Whole(f)' <=> Whole(f)
    BY DEF Whole, Frames!Parses, Frames!EncryptKey, Frames!Peer, Frames!VarintLen
  <2> QED
    BY <2>3, <2>5, <2>6, <2>7, Zenon DEF OpenInv
<1>3. ASSUME NEW p \in Parties, Frames!Decrypt(p) PROVE OpenInv'
  <2>1. PICK f \in frames : result' = {[at |-> p, frame |-> f, opened |-> Frames!Decrypts(p, f)]}
    BY <1>3 DEF Frames!Decrypt
  <2>2. frames' = frames /\ txCounter' = txCounter
    BY <1>3 DEF Frames!Decrypt
  <2>3. Frames!Decrypts(p, f) <=> f.sealed /\ f.by # p /\ f.body > TagLen
    BY DecryptsPeers DEF OpenInv
  <2>4. Frames!OpensThePeersOnly'
    <3> DEFINE r == [at |-> p, frame |-> f, opened |-> Frames!Decrypts(p, f)]
    <3>1. r.at = p /\ r.frame = f /\ (r.opened <=> Frames!Decrypts(p, f))
      OBVIOUS
    <3>2. \A x \in result' : x = r
      BY <2>1
    <3> HIDE DEF r
    <3> QED
      BY <2>3, <3>1, <3>2, Zenon DEF Frames!OpensThePeersOnly
  <2>5. \A g : Whole(g)' <=> Whole(g)
    BY DEF Whole, Frames!Parses, Frames!EncryptKey, Frames!Peer, Frames!VarintLen
  <2> QED
    BY <2>2, <2>4, <2>5, Zenon DEF OpenInv
<1>4. CASE UNCHANGED Frames!vars
  BY <1>4, Zenon DEF Frames!vars, OpenInv, Frames!OpensThePeersOnly, Whole, Frames!Parses, Frames!EncryptKey, Frames!Peer, Frames!VarintLen
<1> QED
  BY <1>1, <1>2, <1>3, <1>4 DEF Frames!Next

\* Whatever the relay loses, repeats, overtakes or reflects, Decrypt opens only
\* what the peer sealed, and all of that which has a payload (sframe.go:198-232).
THEOREM OpensThePeersOnlyHolds == CallSpec => []OpensThePeersOnly
<1>1. CallInit => OpenInv
  BY DEF CallInit, Frames!Init, OpenInv, Frames!OpensThePeersOnly
<1>2. OpenInv => OpensThePeersOnly
  BY DEF OpenInv, OpensThePeersOnly
<1> QED
  BY <1>1, <1>2, FramesMove, OpenStep, PTL DEF CallSpec
=============================================================================
