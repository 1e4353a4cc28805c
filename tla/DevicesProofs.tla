---------------------------- MODULE DevicesProofs ----------------------------
(***************************************************************************)
(* Lemmas about the devices, for every word size and every set of keys.    *)
(***************************************************************************)
EXTENDS Devices, TLAPS

-----------------------------------------------------------------------------
(* The timer                                                               *)

\* A remainder is below the divisor.
LEMMA Remainder ==
  ASSUME NEW n \in Int, NEW d \in Nat \ {0}
  PROVE  n % d \in 0 .. d - 1
OBVIOUS

\* The clock stays a pair of words.
LEMMA IncrementedType ==
  ASSUME NEW c \in Counter
  PROVE  Incremented(c) \in Counter
<1>1. c.lo \in Word /\ c.hi \in Word
  BY DEF Counter
<1>2. WordSize \in Nat \ {0} /\ c.lo + 1 \in Int /\ c.hi + 1 \in Int
  BY <1>1, WordSizeAssumption DEF Word
<1>3. (c.lo + 1) % WordSize \in Word /\ (c.hi + 1) % WordSize \in Word
  BY <1>2, Remainder DEF Word
<1>4. (IF c.lo = Ones THEN (c.hi + 1) % WordSize ELSE c.hi) \in Word
  BY <1>1, <1>3
<1> QED BY <1>3, <1>4 DEF Incremented, Counter

\* One more than a word is one more, or zero after the last.
LEMMA NextWord ==
  ASSUME NEW n \in Word
  PROVE  /\ n = Ones  => (n + 1) % WordSize = 0
         /\ n # Ones => (n + 1) % WordSize = n + 1
<1>1. WordSize \in Nat \ {0, 1} /\ n \in 0 .. WordSize - 1
  BY WordSizeAssumption DEF Word
<1> QED BY <1>1 DEF Ones

\* The clock moves on by one or starts again.
LEMMA ClockMovesOn ==
  ASSUME NEW c \in Counter, NEW d \in Counter, AtLeast(c, d)
  PROVE  AtLeast(Incremented(c), d) \/ Incremented(c) = Zero
<1>1. /\ c.lo \in Word /\ c.hi \in Word /\ d.lo \in Word /\ d.hi \in Word
      /\ c.lo \in Int /\ c.hi \in Int /\ d.lo \in Int /\ d.hi \in Int
  BY DEF Counter, Word
<1>2. /\ Incremented(c).lo = (c.lo + 1) % WordSize
      /\ c.lo = Ones => Incremented(c).hi = (c.hi + 1) % WordSize
      /\ c.lo # Ones => Incremented(c).hi = c.hi
  BY DEF Incremented
<1>3. CASE c.lo # Ones
  <2>1. Incremented(c).lo = c.lo + 1 /\ Incremented(c).hi = c.hi
    BY <1>1, <1>2, <1>3, NextWord
  <2>2. AtLeast(Incremented(c), d)
    BY <1>1, <2>1 DEF AtLeast
  <2> QED BY <2>2
<1>4. CASE c.lo = Ones /\ c.hi # Ones
  <2>1. Incremented(c).hi = c.hi + 1
    BY <1>1, <1>2, <1>4, NextWord
  <2>2. AtLeast(Incremented(c), d)
    BY <1>1, <2>1 DEF AtLeast
  <2> QED BY <2>2
<1>5. CASE c.lo = Ones /\ c.hi = Ones
  <2>1. (c.lo + 1) % WordSize = 0 /\ (c.hi + 1) % WordSize = 0
    BY <1>1, <1>5, NextWord
  <2> QED BY <1>5, <2>1 DEF Incremented, Zero
<1> QED BY <1>3, <1>4, <1>5

-----------------------------------------------------------------------------
(* The UART                                                                *)

\* A character typed is the last to arrive.
LEMMA TypedUart ==
  ASSUME NEW Key, NEW u \in Uarts(Key), NEW key \in Key
  PROVE  /\ Typed(u, key) \in Uarts(Key)
         /\ Waiting(Typed(u, key)) = Append(Waiting(u), key)
<1>r. u \in [full : BOOLEAN, held : Key \cup {NoKey}, host : Seq(Key)]
  BY DEF Uarts
<1>1. u.host \in Seq(Key) /\ (u.full => u.held \in Key)
  BY DEF Uarts
<1>2. Append(u.host, key) \in Seq(Key)
  BY <1>1
<1>3. Typed(u, key) \in Uarts(Key)
  BY <1>r, <1>1, <1>2 DEF Uarts, Typed
<1>4. Waiting(Typed(u, key)) = Append(Waiting(u), key)
  <2>1. /\ Typed(u, key).full = u.full /\ Typed(u, key).held = u.held
        /\ Typed(u, key).host = Append(u.host, key)
    BY <1>r DEF Typed
  <2>2. CASE u.full
    BY <1>1, <2>1, <2>2 DEF Waiting
  <2>3. CASE ~u.full
    BY <1>1, <2>1, <2>3 DEF Waiting
  <2> QED BY <2>2, <2>3
<1> QED BY <1>3, <1>4

\* Polling hands a character over; it neither drops nor reorders any.
LEMMA PolledUart ==
  ASSUME NEW Key, NEW u \in Uarts(Key)
  PROVE  /\ Polled(u) \in Uarts(Key)
         /\ Waiting(Polled(u)) = Waiting(u)
         /\ Waiting(u) \in Seq(Key)
<1>1. u.host \in Seq(Key) /\ (u.full => u.held \in Key) /\ u.full \in BOOLEAN
  BY DEF Uarts
<1>0. Waiting(u) \in Seq(Key)
  <2>1. CASE u.full
    BY <1>1, <2>1 DEF Waiting
  <2>2. CASE ~u.full
    BY <1>1, <2>2 DEF Waiting
  <2> QED BY <1>1, <2>1, <2>2
<1>2. CASE u.full \/ u.host = <<>>
  BY <1>0, <1>2, Zenon DEF Polled
<1>3. CASE ~u.full /\ u.host # <<>>
  <2>1. Head(u.host) \in Key /\ Tail(u.host) \in Seq(Key)
    BY <1>1, <1>3
  <2>2. Polled(u) = [full |-> TRUE, held |-> Head(u.host), host |-> Tail(u.host)]
    BY <1>3 DEF Polled
  <2>3. <<Head(u.host)>> \o Tail(u.host) = u.host
    BY <1>1, <1>3
  <2>4. Waiting(u) = u.host
    BY <1>1, <1>3 DEF Waiting
  <2>5. Waiting(Polled(u)) = <<Head(u.host)>> \o Tail(u.host)
    BY <2>2 DEF Waiting
  <2>6. Polled(u) \in Uarts(Key)
    BY <2>1, <2>2 DEF Uarts
  <2> QED BY <1>1, <2>3, <2>4, <2>5, <2>6
<1> QED BY <1>2, <1>3

\* Taking the character held takes the oldest.
LEMMA TakenUart ==
  ASSUME NEW Key, NEW u \in Uarts(Key)
  PROVE  /\ DataTaken(u) \in Uarts(Key)
         /\ u.full => u.held \in Key /\ Waiting(u) = <<u.held>> \o Waiting(DataTaken(u))
         /\ ~u.full => DataTaken(u) = u
<1>r. u \in [full : BOOLEAN, held : Key \cup {NoKey}, host : Seq(Key)]
  BY DEF Uarts
<1>1. u.host \in Seq(Key) /\ (u.full => u.held \in Key) /\ u.full \in BOOLEAN
  BY DEF Uarts
<1>2. DataTaken(u).full = FALSE /\ DataTaken(u).host = u.host
  BY <1>r DEF DataTaken
<1>3. DataTaken(u) \in Uarts(Key)
  BY <1>r DEF DataTaken, Uarts
<1>4. Waiting(DataTaken(u)) = u.host
  <2>1. Waiting(DataTaken(u)) = <<>> \o u.host
    BY <1>2, Zenon DEF Waiting
  <2>2. <<>> \o u.host = u.host
    BY <1>1
  <2> QED BY <2>1, <2>2
<1>5. u.full => Waiting(u) = <<u.held>> \o u.host
  BY DEF Waiting
<1>6. ASSUME ~u.full PROVE DataTaken(u) = u
  <2>1. u.full = FALSE
    BY <1>r, <1>6, Zenon
  <2> QED BY <1>r, <2>1 DEF DataTaken
<1> QED BY <1>1, <1>3, <1>4, <1>5, <1>6

\* A character typed comes after all that were.
LEMMA TypedDelivered ==
  ASSUME NEW Key, NEW u \in Uarts(Key), NEW d \in Seq(Key), NEW key \in Key
  PROVE  Append(d \o Waiting(u), key) = d \o Waiting(Typed(u, key))
<1> DEFINE w == Waiting(u)
<1>1. w \in Seq(Key)
  BY PolledUart
<1> HIDE DEF w
<1>2. Append(d \o w, key) = d \o Append(w, key)
  BY <1>1
<1> QED BY <1>2, TypedUart DEF w

\* A character read leaves the rest to come.
LEMMA TakenDelivered ==
  ASSUME NEW Key, NEW u \in Uarts(Key), NEW d \in Seq(Key), u.full
  PROVE  d \o Waiting(u) = Append(d, u.held) \o Waiting(DataTaken(u))
<1> DEFINE w == Waiting(DataTaken(u))
           h == u.held
<1>1. w \in Seq(Key) /\ h \in Key /\ Waiting(u) = <<h>> \o w
  BY TakenUart, PolledUart
<1> HIDE DEF w, h
<1>2. d \o (<<h>> \o w) = Append(d, h) \o w
  BY <1>1
<1> QED BY <1>1, <1>2 DEF w, h
=============================================================================
