--------------------------- MODULE ProxyFlowProofs ---------------------------
(***************************************************************************)
(* HttpDataFlow and Socks5DataFlow: one thing is awaited at every step of  *)
(* the negotiation with the proxy, the replies are understood however they *)
(* are split into reads, and Connect keeps the promise of Answers.         *)
(***************************************************************************)
EXTENDS ProxyFlow, SequenceTheorems, WellFoundedInduction, TcpSocketProofs

-----------------------------------------------------------------------------
(* The inductive invariant.                                                *)

\* q is what s has from a to b.
Part(q, s, a, b) == /\ a <= b /\ b <= Len(s)
                    /\ Len(q) = b - a
                    /\ \A i \in 1..b - a : q[i] = s[a + i]

Text == IF kind = "http" THEN Token ELSE Byte

Reader == [buf : Seq(Byte), want : Nat, posted : CallbackStates, out : Seq(Byte)]

ProxyTypes == TypeOK /\ sent \in Seq(Text) /\ got \in Seq(Text) /\ reader \in Reader

\* The replies as far as they have been looked at.
MethodRight == taken >= 2 /\ sent[1] = 5 /\ sent[2] = 0
HeadRight == /\ MethodRight /\ taken >= 7
             /\ sent[3] = 5 /\ sent[4] = 0 /\ sent[5] = 0 /\ sent[6] \in {1, 3, 4}
TailLen == IF sent[6] = 1 THEN 5 ELSE IF sent[6] = 3 THEN sent[7] + 2 ELSE 17

\* Where a reader is that was asked for the k bytes after the first c, when b
\* have been read.
Looks(r, c, k, b) ==
  \/ r.posted = "waiting" /\ Part(r.out, sent, c, c + k) /\ Part(r.buf, sent, c + k, b)
  \/ r.posted = "none" /\ r.want = k /\ Part(r.buf, sent, c, b)

\* It reads unless it has enough.
Reads(c, k) == /\ kind = "socks5" /\ Looks(reader, c, k, taken)
               /\ Doing(sock, IF reader.posted = "none" THEN "Read" ELSE "-")

Writes == Doing(sock, "Write") /\ reader.posted = "none"

NothingRead == reader.posted = "none" /\ reader.buf = <<>> /\ taken = 0

\* The assertions that can fail.
Flaws == IF kind = "socks5" THEN {"flow.IsReadable"} ELSE {"rewriter.OnMessageBegin"}

\* What a step waits for, and what has been read and found right before it.
Working ==
  /\ step = "connecting" => At(sock, "Establishing", "Connect") /\ NothingRead
  /\ step = "greeting" => Writes /\ NothingRead
  /\ step = "response" => kind = "http" /\ Doing(sock, "Read") /\ reader.posted = "none"
  /\ step = "method" => Reads(0, 2)
  /\ step = "requesting" =>
       kind = "socks5" /\ Writes /\ MethodRight /\ Part(reader.buf, sent, 2, taken)
  /\ step = "head" => Reads(2, 5) /\ MethodRight
  /\ step = "tail" => Reads(7, TailLen) /\ HeadRight
  /\ step = "ended" => canceled /\ Silenced(sock) /\ reader.posted = "none"

\* A flow that is connected is read from, or has been read to its end.
Connects == /\ reader.posted = "none"
            /\ \/ Doing(sock, "-") \/ Doing(sock, "Read")
               \/ Silenced(sock) /\ sock.fsm.state # "Established"

Control ==
  /\ step = "new" <=> answer = "none"
  /\ answer \in {"ok", "error"} => step = "ended"
  /\ answer # "ok" => got = <<>>
  /\ fsm.state = CASE answer = "none"  -> "Init"
                   [] answer = "due"   -> "Establishing"
                   [] answer = "error" -> "Closed"
                   [] answer = "ok"    -> IF kind = "http" THEN "Established"
                                                           ELSE "Establishing"
  /\ ~alive => canceled /\ Silenced(sock) /\ reader.posted # "waiting"
  /\ alive => /\ canceled => answer = "due"
              /\ answer = "none" => At(sock, "Init", "-") /\ NothingRead
              /\ answer = "due" => Working
              /\ answer = "error" => Silenced(sock) /\ reader.posted = "none"
              /\ answer = "ok" => Connects
  /\ failed \subseteq Flaws

\* What has been read behind the first l is in got.
GotSince(l) == l + Len(got) = taken /\ Part(got, sent, l, taken)

\* What HttpDataFlow had read when it said that it is connected.
Accepted(m) == Complete(m) /\ ~Refused(m) /\ Success(m)

HttpAccepted == \E m \in 1..taken : Accepted(m) /\ GotSince(m)

Socks5Accepted == HeadRight /\ taken >= 7 + TailLen /\ GotSince(7 + TailLen)

Answered ==
  /\ answer = "ok" => IF kind = "http" THEN HttpAccepted ELSE Socks5Accepted
  /\ answer = "error" => fin \/ reset \/ ~Reply.good \/ taken > Reply.len

IInv == ProxyTypes /\ Control /\ Answered

-----------------------------------------------------------------------------
(* Parts of a sequence.                                                    *)

LEMMA PartEmpty ==
  ASSUME NEW S, NEW s \in Seq(S), NEW a \in Nat, a <= Len(s)
  PROVE  <<>> \in Seq(S) /\ Part(<<>>, s, a, a)
<1>1. <<>> \in Seq(S) /\ Len(<<>>) = 0 /\ Len(s) \in Nat
  BY EmptySeq, LenProperties
<1>2. a - a = 0 /\ a <= a /\ 1..0 = {}
  OBVIOUS
<1> QED
  BY <1>1, <1>2 DEF Part

\* What has been read, and what is read next.
LEMMA PartMore ==
  ASSUME NEW S, NEW s \in Seq(S), NEW q \in Seq(S), NEW a \in Nat, NEW b \in Nat,
         Part(q, s, a, b), NEW n \in Nat, b <= n, n <= Len(s)
  PROVE  /\ SubSeq(s, b + 1, n) \in Seq(S)
         /\ q \o SubSeq(s, b + 1, n) \in Seq(S)
         /\ Part(q \o SubSeq(s, b + 1, n), s, a, n)
<1> DEFINE t == SubSeq(s, b + 1, n)
<1>1. /\ Len(s) \in Nat /\ \A i \in 1..Len(s) : s[i] \in S
      /\ a <= b /\ Len(q) = b - a /\ \A i \in 1..b - a : q[i] = s[a + i]
  BY LenProperties, ElementOfSeq DEF Part
<1>2. /\ t \in Seq(S) /\ Len(t) = n - b
      /\ \A i \in 1..n - b : t[i] = s[b + i]
  <2>1. \A i \in b + 1..n : s[i] \in S
    BY <1>1
  <2>2. /\ t \in Seq(S)
        /\ Len(t) = IF b + 1 <= n THEN n - (b + 1) + 1 ELSE 0
        /\ \A i \in 1..n - (b + 1) + 1 : t[i] = s[b + 1 + i - 1]
    BY <2>1, SubSeqProperties
  <2>3. n - (b + 1) + 1 = n - b /\ \A i \in 1..n - b : b + 1 + i - 1 = b + i
    OBVIOUS
  <2> QED
    BY <2>2, <2>3
<1> HIDE DEF t
<1>3. /\ q \o t \in Seq(S) /\ Len(q \o t) = Len(q) + Len(t)
      /\ \A i \in 1..Len(q) + Len(t) :
           (q \o t)[i] = IF i <= Len(q) THEN q[i] ELSE t[i - Len(q)]
  BY <1>2, ConcatProperties
<1>4. ASSUME NEW i \in 1..n - a PROVE (q \o t)[i] = s[a + i]
  <2>1. i \in 1..Len(q) + Len(t)
    BY <1>1, <1>2
  <2>2. CASE i <= b - a
    <3>1. i \in 1..b - a
      BY <1>1, <2>2
    <3> QED
      BY <1>1, <1>3, <2>1, <2>2, <3>1
  <2>3. CASE ~(i <= b - a)
    <3>1. i - (b - a) \in 1..n - b /\ b + (i - (b - a)) = a + i
      BY <1>1, <2>3
    <3>2. (q \o t)[i] = t[i - (b - a)]
      BY <1>1, <1>3, <2>1, <2>3
    <3> QED
      BY <1>2, <3>1, <3>2
  <2> QED
    BY <2>2, <2>3
<1>5. a <= n /\ Len(q \o t) = n - a
  BY <1>1, <1>2, <1>3
<1> QED
  BY <1>2, <1>3, <1>4, <1>5 DEF Part, t

\* A part in two.
LEMMA PartSplit ==
  ASSUME NEW S, NEW s \in Seq(S), NEW q \in Seq(S), NEW a \in Nat, NEW b \in Nat,
         Part(q, s, a, b), NEW k \in Nat, a + k <= b
  PROVE  /\ SubSeq(q, 1, k) \in Seq(S) /\ Part(SubSeq(q, 1, k), s, a, a + k)
         /\ SubSeq(q, k + 1, Len(q)) \in Seq(S)
         /\ Part(SubSeq(q, k + 1, Len(q)), s, a + k, b)
<1> DEFINE t == SubSeq(q, 1, k)
           u == SubSeq(q, k + 1, Len(q))
<1>1. /\ Len(s) \in Nat /\ Len(q) \in Nat /\ \A i \in 1..Len(q) : q[i] \in S
      /\ a <= b /\ b <= Len(s)
      /\ Len(q) = b - a /\ \A i \in 1..b - a : q[i] = s[a + i]
  BY LenProperties, ElementOfSeq DEF Part
<1>2. t \in Seq(S) /\ Len(t) = k /\ \A i \in 1..k : t[i] = q[i]
  <2>1. \A i \in 1..k : q[i] \in S
    BY <1>1
  <2>2. /\ t \in Seq(S) /\ Len(t) = IF 1 <= k THEN k - 1 + 1 ELSE 0
        /\ \A i \in 1..k - 1 + 1 : t[i] = q[1 + i - 1]
    BY <2>1, SubSeqProperties
  <2>3. k - 1 + 1 = k /\ \A i \in 1..k : 1 + i - 1 = i
    OBVIOUS
  <2> QED
    BY <2>2, <2>3
<1>3. /\ u \in Seq(S) /\ Len(u) = Len(q) - k
      /\ \A i \in 1..Len(q) - k : u[i] = q[k + i]
  <2>1. \A i \in k + 1..Len(q) : q[i] \in S
    BY <1>1
  <2>2. /\ u \in Seq(S) /\ Len(u) = IF k + 1 <= Len(q) THEN Len(q) - (k + 1) + 1 ELSE 0
        /\ \A i \in 1..Len(q) - (k + 1) + 1 : u[i] = q[k + 1 + i - 1]
    BY <1>1, <2>1, SubSeqProperties
  <2>3. /\ Len(q) - (k + 1) + 1 = Len(q) - k
        /\ \A i \in 1..Len(q) - k : k + 1 + i - 1 = k + i
    BY <1>1
  <2> QED
    BY <1>1, <2>2, <2>3
<1> HIDE DEF t, u
<1>4. Part(t, s, a, a + k)
  <2>1. \A i \in 1..k : t[i] = s[a + i]
    BY <1>1, <1>2
  <2> QED
    BY <1>1, <1>2, <2>1 DEF Part
<1>5. Part(u, s, a + k, b)
  <2>1. ASSUME NEW i \in 1..b - (a + k) PROVE u[i] = s[(a + k) + i]
    <3>1. i \in 1..Len(q) - k /\ k + i \in 1..b - a /\ a + (k + i) = (a + k) + i
      BY <1>1
    <3> QED
      BY <1>1, <1>3, <3>1
  <2> QED
    BY <1>1, <1>3, <2>1 DEF Part
<1> QED
  BY <1>2, <1>3, <1>4, <1>5 DEF t, u

\* A sequence cut short behind a part.
LEMMA Cut ==
  ASSUME NEW S, NEW s \in Seq(S), NEW n \in Nat, n <= Len(s)
  PROVE  /\ SubSeq(s, 1, n) \in Seq(S) /\ Len(SubSeq(s, 1, n)) = n
         /\ \A i \in 1..n : SubSeq(s, 1, n)[i] = s[i]
<1>1. Len(s) \in Nat /\ \A i \in 1..n : s[i] \in S
  BY LenProperties, ElementOfSeq
<1>2. /\ SubSeq(s, 1, n) \in Seq(S) /\ Len(SubSeq(s, 1, n)) = IF 1 <= n THEN n - 1 + 1 ELSE 0
      /\ \A i \in 1..n - 1 + 1 : SubSeq(s, 1, n)[i] = s[1 + i - 1]
  BY <1>1, SubSeqProperties
<1>3. n - 1 + 1 = n /\ \A i \in 1..n : 1 + i - 1 = i
  OBVIOUS
<1> QED
  BY <1>2, <1>3

LEMMA PartCut ==
  ASSUME NEW q, NEW s, NEW t, NEW a \in Nat, NEW b \in Nat, NEW n \in Nat, b <= n,
         Len(t) = n, \A i \in 1..n : t[i] = s[i], Part(q, s, a, b)
  PROVE  Part(q, t, a, b)
<1>1. \A i \in 1..b - a : a + i \in 1..n
  OBVIOUS
<1> QED
  BY <1>1 DEF Part

\* A part is what it says.
LEMMA PartIs ==
  ASSUME NEW S, NEW s \in Seq(S), NEW q \in Seq(S), NEW a \in Nat, NEW b \in Nat,
         Part(q, s, a, b)
  PROVE  q = SubSeq(s, a + 1, b)
<1>1. <<>> \in Seq(S) /\ Part(<<>>, s, a, a)
  BY PartEmpty, LenProperties DEF Part
<1>2. /\ SubSeq(s, a + 1, b) \in Seq(S)
      /\ <<>> \o SubSeq(s, a + 1, b) = SubSeq(s, a + 1, b)
      /\ Part(<<>> \o SubSeq(s, a + 1, b), s, a, b)
  <2>1. a <= b /\ b <= Len(s)
    BY DEF Part
  <2>2. /\ SubSeq(s, a + 1, b) \in Seq(S)
        /\ Part(<<>> \o SubSeq(s, a + 1, b), s, a, b)
    BY <1>1, <2>1, PartMore
  <2> QED
    BY <2>2, ConcatEmptySeq
<1> DEFINE t == SubSeq(s, a + 1, b)
<1>3. t \in Seq(S) /\ Part(t, s, a, b)
  BY <1>2
<1> HIDE DEF t
<1>4. Len(t) = Len(q) /\ Len(q) = b - a /\ \A i \in 1..b - a : q[i] = t[i]
  BY <1>3 DEF Part
<1>5. \A i \in 1..Len(q) : q[i] = t[i]
  BY <1>4
<1>6. q = t
  BY <1>3, <1>4, <1>5, SeqEqual
<1> QED
  BY <1>6 DEF t

-----------------------------------------------------------------------------
(* The reader.                                                             *)

LEMMA DoReads ==
  ASSUME sent \in Seq(Byte), NEW r \in Reader, r.posted = "none",
         NEW c \in Nat, NEW b \in Nat, Part(r.buf, sent, c, b)
  PROVE  DoReadLength(r) \in Reader /\ Looks(DoReadLength(r), c, r.want, b)
<1>1. r.buf \in Seq(Byte) /\ r.want \in Nat /\ Len(r.buf) \in Nat /\ Len(r.buf) = b - c
  BY LenProperties DEF Reader, Part
<1>2. CASE r.want <= Len(r.buf)
  <2>1. c + r.want <= b
    BY <1>1, <1>2
  <2>2. /\ SubSeq(r.buf, 1, r.want) \in Seq(Byte)
        /\ Part(SubSeq(r.buf, 1, r.want), sent, c, c + r.want)
        /\ SubSeq(r.buf, r.want + 1, Len(r.buf)) \in Seq(Byte)
        /\ Part(SubSeq(r.buf, r.want + 1, Len(r.buf)), sent, c + r.want, b)
    BY <1>1, <2>1, PartSplit
  <2>3. DoReadLength(r) = [r EXCEPT !.out = SubSeq(r.buf, 1, r.want), !.posted = "waiting",
                                    !.buf = SubSeq(r.buf, r.want + 1, Len(r.buf))]
    BY <1>1, <1>2 DEF DoReadLength, Handed
  <2> QED
    BY <2>2, <2>3 DEF Reader, Looks, CallbackStates
<1>3. CASE ~(r.want <= Len(r.buf))
  <2>1. DoReadLength(r) = r
    BY <1>1, <1>3 DEF DoReadLength
  <2> QED
    BY <2>1 DEF Looks
<1> QED
  BY <1>2, <1>3

LEMMA ReaderAsked ==
  ASSUME sent \in Seq(Byte), NEW r \in Reader, r.posted = "none",
         NEW c \in Nat, NEW b \in Nat, Part(r.buf, sent, c, b), NEW k \in Nat
  PROVE  ReadToLength(r, k) \in Reader /\ Looks(ReadToLength(r, k), c, k, b)
<1> DEFINE q == [r EXCEPT !.want = k]
<1>1. q \in Reader /\ q.posted = "none" /\ q.buf = r.buf /\ q.want = k
  BY DEF Reader
<1> HIDE DEF q
<1>2. DoReadLength(q) \in Reader /\ Looks(DoReadLength(q), c, k, b)
  BY <1>1, DoReads
<1> QED
  BY <1>2 DEF ReadToLength, q

LEMMA ReaderGets ==
  ASSUME sent \in Seq(Byte), NEW r \in Reader, r.posted = "none",
         NEW c \in Nat, NEW b \in Nat, Part(r.buf, sent, c, b),
         NEW n \in Nat, b <= n, n <= Len(sent)
  PROVE  /\ ArrivedForLength(r, SubSeq(sent, b + 1, n)) \in Reader
         /\ Looks(ArrivedForLength(r, SubSeq(sent, b + 1, n)), c, r.want, n)
<1> DEFINE t == SubSeq(sent, b + 1, n)
           q == [r EXCEPT !.buf = @ \o t]
<1>1. r.buf \in Seq(Byte)
  BY DEF Reader
<1>2. r.buf \o t \in Seq(Byte) /\ Part(r.buf \o t, sent, c, n)
  BY <1>1, PartMore
<1>3. q \in Reader /\ q.posted = "none" /\ q.buf = r.buf \o t /\ q.want = r.want
  BY <1>2 DEF Reader
<1> HIDE DEF q
<1>4. DoReadLength(q) \in Reader /\ Looks(DoReadLength(q), c, r.want, n)
  BY <1>2, <1>3, DoReads
<1> QED
  BY <1>4 DEF ArrivedForLength, q

LEMMA ReaderParts ==
  ASSUME NEW r \in Reader
  PROVE  /\ r.buf \in Seq(Byte) /\ r.out \in Seq(Byte)
         /\ Delivered(r) \in Reader /\ Delivered(r).posted = "none" /\ Delivered(r).buf = r.buf
         /\ ConsumeRemainData(r) \in Reader /\ ConsumeRemainData(r).posted = r.posted
         /\ CancelReader(r) \in Reader /\ CancelReader(r).posted # "waiting"
<1>1. <<>> \in Seq(Byte)
  BY EmptySeq
<1> QED
  BY <1>1 DEF Reader, Delivered, ConsumeRemainData, CancelReader, CallbackStates

-----------------------------------------------------------------------------
(* What the replies are.                                                   *)

\* A set of numbers has a least one.
LEMMA Least ==
  ASSUME NEW S \in SUBSET Nat, NEW n \in S
  PROVE  \E m \in S : \A k \in S : m <= k
<1> DEFINE R == OpToRel(<, Nat)
<1>1. IsWellFoundedOn(R, Nat)
  BY NatLessThanWellFounded
<1>2. \A j, k \in Nat : <<j, k>> \in R <=> j < k
  BY DEF OpToRel
<1> HIDE DEF R
<1>3. PICK m \in S : \A k \in S : <<k, m>> \notin R
  BY <1>1, WFMin
<1>4. \A k \in S : ~(k < m) /\ k \in Nat /\ m \in Nat
  BY <1>2, <1>3
<1> QED
  BY <1>3, <1>4

\* A reply that is complete ends with its first empty line.
LEMMA HttpReply ==
  ASSUME kind = "http", NEW m \in 1..Len(sent), Len(sent) \in Nat, Complete(m)
  PROVE  /\ Reply.len \in 1..m /\ Complete(Reply.len)
         /\ Reply.good <=> ~Refused(Reply.len) /\ Success(Reply.len)
<1> DEFINE S == {e \in 1..m : Ends(e)}
           First(e) == e \in 1..Len(sent) /\ Ends(e) /\ \A i \in 1..e - 1 : ~Ends(i)
<1>1. S \in SUBSET Nat /\ \E n \in S : TRUE
  BY DEF Complete
<1>2. PICK e \in S : \A k \in S : e <= k
  BY <1>1, Least
<1>3. First(e)
  BY <1>2
<1>4. First(FirstEnd)
  BY <1>3 DEF FirstEnd
<1> HIDE DEF FirstEnd
<1>5. FirstEnd \in 1..m
  BY <1>2, <1>4
<1>6. Complete(Len(sent)) /\ Complete(FirstEnd)
  BY <1>2, <1>4 DEF Complete
<1>7. Reply.len = FirstEnd /\ Reply.good = (~Refused(FirstEnd) /\ Success(FirstEnd))
  BY <1>6 DEF Reply
<1> QED
  BY <1>5, <1>6, <1>7

LEMMA HttpNoReply ==
  ASSUME kind = "http", ~Complete(Len(sent))
  PROVE  ~Reply.good
  BY DEF Reply

\* A SOCKS5 reply that was found right so far is.
LEMMA Socks5Reply ==
  ASSUME kind = "socks5", sent \in Seq(Byte)
  PROVE  /\ Reply.good => /\ Len(sent) >= 7 /\ sent[1] = 5 /\ sent[2] = 0
                          /\ sent[3] = 5 /\ sent[4] = 0 /\ sent[5] = 0
                          /\ sent[6] \in {1, 3, 4}
         /\ Len(sent) >= 7 /\ sent[6] \in {1, 3, 4} => Reply.len = 7 + TailLen
         /\ Len(sent) >= 7 /\ HeadRight /\ Len(sent) >= 7 + TailLen => Reply.good
<1> DEFINE addr == CASE sent[6] = 1 -> 4
                     [] sent[6] = 3 -> 1 + sent[7]
                     [] sent[6] = 4 -> 16
           whole == 6 + addr + 2
           start == SubSeq(sent, 1, 5)
<1>1. Len(sent) \in Nat /\ \A i \in 1..Len(sent) : sent[i] \in Byte
  BY LenProperties, ElementOfSeq
<1>2. CASE Len(sent) < 7 \/ sent[6] \notin {1, 3, 4}
  <2>1. Reply = [good |-> FALSE, len |-> 0]
    BY <1>2 DEF Reply
  <2>2. ~(Len(sent) >= 7 /\ sent[6] \in {1, 3, 4})
    BY <1>1, <1>2
  <2> QED
    BY <2>1, <2>2 DEF HeadRight
<1>3. CASE Len(sent) >= 7 /\ sent[6] \in {1, 3, 4}
  <2>1. Reply = [good |-> start = <<5, 0, 5, 0, 0>> /\ Len(sent) >= whole, len |-> whole]
    BY <1>1, <1>3 DEF Reply
  <2>2. start \in Seq(Byte) /\ Len(start) = 5 /\ \A i \in 1..5 : start[i] = sent[i]
    BY <1>1, <1>3, Cut
  <2> HIDE DEF start
  <2>3. sent[7] \in Nat
    <3>1. sent[7] \in Byte /\ \A b \in Byte : b \in Nat
      BY <1>1, <1>3 DEF Byte
    <3> QED
      BY <3>1
  <2>4. whole = 7 + TailLen
    BY <1>3, <2>3 DEF TailLen
  <2> HIDE DEF whole
  <2>5. start = <<5, 0, 5, 0, 0>> =>
          sent[1] = 5 /\ sent[2] = 0 /\ sent[3] = 5 /\ sent[4] = 0 /\ sent[5] = 0
    BY <2>2
  <2>6. HeadRight => start = <<5, 0, 5, 0, 0>>
    <3>1. /\ <<5, 0, 5, 0, 0>> \in Seq(Byte) /\ Len(<<5, 0, 5, 0, 0>>) = 5
      BY DEF Byte
    <3>2. HeadRight => \A i \in 1..5 : start[i] = <<5, 0, 5, 0, 0>>[i]
      BY <2>2 DEF HeadRight, MethodRight
    <3> QED
      BY <2>2, <3>1, <3>2, SeqEqual
  <2> QED
    BY <1>3, <2>1, <2>4, <2>5, <2>6
<1> QED
  BY <1>1, <1>2, <1>3

\* The parser is where the first tokens have brought it, whatever comes behind.
LEMMA Prefix ==
  ASSUME NEW n \in Nat, \A i \in 1..n : sent'[i] = sent[i]
  PROVE  /\ \A i \in 0..n : InHeader(i)' <=> InHeader(i)
         /\ \A i \in 1..n : Accepted(i)' <=> Accepted(i)
<1>1. ASSUME NEW i \in 0..n
      PROVE  InHeader(i)' <=> InHeader(i)
  <2>1. \A j \in 1..i : sent'[j] = sent[j] /\ \A k \in j + 1..i : sent'[k] = sent[k]
    OBVIOUS
  <2> QED
    BY <2>1 DEF InHeader
<1>2. ASSUME NEW i \in 0..n
      PROVE  Dead(i)' <=> Dead(i)
  <2>1. \A j \in 1..i : sent'[j] = sent[j]
    OBVIOUS
  <2> QED
    BY <1>1, <2>1 DEF Dead
<1>3. ASSUME NEW i \in 1..n
      PROVE  (Fits(i)' <=> Fits(i)) /\ (Ends(i)' <=> Ends(i))
  <2>1. i - 1 \in 0..n /\ (i > 1 => i - 1 \in 1..n) /\ sent'[i] = sent[i]
    OBVIOUS
  <2>2. (InHeader(i - 1)' <=> InHeader(i - 1)) /\ (Dead(i - 1)' <=> Dead(i - 1))
    BY <1>1, <1>2, <2>1
  <2>3. i > 1 => sent'[i - 1] = sent[i - 1]
    BY <2>1
  <2> QED
    BY <2>1, <2>2, <2>3 DEF Fits, Ends
<1>4. ASSUME NEW i \in 1..n
      PROVE  Accepted(i)' <=> Accepted(i)
  <2>1. \A j \in 1..i : j \in 1..n
    OBVIOUS
  <2>2. (Complete(i)' <=> Complete(i)) /\ (Refused(i)' <=> Refused(i))
    BY <1>3, <2>1 DEF Complete, Refused
  <2>3. \A j \in 1..i - 1 :
          sent'[j] = sent[j] /\ \A k \in j + 1..i - 1 : sent'[k] = sent[k]
    OBVIOUS
  <2>4. Success(i)' <=> Success(i)
    BY <2>3 DEF Success
  <2> QED
    BY <2>2, <2>4 DEF Accepted
<1> QED
  BY <1>1, <1>4

\* The reply is what was sent.
LEMMA SameReply ==
  ASSUME UNCHANGED <<kind, sent>>
  PROVE  /\ Reply' = Reply /\ TailLen' = TailLen
         /\ \A i : (Accepted(i)' <=> Accepted(i)) /\ (InHeader(i)' <=> InHeader(i))
<1>1. \A i : InHeader(i)' <=> InHeader(i)
  BY DEF InHeader
<1>2. \A i : Dead(i)' <=> Dead(i)
  BY <1>1 DEF Dead
<1>3. \A i : (Fits(i)' <=> Fits(i)) /\ (Ends(i)' <=> Ends(i))
  BY <1>1, <1>2 DEF Fits, Ends
<1>4. \A i : /\ Complete(i)' <=> Complete(i)
             /\ Refused(i)' <=> Refused(i)
             /\ Success(i)' <=> Success(i)
  BY <1>3 DEF Complete, Refused, Success
<1>5. Reply' = Reply
  BY DEF Reply, FirstEnd, Complete, Refused, Success, Fits, Ends, Dead, InHeader
<1> QED
  BY <1>1, <1>4, <1>5 DEF Accepted, TailLen

-----------------------------------------------------------------------------
(* A step of the negotiation, by how it ends.                              *)

\* What all have in common.
LEMMA StepOn ==
  ASSUME IInv, alive, answer = "due", UNCHANGED unlessStep, failed' = failed \/ failed' \subseteq Flaws,
         step' \in Steps \ {"new"}, fsm' \in Flow, sock' \in Socket, reader' \in Reader,
         taken' \in 0..Len(sent),
         \/ answer' = "due" /\ fsm'.state = "Establishing" /\ Working'
         \/ /\ answer' = "error" /\ ~canceled /\ step' = "ended" /\ fsm'.state = "Closed"
            /\ Silenced(sock') /\ reader'.posted = "none"
            /\ fin \/ reset \/ ~Reply.good \/ taken' > Reply.len
         \/ /\ answer' = "ok" /\ ~canceled /\ step' = "ended" /\ reader'.posted = "none"
            /\ fsm'.state = IF kind = "http" THEN "Established" ELSE "Establishing"
            /\ Doing(sock', "-")
            /\ IF kind = "http" THEN HttpAccepted' ELSE Socks5Accepted'
  PROVE  IInv'
<1>1. UNCHANGED <<kind, canceled, alive, sent, got, fin, reset>> /\ got = <<>>
  BY DEF unlessStep, peerVars, IInv, Control
<1>2. Text' = Text /\ Reply' = Reply /\ Flaws' = Flaws
  BY <1>1, SameReply DEF Text, Flaws
<1>3. ProxyTypes'
  BY <1>1, <1>2 DEF IInv, ProxyTypes, TypeOK, Reader
<1>5. Control'
  <2>1. /\ step' # "new" /\ answer' # "none"
        /\ answer' \in {"ok", "error"} => step' = "ended"
    OBVIOUS
  <2>2. (fsm.state = CASE answer = "none"  -> "Init"
                       [] answer = "due"   -> "Establishing"
                       [] answer = "error" -> "Closed"
                       [] answer = "ok"    -> IF kind = "http" THEN "Established"
                                                               ELSE "Establishing")'
    BY <1>1
  <2>3. alive' /\ (canceled' => answer' = "due")
    BY <1>1
  <2>4. failed' \subseteq Flaws'
    BY <1>2 DEF IInv, Control
  <2>5. /\ answer' = "due" => Working'
        /\ answer' = "error" => Silenced(sock') /\ reader'.posted = "none"
        /\ answer' = "ok" => Connects'
    BY DEF Connects
  <2> QED
    BY <1>1, <2>1, <2>2, <2>3, <2>4, <2>5 DEF Control
<1>6. Answered'
  BY <1>1, <1>2 DEF Answered
<1> QED
  BY <1>3, <1>5, <1>6 DEF IInv

LEMMA Machines ==
  ASSUME IInv
  PROVE  /\ fsm \in Flow /\ sock \in Socket /\ reader \in Reader /\ taken \in 0..Len(sent)
         /\ Errored(fsm) \in Flow /\ Errored(fsm).state = "Closed"
         /\ Connected(fsm) \in Flow /\ Connected(fsm).state = "Established"
         /\ ConnectBegin(fsm) \in Flow /\ ConnectBegin(fsm).state = "Establishing"
         /\ Len(sent) \in Nat
<1>1. /\ fsm \in Flow /\ sock \in Socket /\ reader \in Reader /\ taken \in 0..Len(sent)
      /\ Len(sent) \in Nat
  BY LenProperties DEF IInv, ProxyTypes, TypeOK
<1>2. Errored(fsm) \in Flow /\ Connected(fsm) \in Flow /\ ConnectBegin(fsm) \in Flow
  BY <1>1, FlowType
<1> QED
  BY <1>1, <1>2 DEF Errored, Connected, ConnectBegin, Flow

LEMMA TailLenIsNat ==
  ASSUME IInv, kind = "socks5", HeadRight
  PROVE  TailLen \in Nat
<1>1. sent \in Seq(Byte) /\ 7 \in 1..Len(sent)
  BY Machines DEF HeadRight, IInv, ProxyTypes, Text
<1>2. sent[7] \in Byte
  BY <1>1, ElementOfSeq
<1>3. sent[7] \in Nat
  BY <1>2 DEF Byte
<1> QED
  BY <1>3 DEF TailLen

LEMMA GoOnStep ==
  ASSUME IInv, alive, answer = "due", UNCHANGED unlessStep, failed' = failed \/ failed' \subseteq Flaws,
         taken' \in 0..Len(sent), NEW x \in Socket, NEW r \in Reader,
         NEW to \in Steps \ {"new"}, GoOn(x, r, to), Working'
  PROVE  IInv'
<1>1. fsm' \in Flow /\ fsm'.state = "Establishing"
  BY Machines DEF GoOn, IInv, Control
<1> QED
  BY <1>1, StepOn DEF GoOn

LEMMA SilentStep ==
  ASSUME IInv, alive, answer = "due", UNCHANGED unlessStep, failed' = failed \/ failed' \subseteq Flaws,
         taken' \in 0..Len(sent), NEW x \in Socket, NEW r \in Reader,
         canceled, Silenced(x), r.posted = "none", Silent(x, r)
  PROVE  IInv'
<1>1. fsm' \in Flow /\ fsm'.state = "Establishing"
  BY Machines DEF Silent, IInv, Control
<1>2. Working'
  BY DEF Working, Silent, unlessStep
<1>3. step' \in Steps \ {"new"}
  BY DEF Silent, Steps
<1> QED
  BY <1>1, <1>2, <1>3, StepOn DEF Silent

LEMMA RefuseStep ==
  ASSUME IInv, alive, answer = "due", UNCHANGED unlessStep, failed' = failed \/ failed' \subseteq Flaws,
         taken' \in 0..Len(sent), NEW x \in Socket, NEW r \in Reader,
         ~canceled, Silenced(x), r.posted = "none", Refuse(x, r),
         fin \/ reset \/ ~Reply.good \/ taken' > Reply.len
  PROVE  IInv'
<1>1. fsm' \in Flow /\ fsm'.state = "Closed"
  BY Machines DEF Refuse
<1>2. step' \in Steps \ {"new"}
  BY DEF Refuse, Steps
<1> QED
  BY <1>1, <1>2, StepOn DEF Refuse

\* Nothing has been read since the reply.
LEMMA NothingGot ==
  ASSUME got' = <<>>, taken' \in Nat, NEW S, sent' \in Seq(S), taken' <= Len(sent'),
         NEW l \in Nat, l = taken'
  PROVE  GotSince(l)'
<1>1. Len(got') = 0 /\ Part(got', sent', taken', taken')
  BY EmptySeq, PartEmpty
<1>2. \A t \in Nat : t + 0 = t
  OBVIOUS
<1> QED
  BY <1>1, <1>2 DEF GotSince

LEMMA AcceptStep ==
  ASSUME IInv, alive, answer = "due", UNCHANGED unlessStep, failed' = failed \/ failed' \subseteq Flaws,
         taken' \in 0..Len(sent), NEW x \in Socket, NEW r \in Reader,
         ~canceled, Doing(x, "-"), r.posted = "none", Accept(x, r),
         \/ kind = "http" /\ \E m \in 1..taken' : m = taken' /\ Accepted(m)
         \/ kind = "socks5" /\ HeadRight' /\ taken' = 7 + TailLen
  PROVE  IInv'
<1>1. /\ fsm' \in Flow
      /\ fsm'.state = IF kind = "http" THEN "Established" ELSE "Establishing"
  BY Machines DEF Accept, IInv, Control
<1>2. step' \in Steps \ {"new"}
  BY DEF Accept, Steps
<1>3. UNCHANGED <<kind, sent>> /\ got' = <<>>
  BY DEF unlessStep, IInv, Control
<1>4. taken' \in Nat /\ taken' <= Len(sent) /\ sent \in Seq(Text)
  BY Machines DEF IInv, ProxyTypes
<1>6. CASE kind = "http"
  <2>1. PICK m \in 1..taken' : m = taken' /\ Accepted(m)
    BY <1>6
  <2>2. m \in Nat /\ GotSince(m)' /\ Accepted(m)'
    BY <1>3, <1>4, <2>1, NothingGot, SameReply
  <2>3. HttpAccepted'
    BY <1>3, <2>1, <2>2 DEF HttpAccepted
  <2> QED
    BY <1>1, <1>2, <1>6, <2>3, StepOn DEF Accept
<1>7. CASE kind = "socks5"
  <2>1. HeadRight' /\ taken' = 7 + TailLen /\ TailLen' = TailLen
    BY <1>3, <1>7 DEF TailLen
  <2>2. GotSince(7 + TailLen)'
    BY <1>3, <1>4, <2>1, NothingGot
  <2>3. Socks5Accepted'
    BY <1>4, <2>1, <2>2 DEF Socks5Accepted
  <2> QED
    BY <1>1, <1>2, <1>7, <2>3, StepOn DEF Accept
<1> QED
  BY <1>6, <1>7

-----------------------------------------------------------------------------
(* Which step of the negotiation waits for what.                           *)

LEMMA Awaited ==
  ASSUME IInv, answer = "due", alive
  PROVE  /\ got = <<>> /\ fsm.state = "Establishing" /\ step \in Steps \ {"new"} /\ Working
         /\ Waiting("Connect") => step = "connecting"
         /\ Waiting("Write") => step \in {"greeting", "requesting"} /\ Writes
         /\ Waiting("Read") => /\ step \in {"response", "method", "head", "tail"}
                               /\ Doing(sock, "Read") /\ reader.posted = "none"
         /\ reader.posted = "waiting" => /\ step \in {"method", "head", "tail"}
                                         /\ Doing(sock, "-")
<1>1. got = <<>> /\ fsm.state = "Establishing" /\ step \in Steps \ {"new"} /\ Working
  BY DEF IInv, Control, ProxyTypes, TypeOK
<1>2. /\ "Connect" \in Ops /\ "Read" \in Ops /\ "Write" \in Ops
      /\ reader.posted \in {"none", "waiting", "canceled"}
  BY DEF Ops, IInv, ProxyTypes, TypeOK, CallbackStates
<1>3. CASE step = "connecting"
  <2>1. At(sock, "Establishing", "Connect") /\ reader.posted = "none"
    BY <1>1, <1>3 DEF Working, NothingRead
  <2> QED
    BY <1>1, <1>2, <1>3, <2>1, AtCallbacks DEF Waiting
<1>4. CASE step \in {"greeting", "requesting"}
  <2>1. Writes
    BY <1>1, <1>4 DEF Working
  <2> QED
    BY <1>1, <1>2, <1>4, <2>1, DoingCallbacks DEF Waiting, Writes
<1>5. CASE step = "response"
  <2>1. Doing(sock, "Read") /\ reader.posted = "none"
    BY <1>1, <1>5 DEF Working
  <2> QED
    BY <1>1, <1>2, <1>5, <2>1, DoingCallbacks DEF Waiting
<1>6. CASE step \in {"method", "head", "tail"}
  <2>1. /\ reader.posted \in {"none", "waiting"}
        /\ Doing(sock, IF reader.posted = "none" THEN "Read" ELSE "-")
    BY <1>1, <1>6 DEF Working, Reads, Looks
  <2>2. CASE reader.posted = "none"
    BY <1>1, <1>2, <1>6, <2>1, <2>2, DoingCallbacks DEF Waiting
  <2>3. CASE reader.posted = "waiting"
    BY <1>1, <1>2, <1>6, <2>1, <2>3, DoingCallbacks DEF Waiting
  <2> QED
    BY <2>1, <2>2, <2>3
<1>7. CASE step = "ended"
  <2>1. Silenced(sock) /\ reader.posted = "none"
    BY <1>1, <1>7 DEF Working
  <2> QED
    BY <1>1, <1>2, <2>1 DEF Waiting, Silenced
<1> QED
  BY <1>1, <1>3, <1>4, <1>5, <1>6, <1>7 DEF Steps

\* Nothing runs of a flow that is gone, and only a negotiation connects.
LEMMA AwaitedBy ==
  ASSUME IInv
  PROVE  /\ (\E op \in Ops : Waiting(op)) \/ reader.posted = "waiting" => alive
         /\ Waiting("Connect") \/ reader.posted = "waiting" => answer = "due"
<1>1. (\E op \in Ops : Waiting(op)) \/ reader.posted = "waiting" => alive
  BY DEF IInv, Control, Silenced, Waiting
<1>2. ASSUME alive, Waiting("Connect") \/ reader.posted = "waiting", answer # "due"
      PROVE  FALSE
  <2>1. answer \in {"none", "error", "ok"} /\ "Connect" \in Ops
    BY <1>2 DEF IInv, ProxyTypes, TypeOK, Ops
  <2>2. CASE answer = "none"
    <3>1. At(sock, "Init", "-") /\ reader.posted = "none"
      BY <1>2, <2>2 DEF IInv, Control, NothingRead
    <3> QED
      BY <1>2, <2>1, <3>1, AtCallbacks DEF Waiting
  <2>3. CASE answer = "error"
    BY <1>2, <2>1, <2>3 DEF IInv, Control, Silenced, Waiting
  <2>4. CASE answer = "ok"
    <3>1. Connects
      BY <1>2, <2>4 DEF IInv, Control
    <3>2. sock.cb["Connect"] # "waiting"
      BY <2>1, <3>1, DoingCallbacks DEF Connects, Silenced
    <3> QED
      BY <1>2, <3>1, <3>2 DEF Connects, Waiting
  <2> QED
    BY <2>1, <2>2, <2>3, <2>4
<1>3. "Connect" \in Ops
  BY DEF Ops
<1> QED
  BY <1>1, <1>2, <1>3

-----------------------------------------------------------------------------
(* The steps of the negotiation.                                           *)

LEMMA ConnectingStep ==
  ASSUME IInv, Connecting
  PROVE  IInv'
<1>1. /\ step = "new" /\ alive /\ answer = "none" /\ At(sock, "Init", "-") /\ NothingRead
      /\ UNCHANGED <<kind, reader, canceled, alive, sent, taken, got, fin, reset>>
      /\ fsm' = ConnectBegin(fsm) /\ sock' = Connect(sock)
      /\ step' = "connecting" /\ answer' = "due"
  BY DEF Connecting, IInv, Control, peerVars
<1>2. failed' = failed
  <2>1. CanConnectBegin(fsm)
    BY <1>1 DEF IInv, Control, CanConnectBegin
  <2> QED
    BY <2>1 DEF Connecting, Assert, Check
<1>3. /\ fsm' \in Flow /\ fsm'.state = "Establishing"
      /\ sock' \in Socket /\ At(sock', "Establishing", "Connect")
  BY <1>1, Machines, ConnectBegins
<1>4. Text' = Text /\ Flaws' = Flaws
  BY <1>1 DEF Text, Flaws
<1>5. ProxyTypes'
  BY <1>1, <1>3, <1>4 DEF IInv, ProxyTypes, TypeOK, Steps, Reader
<1>6. NothingRead'
  BY <1>1 DEF NothingRead
<1>7. Working'
  BY <1>1, <1>3, <1>6 DEF Working
<1>8. Control'
  BY <1>1, <1>2, <1>3, <1>4, <1>7 DEF IInv, Control
<1>9. Answered'
  BY <1>1 DEF IInv, Answered
<1> QED
  BY <1>5, <1>8, <1>9 DEF IInv

LEMMA SocketConnectedStep ==
  ASSUME IInv, SocketConnected
  PROVE  IInv'
<1>1. /\ Waiting("Connect") /\ UNCHANGED <<unlessStep, taken, failed>>
      /\ answer = "due" /\ alive
  BY AwaitedBy, CallNames DEF SocketConnected
<1>2. step = "connecting" /\ At(sock, "Establishing", "Connect") /\ NothingRead
  BY <1>1, Awaited DEF Working
<1> DEFINE x == ConnectDone(sock)
<1>3. x \in Socket /\ Doing(x, "-") /\ taken' \in 0..Len(sent) /\ reader \in Reader
  BY <1>1, <1>2, Machines, ConnectReturns
<1> HIDE DEF x
<1>4. CASE canceled
  <2>1. Silent(x, reader) /\ Silenced(x)
    BY <1>3, <1>4, DoingCallbacks DEF SocketConnected, x
  <2> QED
    BY <1>1, <1>2, <1>3, <1>4, <2>1, SilentStep DEF NothingRead
<1>5. CASE ~canceled
  <2>1. GoOn(Write(x), reader, "greeting")
    BY <1>5 DEF SocketConnected, x
  <2>2. Write(x) \in Socket /\ Doing(Write(x), "Write")
    BY <1>3, DoingCalls
  <2>3. Working'
    BY <1>1, <1>2, <2>1, <2>2 DEF Working, GoOn, Writes, NothingRead
  <2> QED
    BY <1>1, <1>3, <2>1, <2>2, <2>3, GoOnStep DEF Steps
<1> QED
  BY <1>4, <1>5

\* A step that waited in vain.
LEMMA BrokenStep ==
  ASSUME IInv, alive, answer = "due", reader.posted = "none", fin \/ reset,
         UNCHANGED <<unlessStep, taken, failed>>, NEW x \in Socket, Silenced(x),
         IF canceled THEN Silent(x, reader) ELSE Refuse(x, reader)
  PROVE  IInv'
<1>1. taken' \in 0..Len(sent) /\ reader \in Reader /\ failed' = failed
  BY Machines
<1> QED
  BY <1>1, SilentStep, RefuseStep

LEMMA ConnectBrokeStep ==
  ASSUME IInv, ConnectBroke
  PROVE  IInv'
<1>1. Waiting("Connect") /\ answer = "due" /\ alive /\ reset
  BY AwaitedBy, CallNames DEF ConnectBroke
<1>2. At(sock, "Establishing", "Connect") /\ reader.posted = "none"
  BY <1>1, Awaited DEF Working, NothingRead
<1>3. ConnectFailed(sock) \in Socket /\ Silenced(ConnectFailed(sock))
  BY <1>2, Machines, ConnectReturns
<1> QED
  BY <1>1, <1>2, <1>3, BrokenStep DEF ConnectBroke

LEMMA WriteBrokeStep ==
  ASSUME IInv, WriteBroke
  PROVE  IInv'
<1>1. Waiting("Write") /\ answer = "due" /\ alive /\ reset
  BY AwaitedBy, CallNames DEF WriteBroke
<1>2. Doing(sock, "Write") /\ reader.posted = "none"
  BY <1>1, Awaited DEF Writes
<1>3. WriteFailed(sock) \in Socket /\ Silenced(WriteFailed(sock))
  BY <1>2, Machines, DoingWrite
<1> QED
  BY <1>1, <1>2, <1>3, BrokenStep DEF WriteBroke

LEMMA ReadBrokeStep ==
  ASSUME IInv, ReadBroke
  PROVE  IInv'
<1>1. Waiting("Read") /\ answer = "due" /\ alive /\ reset
  BY AwaitedBy, CallNames DEF ReadBroke
<1>2. Doing(sock, "Read") /\ reader.posted = "none"
  BY <1>1, Awaited
<1>3. ReadFailed(sock) \in Socket /\ Silenced(ReadFailed(sock))
  BY <1>2, Machines, DoingRead
<1> QED
  BY <1>1, <1>2, <1>3, BrokenStep DEF ReadBroke

LEMMA ReadEndedStep ==
  ASSUME IInv, ReadEnded
  PROVE  IInv'
<1>1. /\ Waiting("Read") /\ answer = "due" /\ alive /\ fin
      /\ UNCHANGED <<unlessStep, taken>>
  BY AwaitedBy, CallNames DEF ReadEnded
<1>2. Doing(sock, "Read") /\ reader.posted = "none"
  BY <1>1, Awaited
<1>3. /\ CanReadDone(sock) /\ CanReadEof(sock)
      /\ ReadEof(sock) \in Socket /\ Silenced(ReadEof(sock))
  BY <1>2, Machines, DoingRead
<1>4. failed' = failed
  BY <1>3 DEF ReadEnded, Assert, ReadChecks, Check
<1> QED
  BY <1>1, <1>2, <1>3, <1>4, BrokenStep DEF ReadEnded

LEMMA ReadLengthTo ==
  ASSUME sent \in Seq(Byte), taken \in Nat, NEW x \in Socket, Doing(x, "-"),
         NEW r \in Reader, r.posted = "none",
         NEW c \in Nat, Part(r.buf, sent, c, taken), NEW k \in Nat, NEW q,
         q = ReadLength(x, r, k)
  PROVE  /\ q.reader \in Reader /\ Looks(q.reader, c, k, taken)
         /\ q.sock \in Socket
         /\ Doing(q.sock, IF q.reader.posted = "none" THEN "Read" ELSE "-")
<1> DEFINE p == ReadToLength(r, k)
<1>1. p \in Reader /\ Looks(p, c, k, taken)
  BY ReaderAsked
<1>2. q.reader = p /\ q.sock = IF Satisfied(p) THEN x ELSE Read(x)
  BY DEF ReadLength
<1> HIDE DEF p
<1>3. p.posted \in {"none", "waiting"} /\ (Satisfied(p) <=> p.posted # "none")
  BY <1>1 DEF Looks, Satisfied
<1>4. Read(x) \in Socket /\ Doing(Read(x), "Read")
  BY DoingCalls
<1> QED
  BY <1>1, <1>2, <1>3, <1>4

LEMMA WroteStep ==
  ASSUME IInv, Wrote
  PROVE  IInv'
<1>1. /\ Waiting("Write") /\ answer = "due" /\ alive
      /\ UNCHANGED <<unlessStep, taken>>
  BY AwaitedBy, CallNames DEF Wrote
<1>2. /\ step \in {"greeting", "requesting"} /\ Doing(sock, "Write")
      /\ reader.posted = "none" /\ Working
  BY <1>1, Awaited DEF Writes
<1> DEFINE x == WriteDone(sock)
<1>3. /\ x \in Socket /\ Doing(x, "-") /\ CanWriteDone(sock)
      /\ reader \in Reader /\ taken' \in 0..Len(sent)
  BY <1>1, <1>2, Machines, DoingWrite
<1>4. failed' = failed
  BY <1>3, DoingCalls DEF Wrote, Assert, Check
<1>5. /\ canceled => Silent(x, reader)
      /\ ~canceled /\ kind = "http" => GoOn(Read(x), reader, "response")
      /\ ~canceled /\ kind # "http" /\ step = "greeting" =>
           LET q == ReadLength(x, reader, 2) IN GoOn(q.sock, q.reader, "method")
      /\ ~canceled /\ kind # "http" /\ step = "requesting" =>
           LET q == ReadLength(x, reader, 5) IN GoOn(q.sock, q.reader, "head")
  BY DEF Wrote
<1> HIDE DEF x
<1>6. CASE canceled
  <2>1. Silenced(x)
    BY <1>3, DoingCallbacks
  <2> QED
    BY <1>1, <1>2, <1>3, <1>4, <1>5, <1>6, <2>1, SilentStep
<1>7. CASE ~canceled /\ kind = "http"
  <2>1. Read(x) \in Socket /\ Doing(Read(x), "Read") /\ GoOn(Read(x), reader, "response")
    BY <1>3, <1>5, <1>7, DoingCalls
  <2>2. Working'
    BY <1>1, <1>2, <1>7, <2>1 DEF Working, GoOn, unlessStep
  <2> QED
    BY <1>1, <1>3, <1>4, <2>1, <2>2, GoOnStep DEF Steps
<1>8. CASE ~canceled /\ kind # "http"
  <2>1. kind = "socks5" /\ sent \in Seq(Byte) /\ taken \in Nat /\ taken <= Len(sent)
    BY <1>8, Machines DEF IInv, ProxyTypes, TypeOK, Text
  <2>2. UNCHANGED <<kind, sent>>
    BY <1>1 DEF unlessStep
  <2>3. CASE step = "greeting"
    <3> DEFINE q == ReadLength(x, reader, 2)
    <3>1. Part(reader.buf, sent, 0, taken)
      BY <1>2, <2>1, <2>3, PartEmpty DEF Working, NothingRead
    <3>2. /\ q.reader \in Reader /\ Looks(q.reader, 0, 2, taken) /\ q.sock \in Socket
          /\ Doing(q.sock, IF q.reader.posted = "none" THEN "Read" ELSE "-")
      BY <1>2, <1>3, <2>1, <3>1, ReadLengthTo
    <3>3. GoOn(q.sock, q.reader, "method")
      BY <1>5, <1>8, <2>3
    <3> HIDE DEF q
    <3>4. Reads(0, 2)'
      BY <1>1, <2>1, <2>2, <3>2, <3>3 DEF Reads, Looks, GoOn
    <3>5. Working'
      BY <3>3, <3>4 DEF Working, GoOn
    <3> QED
      BY <1>1, <1>3, <1>4, <3>2, <3>3, <3>5, GoOnStep DEF Steps
  <2>4. CASE step = "requesting"
    <3> DEFINE q == ReadLength(x, reader, 5)
    <3>1. Part(reader.buf, sent, 2, taken) /\ MethodRight
      BY <1>2, <2>4 DEF Working
    <3>2. /\ q.reader \in Reader /\ Looks(q.reader, 2, 5, taken) /\ q.sock \in Socket
          /\ Doing(q.sock, IF q.reader.posted = "none" THEN "Read" ELSE "-")
      BY <1>2, <1>3, <2>1, <3>1, ReadLengthTo
    <3>3. GoOn(q.sock, q.reader, "head")
      BY <1>5, <1>8, <2>4
    <3> HIDE DEF q
    <3>4. Reads(2, 5)' /\ MethodRight'
      BY <1>1, <2>1, <2>2, <3>1, <3>2, <3>3 DEF Reads, Looks, GoOn, MethodRight
    <3>5. Working'
      BY <3>3, <3>4 DEF Working, GoOn
    <3> QED
      BY <1>1, <1>3, <1>4, <3>2, <3>3, <3>5, GoOnStep DEF Steps
  <2> QED
    BY <1>2, <2>3, <2>4
<1> QED
  BY <1>6, <1>7, <1>8

LEMMA ResponseReadStep ==
  ASSUME IInv, NEW n, ResponseRead(n)
  PROVE  IInv'
<1>1. /\ step = "response" /\ Waiting("Read") /\ n \in taken + 1..Len(sent) /\ taken' = n
      /\ UNCHANGED unlessStep /\ alive /\ answer = "due"
  <2>1. answer = "due"
    BY DEF ResponseRead, IInv, Control, ProxyTypes, TypeOK
  <2> QED
    BY <2>1, AwaitedBy, CallNames DEF ResponseRead
<1>2. kind = "http" /\ Doing(sock, "Read") /\ reader.posted = "none"
  BY <1>1, Awaited DEF Working
<1> DEFINE x == ReadDone(sock)
<1>3. /\ x \in Socket /\ Doing(x, "-") /\ Silenced(x) /\ CanReadDone(sock)
      /\ reader \in Reader /\ taken \in Nat /\ Len(sent) \in Nat
  BY <1>2, Machines, DoingRead, DoingCallbacks
<1>4. /\ canceled => Silent(x, reader)
      /\ ~canceled /\ Refused(n) => Refuse(x, reader)
      /\ ~canceled /\ ~Refused(n) /\ ~Complete(n) => GoOn(Read(x), reader, "response")
      /\ ~canceled /\ ~Refused(n) /\ Complete(n) /\ Success(n) => Accept(x, reader)
      /\ ~canceled /\ ~Refused(n) /\ Complete(n) /\ ~Success(n) => Refuse(x, reader)
  BY DEF ResponseRead
<1>5. failed' \subseteq Flaws
  <2>1. failed \subseteq {"rewriter.OnMessageBegin"}
    BY <1>2 DEF IInv, Control, Flaws
  <2>2. failed' \subseteq failed \cup {"rewriter.OnMessageBegin"}
    BY <1>3 DEF ResponseRead, Assert, ReadChecks, Check
  <2> QED
    BY <1>2, <2>1, <2>2 DEF Flaws
<1>6. /\ n \in Nat /\ n <= Len(sent) /\ taken' \in 0..Len(sent) /\ n \in 1..Len(sent)
      /\ n \in 1..taken'
  BY <1>1, <1>3
<1> HIDE DEF x
<1>7. Complete(n) => Reply.len \in 1..n /\ (Reply.good <=> ~Refused(Reply.len) /\ Success(Reply.len))
  BY <1>2, <1>3, <1>6, HttpReply
<1>8. CASE canceled
  BY <1>1, <1>2, <1>3, <1>4, <1>5, <1>6, <1>8, SilentStep
<1>9. CASE ~canceled /\ (Refused(n) \/ (Complete(n) /\ ~Success(n)))
  <2>1. ~Reply.good \/ taken' > Reply.len
    <3>1. CASE Complete(n)
      <4>1. Reply.len = n \/ n > Reply.len
        BY <1>6, <1>7, <3>1
      <4>2. Reply.len = n => ~Reply.good
        BY <1>7, <1>9, <3>1
      <4> QED
        BY <1>1, <4>1, <4>2
    <3>2. CASE ~Complete(n) /\ ~Complete(Len(sent))
      BY <1>2, <3>2, HttpNoReply
    <3>3. CASE ~Complete(n) /\ Complete(Len(sent))
      <4>1. /\ Reply.len \in 1..Len(sent) /\ Complete(Reply.len)
            /\ Reply.good => ~Refused(Reply.len)
        BY <1>2, <1>3, <1>6, <3>3, HttpReply
      <4>2. n < Reply.len
        <5>1. ASSUME Reply.len <= n PROVE FALSE
          <6>1. \A i \in 1..Reply.len : i \in 1..n
            BY <1>6, <4>1, <5>1
          <6> QED
            BY <3>3, <4>1, <6>1 DEF Complete
        <5> QED
          BY <1>6, <4>1, <5>1
      <4>3. Refused(Reply.len)
        <5>1. PICK i \in 1..n : ~Fits(i)
          BY <1>9, <3>3 DEF Refused
        <5>2. i \in 1..Reply.len
          BY <1>6, <4>1, <4>2
        <5> QED
          BY <5>1, <5>2 DEF Refused
      <4> QED
        BY <4>1, <4>3
    <3> QED
      BY <3>1, <3>2, <3>3
  <2>2. Refuse(x, reader)
    BY <1>4, <1>9
  <2> QED
    BY <1>1, <1>2, <1>3, <1>5, <1>6, <1>9, <2>1, <2>2, RefuseStep
<1>10. CASE ~canceled /\ ~Refused(n) /\ ~Complete(n)
  <2>1. Read(x) \in Socket /\ Doing(Read(x), "Read") /\ GoOn(Read(x), reader, "response")
    BY <1>3, <1>4, <1>10, DoingCalls
  <2>2. Working'
    BY <1>1, <1>2, <2>1 DEF Working, GoOn, unlessStep
  <2> QED
    BY <1>1, <1>3, <1>5, <1>6, <2>1, <2>2, GoOnStep DEF Steps
<1>11. CASE ~canceled /\ ~Refused(n) /\ Complete(n) /\ Success(n)
  <2>1. Accept(x, reader) /\ \E m \in 1..taken' : m = taken' /\ Accepted(m)
    BY <1>1, <1>4, <1>6, <1>11 DEF Accepted
  <2> QED
    BY <1>1, <1>2, <1>3, <1>5, <1>6, <1>11, <2>1, AcceptStep
<1> QED
  BY <1>8, <1>9, <1>10, <1>11

LEMMA ReaderFedStep ==
  ASSUME IInv, NEW n, ReaderFed(n)
  PROVE  IInv'
<1>1. /\ kind = "socks5" /\ answer = "due" /\ Waiting("Read") /\ alive
      /\ n \in taken + 1..Len(sent) /\ taken' = n /\ UNCHANGED unlessStep
  BY AwaitedBy, CallNames DEF ReaderFed
<1>2. /\ step \in {"method", "head", "tail"} /\ Working
      /\ Doing(sock, "Read") /\ reader.posted = "none"
  BY <1>1, Awaited DEF Working
<1> DEFINE x == ReadDone(sock)
           r == ArrivedForLength(reader, SubSeq(sent, taken + 1, n))
           y == IF Satisfied(r) THEN x ELSE Read(x)
<1>3. /\ x \in Socket /\ Doing(x, "-") /\ CanReadDone(sock)
      /\ reader \in Reader /\ taken \in Nat /\ Len(sent) \in Nat
  BY <1>2, Machines, DoingRead
<1>4. failed' = failed /\ GoOn(y, r, step)
  BY <1>3 DEF ReaderFed, Assert, ReadChecks, Check
<1>5. n \in Nat /\ taken <= n /\ n <= Len(sent) /\ taken' \in 0..Len(sent)
  BY <1>1, <1>3
<1>6. sent \in Seq(Byte) /\ UNCHANGED <<kind, sent>>
  BY <1>1 DEF IInv, ProxyTypes, Text, unlessStep
<1>7. Read(x) \in Socket /\ Doing(Read(x), "Read")
  BY <1>3, DoingCalls
<1>8. ASSUME NEW c \in Nat, NEW k, Reads(c, k)
      PROVE  r \in Reader /\ y \in Socket /\ Reads(c, k)'
  <2>1. reader.want = k /\ Part(reader.buf, sent, c, taken)
    BY <1>2, <1>8 DEF Reads, Looks
  <2>2. r \in Reader /\ Looks(r, c, k, n)
    BY <1>2, <1>3, <1>5, <1>6, <2>1, ReaderGets
  <2> HIDE DEF r
  <2>3. r.posted \in {"none", "waiting"} /\ (Satisfied(r) <=> r.posted # "none")
    BY <2>2 DEF Looks, Satisfied
  <2>4. y \in Socket /\ Doing(y, IF r.posted = "none" THEN "Read" ELSE "-")
    BY <1>3, <1>7, <2>3
  <2> HIDE DEF y
  <2>5. sock' = y /\ reader' = r
    BY <1>4 DEF GoOn
  <2> QED
    BY <1>1, <1>6, <2>2, <2>4, <2>5 DEF Reads, Looks
<1> HIDE DEF x, r, y
<1>9. step' = step
  BY <1>4 DEF GoOn
<1>10. CASE step = "method"
  <2>1. r \in Reader /\ y \in Socket /\ Reads(0, 2)'
    BY <1>2, <1>8, <1>10 DEF Working
  <2>2. Working'
    BY <1>9, <1>10, <2>1 DEF Working
  <2> QED
    BY <1>1, <1>4, <1>5, <1>10, <2>1, <2>2, GoOnStep DEF Steps
<1>11. CASE step = "head"
  <2>1. r \in Reader /\ y \in Socket /\ Reads(2, 5)' /\ MethodRight
    BY <1>2, <1>8, <1>11 DEF Working
  <2>2. MethodRight'
    BY <1>1, <1>3, <1>5, <1>6, <2>1 DEF MethodRight
  <2>3. Working'
    BY <1>9, <1>11, <2>1, <2>2 DEF Working
  <2> QED
    BY <1>1, <1>4, <1>5, <1>11, <2>1, <2>3, GoOnStep DEF Steps
<1>12. CASE step = "tail"
  <2>1. r \in Reader /\ y \in Socket /\ Reads(7, TailLen)' /\ HeadRight
    <3>1. Reads(7, TailLen) /\ HeadRight
      BY <1>2, <1>12 DEF Working
    <3>2. TailLen' = TailLen
      BY <1>6 DEF TailLen
    <3>3. \E k : k = TailLen
      OBVIOUS
    <3>4. PICK k : k = TailLen
      BY <3>3
    <3>5. r \in Reader /\ y \in Socket /\ Reads(7, k)'
      BY <1>8, <3>1, <3>4
    <3> QED
      BY <3>1, <3>2, <3>4, <3>5 DEF Reads, Looks
  <2>2. HeadRight'
    BY <1>1, <1>3, <1>5, <1>6, <2>1 DEF HeadRight, MethodRight
  <2>3. Working'
    BY <1>9, <1>12, <2>1, <2>2 DEF Working
  <2> QED
    BY <1>1, <1>4, <1>5, <1>12, <2>1, <2>3, GoOnStep DEF Steps
<1> QED
  BY <1>2, <1>10, <1>11, <1>12

\* What the reader has when it hands over the k bytes after the first c.
LEMMA HandedOver ==
  ASSUME IInv, reader.posted = "waiting", NEW c \in Nat, NEW k \in Nat, Reads(c, k)
  PROVE  /\ kind = "socks5" /\ sent \in Seq(Byte)
         /\ c + k <= taken /\ taken \in Nat /\ taken <= Len(sent) /\ Len(sent) \in Nat
         /\ \A i \in 1..k : reader.out[i] = sent[c + i]
         /\ Part(reader.buf, sent, c + k, taken)
         /\ Doing(sock, "-") /\ Silenced(sock) /\ sock \in Socket
         /\ Delivered(reader) \in Reader /\ Delivered(reader).posted = "none"
         /\ Delivered(reader).buf = reader.buf
<1>1. reader \in Reader /\ sock \in Socket /\ taken \in 0..Len(sent) /\ Len(sent) \in Nat
  BY Machines
<1>2. kind = "socks5" /\ sent \in Seq(Byte)
  BY DEF Reads, IInv, ProxyTypes, Text
<1>3. Part(reader.out, sent, c, c + k) /\ Part(reader.buf, sent, c + k, taken)
  BY DEF Reads, Looks
<1>4. Doing(sock, "-")
  BY DEF Reads
<1>5. c + k - c = k
  OBVIOUS
<1>6. \A i \in 1..k : reader.out[i] = sent[c + i]
  BY <1>3, <1>5 DEF Part
<1>7. c + k <= taken
  BY <1>3 DEF Part
<1> QED
  BY <1>1, <1>2, <1>3, <1>4, <1>6, <1>7, ReaderParts, DoingCallbacks

LEMMA MethodReadStep ==
  ASSUME IInv, MethodRead
  PROVE  IInv'
<1>1. /\ step = "method" /\ reader.posted = "waiting" /\ alive /\ answer = "due"
      /\ UNCHANGED <<unlessStep, taken, failed>>
  BY AwaitedBy DEF MethodRead
<1>2. Reads(0, 2)
  BY <1>1, Awaited DEF Working
<1> DEFINE r == Delivered(reader)
<1>3. /\ kind = "socks5" /\ sent \in Seq(Byte)
      /\ 2 <= taken /\ taken \in Nat /\ taken <= Len(sent) /\ Len(sent) \in Nat
      /\ \A i \in 1..2 : reader.out[i] = sent[i]
      /\ Part(reader.buf, sent, 2, taken)
      /\ Doing(sock, "-") /\ Silenced(sock) /\ sock \in Socket
      /\ r \in Reader /\ r.posted = "none" /\ r.buf = reader.buf
  BY <1>1, <1>2, HandedOver
<1>4. /\ canceled => Silent(sock, r)
      /\ ~canceled /\ ~MethodAccepted(reader.out) => Refuse(sock, r)
      /\ ~canceled /\ MethodAccepted(reader.out) => GoOn(Write(sock), r, "requesting")
  BY DEF MethodRead
<1> HIDE DEF r
<1>5. taken' \in 0..Len(sent) /\ failed' = failed /\ UNCHANGED unlessStep
  BY <1>1, <1>3
<1>6. MethodAccepted(reader.out) <=> sent[1] = 5 /\ sent[2] = 0
  BY <1>3 DEF MethodAccepted
<1>7. CASE canceled
  BY <1>1, <1>3, <1>4, <1>5, <1>7, SilentStep
<1>8. CASE ~canceled /\ ~MethodAccepted(reader.out)
  <2>1. ~Reply.good
    BY <1>3, <1>6, <1>8, Socks5Reply
  <2> QED
    BY <1>1, <1>3, <1>4, <1>5, <1>8, <2>1, RefuseStep
<1>9. CASE ~canceled /\ MethodAccepted(reader.out)
  <2>1. /\ Write(sock) \in Socket /\ Doing(Write(sock), "Write")
        /\ GoOn(Write(sock), r, "requesting")
    BY <1>3, <1>4, <1>9, DoingCalls
  <2>2. MethodRight
    BY <1>3, <1>6, <1>9 DEF MethodRight
  <2>3. Working'
    BY <1>1, <1>3, <2>1, <2>2 DEF Working, GoOn, Writes, MethodRight, unlessStep
  <2> QED
    BY <1>1, <1>3, <1>5, <2>1, <2>3, GoOnStep DEF Steps
<1> QED
  BY <1>7, <1>8, <1>9

LEMMA HeadReadStep ==
  ASSUME IInv, HeadRead
  PROVE  IInv'
<1>1. /\ step = "head" /\ reader.posted = "waiting" /\ alive /\ answer = "due"
      /\ UNCHANGED <<unlessStep, taken, failed>>
  BY AwaitedBy DEF HeadRead
<1>2. Reads(2, 5) /\ MethodRight
  BY <1>1, Awaited DEF Working
<1> DEFINE r == Delivered(reader)
           q == ReadLength(sock, r, TailLength(reader.out))
<1>3. /\ kind = "socks5" /\ sent \in Seq(Byte)
      /\ 2 + 5 <= taken /\ taken \in Nat /\ taken <= Len(sent) /\ Len(sent) \in Nat
      /\ \A i \in 1..5 : reader.out[i] = sent[2 + i]
      /\ Part(reader.buf, sent, 2 + 5, taken)
      /\ Doing(sock, "-") /\ Silenced(sock) /\ sock \in Socket
      /\ r \in Reader /\ r.posted = "none" /\ r.buf = reader.buf
  BY <1>1, <1>2, HandedOver
<1>4. /\ canceled => Silent(sock, r)
      /\ ~canceled /\ ~HeadAccepted(reader.out) => Refuse(sock, r)
      /\ ~canceled /\ HeadAccepted(reader.out) => GoOn(q.sock, q.reader, "tail")
  BY DEF HeadRead
<1> HIDE DEF r
<1>5. taken' \in 0..Len(sent) /\ failed' = failed
      /\ UNCHANGED <<unlessStep, kind, sent, taken>>
  BY <1>1, <1>3 DEF unlessStep
<1>6. /\ reader.out[1] = sent[3] /\ reader.out[2] = sent[4] /\ reader.out[3] = sent[5]
      /\ reader.out[4] = sent[6] /\ reader.out[5] = sent[7]
  BY <1>3
<1>7. CASE canceled
  BY <1>1, <1>3, <1>4, <1>5, <1>7, SilentStep
<1>8. CASE ~canceled /\ ~HeadAccepted(reader.out)
  <2>1. ~Reply.good
    BY <1>3, <1>6, <1>8, Socks5Reply DEF HeadAccepted
  <2> QED
    BY <1>1, <1>3, <1>4, <1>5, <1>8, <2>1, RefuseStep
<1>9. CASE ~canceled /\ HeadAccepted(reader.out)
  <2>1. HeadRight /\ HeadRight'
    BY <1>2, <1>3, <1>5, <1>6, <1>9 DEF HeadAccepted, HeadRight, MethodRight
  <2>2. TailLength(reader.out) = TailLen /\ TailLen' = TailLen
    BY <1>5, <1>6 DEF TailLength, TailLen
  <2>3. TailLen \in Nat
    BY <1>3, <2>1, TailLenIsNat
  <2>4. Part(r.buf, sent, 7, taken)
    BY <1>3
  <2>5. /\ q.reader \in Reader /\ Looks(q.reader, 7, TailLen, taken) /\ q.sock \in Socket
        /\ Doing(q.sock, IF q.reader.posted = "none" THEN "Read" ELSE "-")
    BY <1>3, <2>2, <2>3, <2>4, ReadLengthTo
  <2>6. GoOn(q.sock, q.reader, "tail")
    BY <1>4, <1>9
  <2> HIDE DEF q
  <2>7. Reads(7, TailLen)'
    BY <1>3, <1>5, <2>2, <2>5, <2>6 DEF Reads, Looks, GoOn
  <2>8. Working'
    BY <2>1, <2>6, <2>7 DEF Working, GoOn
  <2> QED
    BY <1>1, <1>5, <2>5, <2>6, <2>8, GoOnStep DEF Steps
<1> QED
  BY <1>7, <1>8, <1>9

LEMMA TailReadStep ==
  ASSUME IInv, TailRead
  PROVE  IInv'
<1>1. /\ step = "tail" /\ reader.posted = "waiting" /\ alive /\ answer = "due"
      /\ UNCHANGED <<unlessStep, taken, failed>>
  BY AwaitedBy DEF TailRead
<1>2. Reads(7, TailLen) /\ HeadRight
  BY <1>1, Awaited DEF Working
<1>3. TailLen \in Nat
  BY <1>2, TailLenIsNat DEF Reads
<1> DEFINE r == Delivered(reader)
<1>4. /\ kind = "socks5" /\ sent \in Seq(Byte)
      /\ 7 + TailLen <= taken /\ taken \in Nat /\ taken <= Len(sent) /\ Len(sent) \in Nat
      /\ Part(reader.buf, sent, 7 + TailLen, taken)
      /\ Doing(sock, "-") /\ Silenced(sock) /\ sock \in Socket
      /\ r \in Reader /\ r.posted = "none" /\ r.buf = reader.buf
  <2>1. \A k \in Nat : Reads(7, k) =>
          /\ kind = "socks5" /\ sent \in Seq(Byte)
          /\ 7 + k <= taken /\ taken \in Nat /\ taken <= Len(sent) /\ Len(sent) \in Nat
          /\ Part(reader.buf, sent, 7 + k, taken)
          /\ Doing(sock, "-") /\ Silenced(sock) /\ sock \in Socket
          /\ r \in Reader /\ r.posted = "none" /\ r.buf = reader.buf
    BY <1>1, HandedOver
  <2> QED
    BY <1>2, <1>3, <2>1
<1>5. /\ canceled => Silent(sock, r)
      /\ ~canceled /\ r.buf # <<>> => Refuse(sock, ConsumeRemainData(r))
      /\ ~canceled /\ r.buf = <<>> => Accept(sock, r)
  BY DEF TailRead
<1> HIDE DEF r
<1>6. taken' \in 0..Len(sent) /\ failed' = failed /\ UNCHANGED <<unlessStep, taken, sent>>
  BY <1>1, <1>4 DEF unlessStep
<1>7. Len(reader.buf) = taken - (7 + TailLen) /\ reader.buf \in Seq(Byte)
  BY <1>4, Machines DEF Part, Reader
<1>8. CASE canceled
  BY <1>1, <1>4, <1>5, <1>6, <1>8, SilentStep
<1>9. CASE ~canceled /\ r.buf # <<>>
  <2>1. taken > 7 + TailLen
    <3>1. Len(reader.buf) # 0
      BY <1>4, <1>7, <1>9, EmptySeq
    <3> QED
      BY <1>3, <1>4, <1>7, <3>1
  <2>2. Reply.len = 7 + TailLen
    BY <1>2, <1>3, <1>4, Socks5Reply DEF HeadRight
  <2>3. ConsumeRemainData(r) \in Reader /\ ConsumeRemainData(r).posted = "none"
    BY <1>4, ReaderParts
  <2> QED
    BY <1>1, <1>4, <1>5, <1>6, <1>9, <2>1, <2>2, <2>3, RefuseStep
<1>10. CASE ~canceled /\ r.buf = <<>>
  <2>1. taken = 7 + TailLen
    <3>1. Len(reader.buf) = 0
      BY <1>4, <1>10, EmptySeq
    <3> QED
      BY <1>3, <1>4, <1>7, <3>1
  <2>2. HeadRight' /\ taken' = 7 + TailLen
    BY <1>2, <1>6, <2>1 DEF HeadRight, MethodRight
  <2> QED
    BY <1>1, <1>4, <1>5, <1>6, <1>10, <2>2, AcceptStep
<1> QED
  BY <1>8, <1>9, <1>10

-----------------------------------------------------------------------------
(* The steps of the tunnel, of the owner and of the proxy.                 *)

\* A step that leaves the answer, what was read and what it means alone.
LEMMA AsideStep ==
  ASSUME IInv, UNCHANGED <<kind, step, fsm, answer, sent, taken, got, fin, reset>>,
         sock' \in Socket, reader' \in Reader,
         canceled' \in BOOLEAN, alive' \in BOOLEAN,
         failed' \subseteq Flaws,
         ~alive' => canceled' /\ Silenced(sock') /\ reader'.posted # "waiting",
         alive' => /\ canceled' => answer = "due"
                   /\ answer = "none" => At(sock', "Init", "-") /\ NothingRead'
                   /\ answer = "due" => Working'
                   /\ answer = "error" => Silenced(sock') /\ reader'.posted = "none"
                   /\ answer = "ok" => Connects'
  PROVE  IInv'
<1>1. /\ Text' = Text /\ Reply' = Reply /\ TailLen' = TailLen /\ Flaws' = Flaws
      /\ \A m : Accepted(m)' <=> Accepted(m)
  BY SameReply DEF Text, Flaws
<1>2. ProxyTypes'
  BY <1>1 DEF IInv, ProxyTypes, TypeOK, Reader
<1>3. Control'
  BY <1>1 DEF IInv, Control
<1>5. Answered'
  BY <1>1 DEF IInv, Answered, HttpAccepted, Socks5Accepted, GotSince, HeadRight, MethodRight
<1> QED
  BY <1>2, <1>3, <1>5 DEF IInv

\* A flow that is connected and read from.
LEMMA OkReads ==
  ASSUME IInv, answer = "ok", alive
  PROVE  /\ ~canceled /\ reader.posted = "none"
         /\ Waiting("Read") => Doing(sock, "Read")
         /\ ~Waiting("Read") /\ sock.fsm.state = "Established" => Doing(sock, "-")
         /\ "Read" \in Ops
<1>1. ~canceled /\ Connects /\ "Read" \in Ops
  BY DEF IInv, Control, Ops
<1>2. Doing(sock, "-") => ~Waiting("Read")
  BY <1>1, DoingCallbacks DEF Waiting
<1>3. Doing(sock, "Read") => Waiting("Read")
  BY <1>1, DoingCallbacks DEF Waiting
<1>4. Silenced(sock) => ~Waiting("Read")
  BY <1>1 DEF Waiting, Silenced
<1> QED
  BY <1>1, <1>2, <1>3, <1>4 DEF Connects

LEMMA TunnelReadsStep ==
  ASSUME IInv, TunnelReads
  PROVE  IInv'
<1>1. /\ alive /\ answer = "ok" /\ sock' = Read(sock)
      /\ UNCHANGED <<kind, step, fsm, reader, answer, canceled, alive, sent, taken, got,
                     fin, reset>>
  BY DEF TunnelReads, unlessStep, peerVars
<1>2. ~canceled /\ reader.posted = "none" /\ Doing(sock, "-")
  BY <1>1, OkReads DEF TunnelReads
<1>3. /\ sock' \in Socket /\ Doing(sock', "Read") /\ CanReadBegin(sock.fsm)
      /\ reader' \in Reader
  BY <1>1, <1>2, Machines, DoingCalls
<1>4. failed' \subseteq Flaws
  <2>1. failed \subseteq Flaws
    BY DEF IInv, Control
  <2>2. kind = "http" => IsReadable(StateMachine)
    BY <1>1, <1>3 DEF IInv, Control, StateMachine, CanReadBegin
  <2>3. kind \in {"http", "socks5"}
    BY DEF IInv, ProxyTypes, TypeOK
  <2> QED
    BY <1>3, <2>1, <2>2, <2>3 DEF TunnelReads, Assert, Check, Flaws
<1>5. Connects'
  BY <1>1, <1>2, <1>3 DEF Connects
<1>6. canceled' \in BOOLEAN /\ alive' \in BOOLEAN
  BY <1>1 DEF IInv, ProxyTypes, TypeOK
<1> QED
  BY <1>1, <1>2, <1>3, <1>4, <1>5, <1>6, AsideStep

LEMMA TunnelGetsEndStep ==
  ASSUME IInv, TunnelGetsEnd
  PROVE  IInv'
<1>1. /\ answer = "ok" /\ Waiting("Read") /\ alive
      /\ sock' = ReadEof(sock) \/ sock' = ReadFailed(sock)
      /\ UNCHANGED <<kind, step, fsm, reader, answer, canceled, alive, sent, taken, got,
                     fin, reset, failed>>
  BY AwaitedBy, CallNames DEF TunnelGetsEnd, unlessStep, peerVars
<1>2. ~canceled /\ reader.posted = "none" /\ Doing(sock, "Read")
  BY <1>1, OkReads
<1>3. sock' \in Socket /\ Silenced(sock') /\ sock'.fsm.state # "Established"
  BY <1>1, <1>2, Machines, DoingRead
<1>4. Connects'
  BY <1>1, <1>2, <1>3 DEF Connects
<1>5. canceled' \in BOOLEAN /\ alive' \in BOOLEAN /\ reader' \in Reader
      /\ failed' \subseteq Flaws
  BY <1>1, Machines DEF IInv, ProxyTypes, TypeOK, Control
<1> QED
  BY <1>1, <1>2, <1>3, <1>4, <1>5, AsideStep

LEMMA GotMore ==
  ASSUME NEW S, sent \in Seq(S), got \in Seq(S), taken \in Nat, NEW n \in Nat,
         taken <= n, n <= Len(sent), NEW l \in Nat, GotSince(l),
         UNCHANGED <<kind, sent>>, taken' = n, got' = got \o SubSeq(sent, taken + 1, n)
  PROVE  got' \in Seq(S) /\ GotSince(l)'
<1> DEFINE g == got \o SubSeq(sent, taken + 1, n)
<1>1. l <= taken /\ Part(got, sent, l, taken)
  <2>1. Len(got) \in Nat
    BY LenProperties
  <2> QED
    BY <2>1 DEF GotSince
<1>2. g \in Seq(S) /\ Part(g, sent, l, n)
  BY <1>1, PartMore
<1> HIDE DEF g
<1>3. Len(g) = n - l /\ l <= n
  BY <1>2 DEF Part
<1>4. l + Len(g) = n
  BY <1>3
<1>5. got' = g
  BY DEF g
<1> QED
  BY <1>2, <1>4, <1>5 DEF GotSince

LEMMA TunnelGetsStep ==
  ASSUME IInv, NEW n, TunnelGets(n)
  PROVE  IInv'
<1>1. /\ answer = "ok" /\ Waiting("Read") /\ alive /\ n \in taken + 1..Len(sent)
      /\ sock' = ReadDone(sock) /\ taken' = n
      /\ got' = got \o SubSeq(sent, taken + 1, n)
      /\ UNCHANGED <<kind, step, fsm, reader, answer, canceled, alive, sent, fin, reset,
                     failed>>
  BY AwaitedBy, CallNames DEF TunnelGets, peerVars
<1>2. ~canceled /\ reader.posted = "none" /\ Doing(sock, "Read")
  BY <1>1, OkReads
<1>3. /\ sock' \in Socket /\ Doing(sock', "-") /\ reader' \in Reader
      /\ taken \in Nat /\ Len(sent) \in Nat
  BY <1>1, <1>2, Machines, DoingRead
<1>4. n \in Nat /\ taken <= n /\ n <= Len(sent) /\ taken' \in 0..Len(sent)
  BY <1>1, <1>3
<1>5. /\ sent \in Seq(Text) /\ got \in Seq(Text) /\ Text' = Text /\ TailLen' = TailLen
      /\ Flaws' = Flaws /\ \A m : Accepted(m)' <=> Accepted(m)
  BY <1>1, SameReply DEF IInv, ProxyTypes, Text, Flaws
<1>6. \A l \in Nat : GotSince(l) => got' \in Seq(Text) /\ GotSince(l)'
  BY <1>1, <1>3, <1>4, <1>5, GotMore
<1>7. CASE kind = "http"
  <2>1. PICK e \in 1..taken : Accepted(e) /\ GotSince(e)
    BY <1>1, <1>7 DEF IInv, Answered, HttpAccepted
  <2>2. e \in Nat /\ e \in 1..n
    BY <1>3, <1>4
  <2>3. got' \in Seq(Text) /\ GotSince(e)'
    BY <1>6, <2>1, <2>2
  <2>4. HttpAccepted'
    BY <1>1, <1>5, <2>1, <2>2, <2>3 DEF HttpAccepted
  <2> QED
    BY <1>1, <1>2, <1>3, <1>4, <1>5, <1>7, <2>3, <2>4
    DEF IInv, ProxyTypes, TypeOK, Reader, Control, Connects, Answered
<1>8. CASE kind = "socks5"
  <2>1. Socks5Accepted
    BY <1>1, <1>8 DEF IInv, Answered
  <2>2. 7 + TailLen \in Nat
    BY <1>8, <2>1, TailLenIsNat DEF Socks5Accepted
  <2>3. got' \in Seq(Text) /\ GotSince(7 + TailLen)'
    <3>1. \E l \in Nat : l = 7 + TailLen
      BY <2>2
    <3>2. PICK l \in Nat : l = 7 + TailLen
      BY <3>1
    <3>3. got' \in Seq(Text) /\ GotSince(l)'
      BY <1>6, <2>1, <3>2 DEF Socks5Accepted
    <3> QED
      BY <1>5, <3>2, <3>3 DEF GotSince
  <2>4. n >= 7 /\ n >= 2 /\ n >= 7 + TailLen
    BY <1>3, <1>4, <2>1, <2>2 DEF Socks5Accepted, HeadRight
  <2>5. Socks5Accepted'
    BY <1>1, <1>5, <2>1, <2>3, <2>4 DEF Socks5Accepted, HeadRight, MethodRight
  <2> QED
    BY <1>1, <1>2, <1>3, <1>4, <1>5, <1>8, <2>3, <2>5
    DEF IInv, ProxyTypes, TypeOK, Reader, Control, Connects, Answered
<1>9. kind \in {"http", "socks5"}
  BY DEF IInv, ProxyTypes, TypeOK
<1> QED
  BY <1>7, <1>8, <1>9

LEMMA CancelConnectStep ==
  ASSUME IInv, CancelConnect
  PROVE  IInv'
<1>1. /\ answer = "due" /\ alive /\ canceled'
      /\ UNCHANGED <<kind, step, fsm, sock, reader, answer, alive, sent, taken, got,
                     fin, reset, failed>>
  BY DEF CancelConnect, peerVars
<1>2. Working
  BY <1>1, Awaited
<1>3. Working'
  BY <1>1, <1>2 DEF Working, Reads, Looks, Writes, NothingRead, MethodRight, HeadRight, TailLen
<1>4. sock' \in Socket /\ reader' \in Reader /\ canceled' \in BOOLEAN /\ alive' \in BOOLEAN
      /\ failed' \subseteq Flaws
  BY <1>1, Machines DEF IInv, ProxyTypes, TypeOK, Control, CancelConnect
<1> QED
  BY <1>1, <1>3, <1>4, AsideStep

LEMMA DestroyFlowStep ==
  ASSUME IInv, DestroyFlow
  PROVE  IInv'
<1>1. /\ ~alive' /\ canceled' /\ alive' = FALSE /\ canceled' = TRUE
      /\ sock' = Destroy(sock) /\ reader' = CancelReader(reader)
      /\ UNCHANGED <<kind, step, fsm, answer, sent, taken, got, fin, reset, failed>>
  BY DEF DestroyFlow, peerVars
<1>2. sock' \in Socket /\ Silenced(sock') /\ reader' \in Reader /\ reader'.posted # "waiting"
  BY <1>1, Machines, SocketType, DestroySilences, ReaderParts DEF Silenced
<1>3. failed' \subseteq Flaws
  BY <1>1 DEF IInv, Control
<1> QED
  BY <1>1, <1>2, <1>3, AsideStep

LEMMA DropCallbackStep ==
  ASSUME IInv, DropCallback
  PROVE  IInv'
<1>1. UNCHANGED <<kind, step, fsm, answer, canceled, alive, sent, taken, got,
                  fin, reset, failed>>
  BY DEF DropCallback, unlessStep, peerVars
<1>2. /\ canceled' \in BOOLEAN /\ alive' \in BOOLEAN
      /\ failed' \subseteq Flaws
  BY <1>1 DEF IInv, ProxyTypes, TypeOK, Control
<1>3. sock \in Socket /\ reader \in Reader
  BY Machines
<1>4. ASSUME NEW op \in Ops, sock.cb[op] = "canceled", sock' = Return(sock, sock.fsm, op),
             reader' = reader
      PROVE  IInv'
  <2>1. /\ sock' \in Socket /\ sock'.fsm = sock.fsm
        /\ \A p \in Ops : sock'.cb[p] = IF p = op THEN "none" ELSE sock.cb[p]
    BY <1>3, <1>4 DEF Return, Socket, CallbackStates
  <2>2. Silenced(sock) => Silenced(sock')
    BY <2>1 DEF Silenced
  <2>3. ASSUME NEW s, NEW q PROVE ~Doing(sock, q) /\ ~At(sock, s, q)
    BY <1>4, DoingCallbacks, AtCallbacks
  <2>4. alive /\ answer = "due" => step = "ended" /\ Working
    <3>1. ASSUME alive, answer = "due" PROVE step = "ended" /\ Working
      <4>1. Working /\ step \in Steps \ {"new"}
        BY <3>1, Awaited
      <4> QED
        BY <2>3, <4>1 DEF Working, Steps, Reads, Writes
    <3> QED
      BY <3>1
  <2>5. alive /\ answer = "due" => Working'
    BY <1>1, <1>4, <2>2, <2>4 DEF Working
  <2>6. alive => answer # "none"
    BY <2>3 DEF IInv, Control
  <2>7. alive /\ answer = "ok" => Connects'
    BY <1>4, <2>1, <2>2, <2>3 DEF IInv, Control, Connects
  <2> QED
    BY <1>1, <1>2, <1>3, <1>4, <2>1, <2>2, <2>5, <2>6, <2>7, AsideStep DEF IInv, Control
<1>5. ASSUME reader.posted = "canceled", reader' = Delivered(reader), sock' = sock
      PROVE  IInv'
  <2>1. ~alive
    <3>1. ASSUME alive PROVE FALSE
      <4>1. answer \in {"none", "due", "ok", "error"}
        BY DEF IInv, ProxyTypes, TypeOK
      <4>2. answer # "due"
        <5>1. answer = "due" => Working /\ step \in Steps \ {"new"}
          BY <3>1, Awaited
        <5> QED
          BY <1>5, <5>1 DEF Working, Steps, Reads, Looks, Writes, NothingRead
      <4> QED
        BY <1>5, <3>1, <4>1, <4>2 DEF IInv, Control, Connects, NothingRead
    <3> QED
      BY <3>1
  <2>2. reader' \in Reader /\ reader'.posted = "none"
    BY <1>3, <1>5, ReaderParts
  <2>3. sock' \in Socket /\ Silenced(sock') /\ canceled'
    BY <1>1, <1>3, <1>5, <2>1 DEF IInv, Control
  <2> QED
    BY <1>1, <1>2, <2>1, <2>2, <2>3, AsideStep
<1> QED
  BY <1>4, <1>5 DEF DropCallback

LEMMA PeerResetsStep ==
  ASSUME IInv, PeerResets
  PROVE  IInv'
<1>1. /\ reset' /\ reset' \in BOOLEAN
      /\ UNCHANGED <<kind, step, fsm, sock, reader, answer, canceled, alive, sent, taken,
                     got, fin, failed>>
  BY DEF PeerResets
<1>2. /\ Text' = Text /\ TailLen' = TailLen /\ Flaws' = Flaws
      /\ \A m : Accepted(m)' <=> Accepted(m)
  BY <1>1, SameReply DEF Text, Flaws
<1>3. ProxyTypes'
  BY <1>1, <1>2 DEF IInv, ProxyTypes, TypeOK, Reader
<1>4. Control'
  BY <1>1, <1>2 DEF IInv, Control, Working, Reads, Looks, Writes, NothingRead, MethodRight,
                    HeadRight, Connects
<1>5. Answered'
  BY <1>1, <1>2 DEF IInv, Answered, HttpAccepted, Socks5Accepted, GotSince, HeadRight,
                    MethodRight
<1> QED
  BY <1>3, <1>4, <1>5 DEF IInv

LEMMA PeerClosesStep ==
  ASSUME IInv, PeerCloses
  PROVE  IInv'
<1>1. /\ fin' /\ fin' = TRUE
      /\ UNCHANGED <<kind, step, fsm, sock, reader, answer, canceled, alive, taken, got,
                     reset, failed>>
  BY DEF PeerCloses
<1>2. PICK n \in taken..Len(sent) : sent' = SubSeq(sent, 1, n)
  BY DEF PeerCloses
<1>3. /\ taken \in Nat /\ Len(sent) \in Nat /\ n \in Nat /\ taken <= n /\ n <= Len(sent)
      /\ sent \in Seq(Text) /\ Text' = Text /\ Flaws' = Flaws
  BY <1>1, <1>2, Machines DEF IInv, ProxyTypes, Text, Flaws
<1>4. /\ sent' \in Seq(Text) /\ Len(sent') = n
      /\ \A i \in 1..n : sent'[i] = sent[i]
  BY <1>2, <1>3, Cut
<1>5. ASSUME NEW q, NEW a \in Nat, NEW b \in Nat, b <= taken, Part(q, sent, a, b)
      PROVE  Part(q, sent', a, b)
  BY <1>3, <1>4, <1>5, PartCut
<1>6. taken' \in 0..Len(sent')
  BY <1>1, <1>3, <1>4
<1>7. ProxyTypes'
  BY <1>1, <1>3, <1>4, <1>6 DEF IInv, ProxyTypes, TypeOK, Reader
<1>9. MethodRight => MethodRight'
  <2>1. taken >= 2 => 1 \in 1..n /\ 2 \in 1..n
    BY <1>3
  <2> QED
    BY <1>1, <1>4, <2>1 DEF MethodRight
<1>10. HeadRight => HeadRight' /\ TailLen' = TailLen
  <2>1. taken >= 7 => \A i \in {3, 4, 5, 6, 7} : i \in 1..n
    BY <1>3
  <2>2. HeadRight => \A i \in {3, 4, 5, 6, 7} : sent'[i] = sent[i]
    BY <1>4, <2>1 DEF HeadRight
  <2> QED
    BY <1>1, <1>9, <2>2 DEF HeadRight, TailLen
<1>11. ASSUME NEW c \in Nat, NEW k \in Nat, Reads(c, k)
       PROVE  Reads(c, k)'
  <2>1. c + k \in Nat
    OBVIOUS
  <2>2. Looks(reader, c, k, taken)
    BY <1>11 DEF Reads
  <2>3. CASE /\ reader.posted = "waiting" /\ Part(reader.out, sent, c, c + k)
             /\ Part(reader.buf, sent, c + k, taken)
    <3>1. c + k <= taken
      BY <2>3 DEF Part
    <3>2. Part(reader.out, sent', c, c + k) /\ Part(reader.buf, sent', c + k, taken)
      BY <1>3, <1>5, <2>1, <2>3, <3>1
    <3> QED
      BY <1>1, <1>11, <2>3, <3>2 DEF Reads, Looks
  <2>4. CASE /\ reader.posted = "none" /\ reader.want = k
             /\ Part(reader.buf, sent, c, taken)
    <3>1. Part(reader.buf, sent', c, taken)
      BY <1>3, <1>5, <2>4
    <3> QED
      BY <1>1, <1>11, <2>4, <3>1 DEF Reads, Looks
  <2> QED
    BY <2>2, <2>3, <2>4 DEF Looks
<1>12. ASSUME Working PROVE Working'
  <2>1. step = "method" => Reads(0, 2)'
    BY <1>11, <1>12 DEF Working
  <2>2. step = "head" => Reads(2, 5)' /\ MethodRight'
    BY <1>9, <1>11, <1>12 DEF Working
  <2>3. step = "tail" => Reads(7, TailLen)' /\ HeadRight'
    <3>1. ASSUME step = "tail" PROVE Reads(7, TailLen)' /\ HeadRight'
      <4>1. Reads(7, TailLen) /\ HeadRight
        BY <1>12, <3>1 DEF Working
      <4>2. TailLen \in Nat
        BY <4>1, TailLenIsNat DEF Reads
      <4>3. PICK k \in Nat : k = TailLen
        BY <4>2
      <4>4. Reads(7, k)'
        BY <1>11, <4>1, <4>3
      <4> QED
        BY <1>10, <4>1, <4>3, <4>4 DEF Reads, Looks
    <3> QED
      BY <3>1
  <2>4. step = "requesting" =>
          (kind = "socks5" /\ Writes /\ MethodRight /\ Part(reader.buf, sent, 2, taken))'
    <3>1. step = "requesting" => Part(reader.buf, sent', 2, taken)
      BY <1>3, <1>5, <1>12 DEF Working
    <3> QED
      BY <1>1, <1>9, <1>12, <3>1 DEF Working, Writes
  <2> QED
    BY <1>1, <1>12, <2>1, <2>2, <2>3, <2>4 DEF Working, Writes, NothingRead
<1>13. Control'
  BY <1>1, <1>3, <1>12 DEF IInv, Control, NothingRead, Connects
<1>14. ASSUME NEW l \in Nat, GotSince(l)
       PROVE  GotSince(l)'
  <2>1. Len(got) \in Nat /\ l + Len(got) = taken /\ Part(got, sent, l, taken)
    BY <1>14, LenProperties DEF GotSince, IInv, ProxyTypes
  <2>2. Part(got, sent', l, taken)
    BY <1>3, <1>5, <2>1
  <2> QED
    BY <1>1, <2>1, <2>2 DEF GotSince
<1>15. HttpAccepted => HttpAccepted'
  <2>1. ASSUME NEW e \in 1..taken, Accepted(e), GotSince(e)
        PROVE  HttpAccepted'
    <3>1. e \in Nat /\ e \in 1..n
      BY <1>3
    <3>2. Accepted(e)'
      BY <1>3, <1>4, <2>1, <3>1, Prefix
    <3> QED
      BY <1>1, <1>14, <2>1, <3>1, <3>2 DEF HttpAccepted
  <2> QED
    BY <2>1 DEF HttpAccepted
<1>16. kind = "socks5" /\ Socks5Accepted => Socks5Accepted'
  <2>1. ASSUME kind = "socks5", Socks5Accepted PROVE Socks5Accepted'
    <3>1. TailLen \in Nat /\ HeadRight' /\ TailLen' = TailLen
      BY <1>10, <2>1, TailLenIsNat DEF Socks5Accepted
    <3>2. PICK l \in Nat : l = 7 + TailLen
      BY <3>1
    <3>3. GotSince(l)'
      BY <1>14, <2>1, <3>2 DEF Socks5Accepted
    <3>4. GotSince(7 + TailLen)'
      BY <3>1, <3>2, <3>3 DEF GotSince
    <3> QED
      BY <1>1, <2>1, <3>1, <3>4 DEF Socks5Accepted
  <2> QED
    BY <2>1
<1>17. Answered'
  BY <1>1, <1>15, <1>16 DEF IInv, ProxyTypes, TypeOK, Answered
<1> QED
  BY <1>7, <1>13, <1>17 DEF IInv

-----------------------------------------------------------------------------
(* The invariant.                                                          *)

LEMMA InitInv ==
  ASSUME Init
  PROVE  IInv
<1>1. /\ kind \in {"http", "socks5"} /\ step = "new" /\ fsm = NewFlow("Remote")
      /\ sock = NewSocket("Remote") /\ reader = NewReader /\ answer = "none"
      /\ canceled = FALSE /\ alive = TRUE /\ taken = 0 /\ got = <<>>
      /\ fin = FALSE /\ reset = FALSE /\ failed = {}
  BY DEF Init
<1>2. PICK r \in (IF kind = "http" THEN HttpReplies ELSE Socks5Replies),
           p \in Payloads[kind] : sent = r \o p
  BY DEF Init
<1>3. ASSUME kind = "http"
      PROVE  sent \in Seq(Token)
  <2>1. r \in Seq(Token) /\ p \in Seq(Token)
    BY <1>2, <1>3, HttpAssumption
  <2> QED
    BY <1>2, <2>1, ConcatProperties
<1>4. ASSUME kind = "socks5"
      PROVE  sent \in Seq(Byte)
  <2>1. r \in Seq(Byte) /\ p \in Seq(Byte)
    BY <1>2, <1>4, Socks5Assumption
  <2> QED
    BY <1>2, <2>1, ConcatProperties
<1>5. sent \in Seq(Text)
  BY <1>1, <1>3, <1>4 DEF Text
<1>6. fsm \in Flow /\ sock \in Socket /\ fsm.state = "Init"
  BY <1>1, NewSocketType DEF NewFlow, Flow, Types, States
<1>7. reader \in Reader /\ NothingRead
  BY <1>1, EmptySeq DEF NewReader, Reader, CallbackStates, NothingRead
<1>8. At(sock, "Init", "-")
  BY <1>1, CallNames DEF NewSocket, NewFlow, At
<1>9. ProxyTypes
  <2>1. Len(sent) \in Nat /\ got \in Seq(Text)
    BY <1>1, <1>5, EmptySeq, LenProperties
  <2>2. taken \in 0..Len(sent)
    BY <1>1, <2>1
  <2> QED
    BY <1>1, <1>5, <1>6, <1>7, <2>1, <2>2 DEF ProxyTypes, TypeOK, Reader, Steps
<1>10. Control
  BY <1>1, <1>6, <1>7, <1>8 DEF Control
<1>11. Answered
  BY <1>1 DEF Answered
<1> QED
  BY <1>9, <1>10, <1>11 DEF IInv

LEMMA NextInv ==
  ASSUME IInv, [Next]_vars
  PROVE  IInv'
<1>1. CASE UNCHANGED vars
  <2>1. UNCHANGED <<kind, step, fsm, sock, reader, answer, canceled, alive, sent, taken,
                    got, fin, reset, failed>>
    BY <1>1 DEF vars, peerVars
  <2>2. /\ Text' = Text /\ TailLen' = TailLen /\ Reply' = Reply /\ Flaws' = Flaws
        /\ \A m : Accepted(m)' <=> Accepted(m)
    BY <2>1, SameReply DEF Text, Flaws
  <2>3. (Working <=> Working') /\ (Connects <=> Connects') /\ (NothingRead <=> NothingRead')
    BY <2>1, <2>2 DEF Working, Reads, Looks, Writes, NothingRead, MethodRight, HeadRight,
                      Connects
  <2>4. ProxyTypes' /\ Control'
    BY <2>1, <2>2, <2>3 DEF IInv, ProxyTypes, TypeOK, Reader, Control
  <2>5. Answered'
    BY <2>1, <2>2 DEF IInv, Answered, HttpAccepted, Socks5Accepted, GotSince, HeadRight,
                      MethodRight
  <2> QED
    BY <2>4, <2>5 DEF IInv
<1>2. CASE Connecting
  BY <1>2, ConnectingStep
<1>3. CASE Negotiates
  BY <1>3, SocketConnectedStep, ConnectBrokeStep, WroteStep, WriteBrokeStep, MethodReadStep,
     HeadReadStep, TailReadStep, ReadEndedStep, ReadBrokeStep, ResponseReadStep,
     ReaderFedStep DEF Negotiates
<1>4. CASE TunnelReads \/ TunnelGetsEnd \/ \E n \in 1..Len(sent) : TunnelGets(n)
  BY <1>4, TunnelReadsStep, TunnelGetsEndStep, TunnelGetsStep
<1>5. CASE CancelConnect \/ DestroyFlow \/ DropCallback \/ PeerCloses \/ PeerResets
  BY <1>5, CancelConnectStep, DestroyFlowStep, DropCallbackStep, PeerClosesStep,
     PeerResetsStep
<1> QED
  BY <1>1, <1>2, <1>3, <1>4, <1>5 DEF Next, Done

\* Every step of the negotiation has the socket and the reader it waits for; what a
\* SOCKS5 flow has read so far is a reply that accepts, up to there; and a flow that
\* is connected had read what Accepted says, the tunnel all that came behind it.
THEOREM Inductive == Spec => []IInv
<1>1. Init => IInv
  BY InitInv
<1>2. IInv /\ [Next]_vars => IInv'
  BY NextInv
<1> QED
  BY <1>1, <1>2, PTL DEF Spec

-----------------------------------------------------------------------------
(* What it comes to.                                                       *)

\* Where the rewriter's assertion fails, a newline stands outside a header.
NewlineOutside == kind = "http" /\ failed # {} =>
  \E i \in 1..taken : sent[i] \in Newlines /\ ~InHeader(i - 1)

LEMMA ResponseReadOutside ==
  ASSUME IInv, NewlineOutside, NEW n, ResponseRead(n)
  PROVE  NewlineOutside'
<1>1. /\ n \in taken + 1..Len(sent) /\ taken' = n /\ UNCHANGED <<kind, sent>>
      /\ taken \in Nat /\ Len(sent) \in Nat
  BY Machines DEF ResponseRead, unlessStep
<1>2. /\ \A i : InHeader(i)' <=> InHeader(i)
      /\ \A i \in 1..taken : i \in 1..n
  BY <1>1, SameReply
<1>3. CASE failed # {}
  BY <1>1, <1>2, <1>3 DEF NewlineOutside
<1>4. CASE \E i \in taken + 1..n : BeginsAgain(i)
  <2>1. PICK i \in taken + 1..n : BeginsAgain(i)
    BY <1>4
  <2>2. CASE sent[i] = "end"
    <3>1. i \in 1..n /\ sent[i] \in Newlines /\ ~InHeader(i - 1)
      BY <1>1, <2>1, <2>2 DEF BeginsAgain, Newlines
    <3> QED
      BY <1>1, <1>2, <3>1 DEF NewlineOutside
  <2>3. CASE i > 1 /\ sent[i - 1] \in Newlines /\ ~Ends(i - 1)
    <3>1. PICK j \in 1..n : j = i - 1
      BY <1>1, <2>3
    <3>2. sent[j] \in Newlines /\ ~InHeader(j - 1)
      BY <2>3, <3>1 DEF Ends
    <3> QED
      BY <1>1, <1>2, <3>2 DEF NewlineOutside
  <2> QED
    BY <2>1, <2>2, <2>3 DEF BeginsAgain
<1>5. CASE failed = {} /\ ~ \E i \in taken + 1..n : BeginsAgain(i)
  <2>1. Waiting("Read") /\ step = "response" /\ answer = "due" /\ alive
    <3>1. answer = "due"
      BY DEF ResponseRead, IInv, Control, ProxyTypes, TypeOK
    <3> QED
      BY <3>1, AwaitedBy, CallNames DEF ResponseRead
  <2>2. CanReadDone(sock)
    BY <2>1, Awaited, Machines, DoingRead
  <2>3. failed' = {}
    BY <1>1, <1>5, <2>2 DEF ResponseRead, Assert, ReadChecks, Check
  <2> QED
    BY <2>3 DEF NewlineOutside
<1> QED
  BY <1>3, <1>4, <1>5

LEMMA PeerClosesOutside ==
  ASSUME IInv, NewlineOutside, PeerCloses
  PROVE  NewlineOutside'
<1>1. UNCHANGED <<kind, taken, failed>>
  BY DEF PeerCloses
<1>2. PICK n \in taken..Len(sent) : sent' = SubSeq(sent, 1, n)
  BY DEF PeerCloses
<1>3. /\ taken \in Nat /\ n \in Nat /\ taken <= n /\ n <= Len(sent) /\ Len(sent) \in Nat
      /\ sent \in Seq(Text)
  BY <1>2, Machines DEF IInv, ProxyTypes
<1>4. \A i \in 1..n : sent'[i] = sent[i]
  BY <1>2, <1>3, Cut
<1>5. \A i \in 1..taken : i \in 1..n /\ i - 1 \in 0..n
  BY <1>3
<1>6. \A i \in 1..taken : sent'[i] = sent[i] /\ (InHeader(i - 1)' <=> InHeader(i - 1))
  BY <1>3, <1>4, <1>5, Prefix
<1> QED
  BY <1>1, <1>6 DEF NewlineOutside

\* The other assertions do not fail for an HTTP flow.
LEMMA OtherOutside ==
  ASSUME IInv, IInv', NewlineOutside, UNCHANGED <<kind, sent>>, taken' \in Nat,
         taken <= taken', "rewriter.OnMessageBegin" \in failed' =>
                            "rewriter.OnMessageBegin" \in failed
  PROVE  NewlineOutside'
<1>1. \A i : InHeader(i)' <=> InHeader(i)
  BY SameReply
<1>2. taken \in Nat
  BY Machines
<1>3. \A i \in 1..taken : i \in 1..taken'
  BY <1>2
<1>4. kind = "http" /\ failed' # {} => "rewriter.OnMessageBegin" \in failed'
  <2>1. failed' \subseteq Flaws' /\ Flaws' = Flaws
    BY DEF IInv, Control, Flaws
  <2> QED
    BY <2>1 DEF Flaws
<1> QED
  BY <1>1, <1>3, <1>4 DEF NewlineOutside

LEMMA NextOutside ==
  ASSUME IInv, NewlineOutside, [Next]_vars
  PROVE  NewlineOutside'
<1>1. IInv' /\ taken \in Nat
  BY NextInv, Machines
<1>2. CASE \E n \in 1..Len(sent) : ResponseRead(n)
  BY <1>2, ResponseReadOutside
<1>3. CASE PeerCloses
  BY <1>3, PeerClosesOutside
<1>4. CASE \/ UNCHANGED vars \/ SocketConnected \/ ConnectBroke \/ WriteBroke
           \/ MethodRead \/ HeadRead \/ TailRead \/ ReadBroke \/ TunnelGetsEnd
           \/ CancelConnect \/ DestroyFlow \/ DropCallback \/ PeerResets
  <2>1. UNCHANGED <<kind, sent, taken, failed>>
    BY <1>4 DEF vars, SocketConnected, ConnectBroke, WriteBroke, MethodRead, HeadRead, TailRead,
         ReadBroke, TunnelGetsEnd, CancelConnect, DestroyFlow, DropCallback, PeerResets,
         unlessStep
  <2> QED
    BY <1>1, <2>1, OtherOutside
<1>5. CASE Connecting \/ Wrote \/ ReadEnded \/ TunnelReads
  <2>1. UNCHANGED <<kind, sent, taken>>
    BY <1>5 DEF Connecting, Wrote, ReadEnded, TunnelReads, unlessStep
  <2>2. "rewriter.OnMessageBegin" \in failed' => "rewriter.OnMessageBegin" \in failed
    BY <1>5 DEF Connecting, Wrote, ReadEnded, TunnelReads, Assert, Check, ReadChecks
  <2> QED
    BY <1>1, <2>1, <2>2, OtherOutside
<1>6. CASE \E n \in 1..Len(sent) : ReaderFed(n) \/ TunnelGets(n)
  <2>1. PICK n \in 1..Len(sent) : ReaderFed(n) \/ TunnelGets(n)
    BY <1>6
  <2>2. UNCHANGED <<kind, sent>> /\ n \in taken + 1..Len(sent) /\ taken' = n
    BY <2>1 DEF ReaderFed, TunnelGets, unlessStep
  <2>3. taken' \in Nat /\ taken <= taken'
    BY <1>1, <2>2
  <2>4. "rewriter.OnMessageBegin" \in failed' => "rewriter.OnMessageBegin" \in failed
    BY <2>1 DEF ReaderFed, TunnelGets, Assert, Check, ReadChecks
  <2> QED
    BY <1>1, <2>2, <2>3, <2>4, OtherOutside
<1> QED
  BY <1>2, <1>3, <1>4, <1>5, <1>6 DEF Next, Negotiates, Done

\* Exactly one thing is awaited at every step of a negotiation, the machine follows
\* the answer, nothing runs of a flow destroyed, and two assertions can fail: the one
\* on a SOCKS5 flow that reports success before it is established, and the rewriter's
\* on a message that begins twice, where a newline stands outside a header.
THEOREM RemoteSafe == Spec => []RemoteInv
<1>1. NewlineOutside /\ IInv => RemoteInv
  <2> SUFFICES ASSUME NewlineOutside, IInv PROVE RemoteInv
    OBVIOUS
  <2>1. TypeOK
    BY DEF IInv, ProxyTypes
  <2>2. OneThingAwaited
    <3> SUFFICES ASSUME answer = "due", ~canceled
        PROVE  /\ step = "connecting" => Waiting("Connect")
               /\ step \in {"greeting", "requesting"} => Waiting("Write") /\ ~Waiting("Read")
               /\ step = "response" => Waiting("Read")
               /\ step \in {"method", "head", "tail"} =>
                    (reader.posted = "waiting") # Waiting("Read")
               /\ step # "ended"
      BY DEF OneThingAwaited
    <3>1. alive /\ "Connect" \in Ops /\ "Read" \in Ops /\ "Write" \in Ops
      BY DEF IInv, Control, Ops
    <3>2. Working
      BY <3>1, Awaited
    <3>3. step = "connecting" => Waiting("Connect")
      BY <3>1, <3>2, AtCallbacks DEF Working, Waiting
    <3>4. step \in {"greeting", "requesting"} => Waiting("Write") /\ ~Waiting("Read")
      BY <3>1, <3>2, DoingCallbacks DEF Working, Writes, Waiting
    <3>5. step = "response" => Waiting("Read")
      BY <3>1, <3>2, DoingCallbacks DEF Working, Waiting
    <3>6. ASSUME step \in {"method", "head", "tail"}
          PROVE  (reader.posted = "waiting") # Waiting("Read")
      <4>1. /\ reader.posted \in {"none", "waiting"}
            /\ Doing(sock, IF reader.posted = "none" THEN "Read" ELSE "-")
        BY <3>2, <3>6 DEF Working, Reads, Looks
      <4>2. Waiting("Read") <=> reader.posted = "none"
        BY <3>1, <4>1, DoingCallbacks DEF Waiting
      <4>3. reader.posted = "waiting" <=> ~Waiting("Read")
        BY <4>1, <4>2
      <4> QED
        BY <4>3
    <3>7. step # "ended"
      BY <3>2 DEF Working
    <3> QED
      BY <3>3, <3>4, <3>5, <3>6, <3>7
  <2>3. MachineFollows
    BY DEF MachineFollows, IInv, Control, Silenced, Waiting
  <2>4. AssertionsHold
    BY DEF AssertionsHold, IInv, Control, Flaws, NewlineOutside
  <2> QED
    BY <2>1, <2>2, <2>3, <2>4 DEF RemoteInv
<1>2. Init => NewlineOutside
  BY DEF Init, NewlineOutside
<1>3. IInv /\ NewlineOutside /\ [Next]_vars => NewlineOutside'
  BY NextOutside
<1> QED
  BY <1>1, <1>2, <1>3, Inductive, PTL DEF Spec

\* However the replies are split into reads: the tunnel gets all that comes behind a
\* certain place, in order.  It is the end of a reply that accepts, unless an HTTP
\* flow read more with it, which is then lost.  Failure means that the proxy refused
\* or went away, or that something came in the same read as the end of its reply.
THEOREM Understood == Spec => []ProxyUnderstood
<1>1. IInv => ProxyUnderstood
  <2> SUFFICES ASSUME IInv PROVE ProxyUnderstood
    OBVIOUS
  <2>1. /\ taken \in Nat /\ Len(sent) \in Nat /\ taken <= Len(sent)
        /\ sent \in Seq(Text) /\ got \in Seq(Text) /\ Len(got) \in Nat
        /\ kind \in {"http", "socks5"}
    BY Machines, LenProperties DEF IInv, ProxyTypes, TypeOK
  <2>2. ASSUME NEW l \in Nat, GotSince(l)
        PROVE  l <= taken /\ got = SubSeq(sent, l + 1, taken)
    <3>1. l <= taken /\ Part(got, sent, l, taken)
      BY <2>1, <2>2 DEF GotSince
    <3> QED
      BY <2>1, <3>1, PartIs
  <2>3. ASSUME answer = "ok"
        PROVE  \E m \in Reply.len..taken :
                 /\ got = SubSeq(sent, m + 1, taken)
                 /\ m = Reply.len => Reply.good
                 /\ m # Reply.len => kind = "http" /\ ~Refused(m) /\ Success(m)
    <3>1. CASE kind = "http"
      <4>1. PICK m \in 1..taken : Accepted(m) /\ GotSince(m)
        BY <2>3, <3>1 DEF IInv, Answered, HttpAccepted
      <4>2. m \in Nat /\ m \in 1..Len(sent) /\ Complete(m) /\ ~Refused(m) /\ Success(m)
        BY <2>1, <4>1 DEF Accepted
      <4>3. Reply.len \in 1..m /\ (Reply.good <=> ~Refused(Reply.len) /\ Success(Reply.len))
        BY <2>1, <3>1, <4>2, HttpReply
      <4>4. m \in Reply.len..taken /\ got = SubSeq(sent, m + 1, taken)
        BY <2>1, <2>2, <4>1, <4>2, <4>3
      <4> QED
        BY <3>1, <4>2, <4>3, <4>4
    <3>2. CASE kind = "socks5"
      <4>1. HeadRight /\ taken >= 7 + TailLen /\ GotSince(7 + TailLen)
        BY <2>3, <3>2 DEF IInv, Answered, Socks5Accepted
      <4>2. TailLen \in Nat
        BY <3>2, <4>1, TailLenIsNat
      <4>3. Len(sent) >= 7 /\ sent[6] \in {1, 3, 4} /\ Len(sent) >= 7 + TailLen
        BY <2>1, <4>1, <4>2 DEF HeadRight
      <4>4. Reply.good /\ Reply.len = 7 + TailLen
        BY <2>1, <3>2, <4>1, <4>3, Socks5Reply DEF Text
      <4>5. PICK m \in Nat : m = 7 + TailLen
        BY <4>2
      <4>6. GotSince(m) /\ m <= taken /\ m = Reply.len
        BY <4>1, <4>4, <4>5
      <4>7. m \in Reply.len..taken /\ got = SubSeq(sent, m + 1, taken)
        BY <2>1, <2>2, <4>6
      <4> QED
        BY <4>4, <4>6, <4>7
    <3> QED
      BY <2>1, <3>1, <3>2
  <2> QED
    BY <2>3 DEF ProxyUnderstood, IInv, Answered
<1> QED
  BY <1>1, Inductive, PTL

-----------------------------------------------------------------------------
(* The promise of Answers.tla.                                             *)

Calling == [c \in {"connect"} |->
              IF answer = "none" THEN "idle"
              ELSE IF answer # "due" THEN "answered"
              ELSE IF canceled THEN "cancelled" ELSE "open"]

LEMMA CallingStep ==
  ASSUME IInv, IInv',
         \/ answer' = answer /\ canceled' = canceled
         \/ answer = "none" /\ answer' = "due" /\ ~canceled /\ ~canceled'
         \/ answer = "due" /\ ~canceled /\ answer' \in {"ok", "error"}
         \/ answer' = answer /\ canceled'
  PROVE  [Promise!Next]_Calling
<1>1. /\ answer \in {"none", "due", "ok", "error"} /\ answer' \in {"none", "due", "ok", "error"}
      /\ canceled \in BOOLEAN /\ canceled' \in BOOLEAN
  BY DEF IInv, ProxyTypes, TypeOK
<1>2. CASE answer = "none" /\ answer' = "due" /\ ~canceled /\ ~canceled'
  <2>1. Promise!Ask("connect")
    BY <1>2 DEF Promise!Ask
  <2> QED
    BY <2>1 DEF Promise!Next
<1>3. CASE answer = "due" /\ ~canceled /\ answer' \in {"ok", "error"}
  <2>1. Promise!Answer("connect")
    BY <1>3 DEF Promise!Answer
  <2> QED
    BY <2>1 DEF Promise!Next
<1>4. CASE answer' = answer /\ canceled' /\ ~canceled /\ answer = "due"
  <2>1. Promise!Cancel({"connect"})
    BY <1>4 DEF Promise!Cancel
  <2> QED
    BY <2>1 DEF Promise!Next
<1>5. CASE answer' = answer /\ (canceled' = canceled \/ answer # "due")
  BY <1>5 DEF Calling
<1> QED
  BY <1>1, <1>2, <1>3, <1>4, <1>5

LEMMA PromiseStep ==
  ASSUME IInv, [Next]_vars
  PROVE  [Promise!Next]_Calling
<1>1. IInv'
  BY NextInv
<1>2. CASE Connecting
  <2>1. answer = "none" /\ answer' = "due" /\ ~canceled /\ ~canceled'
    BY <1>2 DEF Connecting, IInv, Control
  <2> QED
    BY <1>1, <2>1, CallingStep
<1>3. CASE Negotiates
  <2>1. answer = "due"
    BY <1>3, AwaitedBy DEF Negotiates, SocketConnected, ConnectBroke, Wrote, WriteBroke,
         MethodRead, HeadRead, TailRead, ReadEnded, ReadBroke, ResponseRead, ReaderFed, IInv,
         Control, ProxyTypes, TypeOK
  <2>2. canceled' = canceled
    BY <1>3 DEF Negotiates, SocketConnected, ConnectBroke, Wrote, WriteBroke, MethodRead,
         HeadRead, TailRead, ReadEnded, ReadBroke, ResponseRead, ReaderFed, unlessStep
  <2>3. answer' = answer \/ (~canceled /\ answer' \in {"ok", "error"})
    <3>1. CASE SocketConnected
      BY <3>1 DEF SocketConnected, GoOn, Silent
    <3>2. CASE ConnectBroke \/ WriteBroke \/ ReadBroke \/ ReadEnded
      BY <3>2 DEF ConnectBroke, WriteBroke, ReadBroke, ReadEnded, Refuse, Silent
    <3>3. CASE Wrote
      BY <3>3 DEF Wrote, GoOn, Silent
    <3>4. CASE MethodRead
      BY <3>4 DEF MethodRead, GoOn, Silent, Refuse
    <3>5. CASE HeadRead
      BY <3>5 DEF HeadRead, GoOn, Silent, Refuse
    <3>6. CASE TailRead
      BY <3>6 DEF TailRead, Accept, Silent, Refuse
    <3>7. CASE \E n \in 1..Len(sent) : ResponseRead(n)
      BY <3>7 DEF ResponseRead, GoOn, Silent, Refuse, Accept
    <3>8. CASE \E n \in 1..Len(sent) : ReaderFed(n)
      BY <3>8 DEF ReaderFed, GoOn
    <3> QED
      BY <1>3, <3>1, <3>2, <3>3, <3>4, <3>5, <3>6, <3>7, <3>8 DEF Negotiates
  <2> QED
    BY <1>1, <2>1, <2>2, <2>3, CallingStep
<1>4. CASE \/ TunnelReads \/ TunnelGetsEnd \/ \E n \in 1..Len(sent) : TunnelGets(n)
           \/ DropCallback \/ PeerCloses \/ PeerResets \/ UNCHANGED vars
  <2>1. answer' = answer /\ canceled' = canceled
    BY <1>4 DEF TunnelReads, TunnelGetsEnd, TunnelGets, DropCallback, PeerCloses, PeerResets,
         unlessStep, vars
  <2> QED
    BY <1>1, <2>1, CallingStep
<1>5. CASE CancelConnect \/ DestroyFlow
  <2>1. answer' = answer /\ canceled'
    BY <1>5 DEF CancelConnect, DestroyFlow
  <2> QED
    BY <1>1, <2>1, CallingStep
<1> QED
  BY <1>2, <1>3, <1>4, <1>5 DEF Next, Done

\* Connect is answered at most once, and never after it was cancelled or the flow
\* destroyed: the safety half of ProxyPromise.
THEOREM KeepsPromise == Spec => Promise!Spec
<1>1. Init => Promise!Init
  BY DEF Init, Promise!Init
<1>2. IInv /\ [Next]_vars => [Promise!Next]_Calling
  BY PromiseStep
<1> QED
  BY <1>1, <1>2, Inductive, PTL DEF Spec, Promise!Spec, Calling

==============================================================================
