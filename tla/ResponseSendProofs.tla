-------------------------- MODULE ResponseSendProofs --------------------------
(***************************************************************************)
(* Proofs about ResponseSend: its type invariant and its safety properties *)
(* for any response, body length, chunk size, channel limit and number of  *)
(* capsules, whatever calls quiche refuses and wherever it cuts a chunk.   *)
(***************************************************************************)
EXTENDS ResponseSend, TLAPS, SequenceTheorems

HeaderKinds == {"interim", "final", "open"}

\* The two headers of a response.
Interim == Item("interim", <<>>)
Final == Item(IF IsSession THEN "open" ELSE "final", <<>>)

\* The final header was queued.
Queued == prod \in {"callback", "done"}

\* The headers that were queued and that quiche has not accepted, in order.
InterimUnsent == plan.status /\ prod # "status" /\ wire.interim = 0
FinalUnsent == Queued /\ wire.final = 0
Unsent == CASE InterimUnsent /\ FinalUnsent -> <<Interim, Final>>
            [] InterimUnsent /\ ~FinalUnsent -> <<Interim>>
            [] ~InterimUnsent /\ FinalUnsent -> <<Final>>
            [] OTHER -> <<>>

\* The item x is the next header, and the channel holds the ones behind it.
Ahead(x) == Unsent # <<>> /\ x = Head(Unsent) /\ high = Tail(Unsent)

\* What has been taken from the low priority channel so far.
Sent == wire.bytes \o partial \o taken.data

\* The items of q continue the bytes of s in whole chunks, but for the last.
Follows(s, q) ==
    /\ s = Bytes(0, Len(s))
    /\ \A i \in 1..Len(q) :
          /\ Len(q[i].data) \in 1..ChunkSize
          /\ q[i].data = Bytes(Len(s) + (i - 1) * ChunkSize, Len(q[i].data))
          /\ i < Len(q) => Len(q[i].data) = ChunkSize

\* The last of them is whole too.
Full(q) == q # <<>> => Len(q[Len(q)].data) = ChunkSize

\* The number of bytes in s and q together.
EndOf(s, q) == IF q = <<>> THEN Len(s)
               ELSE Len(s) + (Len(q) - 1) * ChunkSize + Len(q[Len(q)].data)

\* A popped item is alone, and only a live stream that is not finished has one.
TakenPart ==
    /\ taken # NoItem => /\ conn = "up" /\ ~wire.fin
                         /\ pendingQ = <<>> /\ partial = <<>>
    /\ taken.kind \in HeaderKinds \cup {"none"} => taken.data = <<>>
    /\ taken.kind = "body" => ~IsSession
    /\ taken.kind = "capsule" => IsSession
    /\ taken.kind \in {"body", "capsule"} => wire.final = 1 /\ taken.data # <<>>

\* A stream that is gone keeps nothing of the client, a reset one no channel.
ConnPart ==
    /\ conn # "up" => pendingQ = <<>> /\ partial = <<>>
    /\ conn = "shut" => IsSession /\ Queued /\ ~chan.set

\* A channel that is not there, or not any more, holds nothing and is used by
\* nobody but a session; it goes only once the final header was queued.
ChannelPart ==
    /\ ~chan.set => /\ ~chan.reset /\ high = <<>> /\ low = <<>>
                    /\ counter = 0 /\ job = NoJob
                    /\ prod = "status" \/ (prod = "final" /\ ~plan.status) \/ Queued
                    /\ Queued /\ conn = "up" => wire.final = 1
    /\ prod = "status" => plan.status
    /\ prod = "callback" \/ chan.reset => IsSession /\ Queued
    /\ session.holds \/ session.queued > 0 => IsSession /\ Queued
    /\ session.holds => session.queued < MaxCapsules
    /\ \A i \in 1..Len(low) :
          low[i].kind = IF IsSession THEN "capsule" ELSE "body"
    /\ low # <<>> => Queued /\ (~IsSession => wire.final = 1)
    /\ ~IsSession /\ chan.set =>
          counter = Len(low) + (IF job.phase = "send" THEN 1 ELSE 0)
                             + (IF taken.kind = "body" THEN 1 ELSE 0)

\* The chunking job is that of an accepted header and has bytes to read.
JobPart ==
    /\ job.phase = "none" => job = NoJob
    /\ job # NoJob => /\ ~IsSession /\ BodyFollows /\ wire.final = 1
                      /\ job.read < plan.len
    /\ job.phase = "send" => job.counted

\* Each header is in one place: quiche accepted it, or it waits in its turn.
HeaderPart ==
    /\ wire.interim \in {0, 1} /\ wire.final \in {0, 1}
    /\ wire.interim = 1 => plan.status /\ prod # "status"
    /\ wire.final = 1 => Queued /\ (plan.status => wire.interim = 1)
    /\ conn = "up" =>
          \/ pendingQ = <<>> /\ taken.kind \notin HeaderKinds /\ high = Unsent
          \/ pendingQ = <<>> /\ taken.kind \in HeaderKinds /\ Ahead(taken)
          \/ taken = NoItem /\ Len(pendingQ) = 1 /\ Ahead(Head(pendingQ))

\* The body, once its header was accepted, and what the tracker knows of it.
BodyPart ==
    /\ wire.final = 0 => wire.bytes = <<>> /\ partial = <<>>
    /\ IsSession \/ wire.final = 0 \/ ~BodyFollows \/ conn = "closed"
          => tracker.total = 0
    /\ conn = "up" /\ wire.final = 1 /\ ~IsSession /\ BodyFollows
          => tracker.total = plan.len
    /\ conn = "up" /\ wire.final = 1 /\ (IsSession \/ BodyFollows) => headersSend
    /\ conn = "up" => /\ Follows(Sent, low)
                      /\ Produced = EndOf(Sent, low)
                      /\ IsSession \/ job # NoJob => Full(low)

\* The inductive invariant.
IInv == /\ TypeOK /\ TakenPart /\ ConnPart /\ ChannelPart /\ JobPart /\ HeaderPart
        /\ BodyPart /\ FinMeansWhole

-------------------------------------------------------------------------------
(***************************************************************************)
(* Sequences of bytes.                                                     *)
(***************************************************************************)

\* What Bytes makes.
LEMMA BytesAre ==
    ASSUME NEW f \in Nat, NEW n \in Nat
    PROVE  /\ Bytes(f, n) \in Seq(Nat) /\ Len(Bytes(f, n)) = n
           /\ \A i \in 1..n : Bytes(f, n)[i] = f + i
           /\ n > 0 => Bytes(f, n) # <<>>
BY DEF Bytes

\* A sequence of consecutive bytes is one that Bytes makes.
LEMMA BytesIf ==
    ASSUME NEW s \in Seq(Nat), NEW f \in Nat, \A i \in 1..Len(s) : s[i] = f + i
    PROVE  s = Bytes(f, Len(s))
<1>1. Len(s) \in Nat
  BY LenProperties
<1> QED
  BY <1>1, BytesAre, SeqEqual

\* Adjoining bytes make one sequence.
LEMMA BytesConcat ==
    ASSUME NEW s \in Seq(Nat), NEW d \in Seq(Nat),
           s = Bytes(0, Len(s)), d = Bytes(Len(s), Len(d))
    PROVE  s \o d = Bytes(0, Len(s \o d))
<1>1. Len(s) \in Nat /\ Len(d) \in Nat
  BY LenProperties
<1>2. /\ s \o d \in Seq(Nat) /\ Len(s \o d) = Len(s) + Len(d)
      /\ \A i \in 1 .. Len(s) + Len(d) :
            (s \o d)[i] = IF i <= Len(s) THEN s[i] ELSE d[i - Len(s)]
  BY ConcatProperties
<1>3. \A i \in 1..Len(s) : s[i] = 0 + i
  BY <1>1, BytesAre
<1>4. \A i \in 1..Len(d) : d[i] = Len(s) + i
  <2> DEFINE n == Len(s)
             m == Len(d)
  <2>1. n \in Nat /\ m \in Nat /\ d = Bytes(n, m)
    BY <1>1
  <2> HIDE DEF n, m
  <2>2. \A i \in 1..m : d[i] = n + i
    BY <2>1, BytesAre
  <2> QED
    BY <2>2 DEF n, m
<1>5. ASSUME NEW i \in 1..Len(s \o d)
      PROVE  (s \o d)[i] = 0 + i
  <2>1. CASE i <= Len(s)
    BY <1>1, <1>2, <1>3, <2>1
  <2>2. CASE i > Len(s)
    <3>1. i - Len(s) \in 1..Len(d)
      BY <1>1, <1>2, <2>2
    <3>2. (s \o d)[i] = d[i - Len(s)]
      BY <1>1, <1>2, <2>2
    <3>3. d[i - Len(s)] = Len(s) + (i - Len(s))
      BY <1>4, <3>1
    <3> QED
      BY <1>1, <3>2, <3>3
  <2> QED
    BY <1>1, <1>2, <2>1, <2>2
<1> QED
  BY <1>2, <1>5, BytesIf

\* Concatenation is associative.
LEMMA BytesAssociate ==
    ASSUME NEW a \in Seq(Nat), NEW b \in Seq(Nat), NEW c \in Seq(Nat)
    PROVE  (a \o b) \o c = a \o (b \o c)
BY ConcatAssociative, SMT

\* A chunk that quiche accepts in part: the rest is still in its place.
LEMMA CutChunk ==
    ASSUME NEW b \in Seq(Nat), NEW d \in Seq(Nat), NEW k \in 0..Len(d)
    PROVE  /\ SubSeq(d, 1, k) \in Seq(Nat) /\ SubSeq(d, k + 1, Len(d)) \in Seq(Nat)
           /\ Len(SubSeq(d, 1, k)) = k
           /\ Len(SubSeq(d, k + 1, Len(d))) = Len(d) - k
           /\ b \o SubSeq(d, 1, k) \in Seq(Nat)
           /\ Len(b \o SubSeq(d, 1, k)) = Len(b) + k
           /\ (b \o SubSeq(d, 1, k)) \o SubSeq(d, k + 1, Len(d)) = b \o d
<1>1. Len(d) \in Nat /\ k \in Nat /\ k <= Len(d) /\ Len(b) \in Nat
  BY LenProperties
<1>2. \A i \in 1..Len(d) : d[i] \in Nat
  BY ElementOfSeq
<1>3. SubSeq(d, 1, k) \in Seq(Nat) /\ Len(SubSeq(d, 1, k)) = k
  BY <1>1, <1>2, SubSeqProperties
<1>4. /\ SubSeq(d, k + 1, Len(d)) \in Seq(Nat)
      /\ Len(SubSeq(d, k + 1, Len(d))) = Len(d) - k
  <2>1. \A i \in (k + 1)..Len(d) : d[i] \in Nat
    BY <1>1, <1>2
  <2>2. /\ SubSeq(d, k + 1, Len(d)) \in Seq(Nat)
        /\ Len(SubSeq(d, k + 1, Len(d)))
              = IF k + 1 <= Len(d) THEN Len(d) - (k + 1) + 1 ELSE 0
    BY <1>1, <2>1, SubSeqProperties
  <2> QED
    BY <1>1, <2>2
<1>5. SubSeq(d, 1, k) \o SubSeq(d, k + 1, Len(d)) = d
  <2>1. 1 \in 1..Len(d) + 1 /\ k \in 1 - 1..Len(d) /\ Len(d) \in k..Len(d)
    BY <1>1
  <2>2. SubSeq(d, 1, k) \o SubSeq(d, k + 1, Len(d)) = SubSeq(d, 1, Len(d))
    BY <2>1, ConcatAdjacentSubSeq
  <2> QED
    BY <2>2, SubSeqFull
<1>6. b \o SubSeq(d, 1, k) \in Seq(Nat) /\ Len(b \o SubSeq(d, 1, k)) = Len(b) + k
  BY <1>3, ConcatProperties
<1>7. (b \o SubSeq(d, 1, k)) \o SubSeq(d, k + 1, Len(d))
         = b \o (SubSeq(d, 1, k) \o SubSeq(d, k + 1, Len(d)))
  <2> DEFINE x == SubSeq(d, 1, k)
             y == SubSeq(d, k + 1, Len(d))
  <2>1. x \in Seq(Nat) /\ y \in Seq(Nat)
    BY <1>3, <1>4
  <2> HIDE DEF x, y
  <2>2. (b \o x) \o y = b \o (x \o y)
    BY <2>1, BytesAssociate
  <2> QED
    BY <2>2 DEF x, y
<1> QED
  BY <1>3, <1>4, <1>5, <1>6, <1>7

\* A multiple is one summand more than the one before it.
LEMMA NextMultiple ==
    ASSUME NEW i \in Int, NEW c \in Int
    PROVE  i * c = (i - 1) * c + c
OBVIOUS

-------------------------------------------------------------------------------
(***************************************************************************)
(* The low priority channel behind what was taken from it.                 *)
(***************************************************************************)

\* The type of what an item carries.
LEMMA ItemData ==
    ASSUME NEW q \in Seq(Items), NEW i \in 1..Len(q)
    PROVE  q[i] \in Items /\ q[i].data \in Seq(Nat) /\ Len(q[i].data) \in Nat
<1>1. q[i] \in Items
  BY ElementOfSeq
<1>2. q[i].data \in Seq(Nat)
  BY <1>1 DEF Items
<1> QED
  BY <1>1, <1>2, LenProperties

\* The end of the channel is not before the end of what was taken, and an empty
\* channel is the only one that ends there.
LEMMA EndBounds ==
    ASSUME NEW s \in Seq(Nat), NEW q \in Seq(Items), Follows(s, q)
    PROVE  /\ EndOf(s, q) \in Nat /\ Len(s) <= EndOf(s, q)
           /\ q # <<>> => Len(s) < EndOf(s, q)
           /\ q = <<>> => EndOf(s, q) = Len(s)
           /\ Full(q) => EndOf(s, q) = Len(s) + Len(q) * ChunkSize
<1>1. Len(s) \in Nat /\ Len(q) \in Nat /\ ChunkSize \in Nat
  BY LenProperties, SendAssumption
<1>2. CASE q = <<>>
  <2>1. Len(q) = 0
    BY <1>2
  <2> QED
    BY <1>1, <1>2, <2>1 DEF EndOf
<1>3. CASE q # <<>>
  <2> DEFINE l == Len(q)
             e == Len(q[l].data)
             m == (l - 1) * ChunkSize
             n == Len(s)
  <2>1. l \in Nat \ {0} /\ n \in Nat
    BY <1>1, <1>3, EmptySeq
  <2>2. e \in 1..ChunkSize /\ e \in Nat
    BY <2>1, ItemData DEF Follows
  <2>3. m \in Nat /\ l * ChunkSize = m + ChunkSize
    BY <1>1, <2>1, NextMultiple
  <2>4. EndOf(s, q) = n + m + e
    BY <1>3 DEF EndOf
  <2>5. Full(q) => e = ChunkSize
    BY <1>3 DEF Full
  <2> HIDE DEF l, e, m, n
  <2>6. EndOf(s, q) \in Nat /\ n < EndOf(s, q)
    BY <1>1, <2>1, <2>2, <2>3, <2>4
  <2>7. Full(q) => EndOf(s, q) = n + l * ChunkSize
    BY <1>1, <2>1, <2>2, <2>3, <2>4, <2>5
  <2>8. n \in Nat /\ EndOf(s, q) \in Nat /\ n < EndOf(s, q) => n <= EndOf(s, q)
    OBVIOUS
  <2> QED
    BY <1>3, <2>1, <2>6, <2>7, <2>8, Zenon DEF n, l
<1> QED
  BY <1>2, <1>3

\* The item at the head of the channel continues what was taken.
LEMMA FollowsPop ==
    ASSUME NEW s \in Seq(Nat), NEW q \in Seq(Items), Follows(s, q), q # <<>>
    PROVE  /\ Head(q) \in Items /\ Head(q) = q[1] /\ Tail(q) \in Seq(Items)
           /\ Head(q).data \in Seq(Nat) /\ Head(q).data # <<>>
           /\ s \o Head(q).data \in Seq(Nat)
           /\ Follows(s \o Head(q).data, Tail(q))
           /\ EndOf(s \o Head(q).data, Tail(q)) = EndOf(s, q)
           /\ Full(q) => Full(Tail(q))
<1> DEFINE d == q[1].data
           l == Len(q)
           n == Len(s)
           e == Len(d)
           t == Tail(q)
           u == s \o d
<1>1. n \in Nat /\ l \in Nat \ {0} /\ ChunkSize \in Nat
  BY LenProperties, EmptySeq, SendAssumption
<1>2. /\ Head(q) = q[1] /\ t \in Seq(Items) /\ Len(t) = l - 1
      /\ \A i \in 1..Len(t) : t[i] = q[i + 1]
  BY HeadTailProperties
<1>3. q[1] \in Items /\ d \in Seq(Nat) /\ e \in Nat
  BY <1>1, ItemData
<1>4. /\ e \in 1..ChunkSize /\ d = Bytes(n + (1 - 1) * ChunkSize, e)
      /\ 1 < l => e = ChunkSize
  BY <1>1 DEF Follows
<1>5. n + (1 - 1) * ChunkSize = n
  BY <1>1
<1>6. d = Bytes(n, e) /\ s = Bytes(0, n)
  BY <1>4, <1>5 DEF Follows
<1>7. u \in Seq(Nat) /\ Len(u) = n + e /\ u = Bytes(0, Len(u))
  BY <1>3, <1>6, BytesConcat, ConcatProperties
<1>8. d # <<>>
  <2>1. e > 0
    BY <1>3, <1>4
  <2> QED
    BY <2>1
<1>9. ASSUME NEW i \in 1..Len(t)
      PROVE  /\ Len(t[i].data) \in 1..ChunkSize
             /\ t[i].data = Bytes(Len(u) + (i - 1) * ChunkSize, Len(t[i].data))
             /\ i < Len(t) => Len(t[i].data) = ChunkSize
  <2>1. i + 1 \in 1..l /\ t[i] = q[i + 1] /\ i \in Nat
    BY <1>1, <1>2
  <2>2. /\ Len(q[i + 1].data) \in 1..ChunkSize
        /\ q[i + 1].data = Bytes(n + ((i + 1) - 1) * ChunkSize, Len(q[i + 1].data))
        /\ i + 1 < l => Len(q[i + 1].data) = ChunkSize
    BY <2>1 DEF Follows
  <2>3. e = ChunkSize
    BY <1>1, <1>2, <1>4
  <2>4. i * ChunkSize = (i - 1) * ChunkSize + ChunkSize
    BY <1>1, <2>1, NextMultiple
  <2>5. (i + 1) - 1 = i /\ (i - 1) * ChunkSize \in Nat
    BY <1>1, <2>1
  <2>6. n + ((i + 1) - 1) * ChunkSize = Len(u) + (i - 1) * ChunkSize
    BY <1>1, <1>7, <2>3, <2>4, <2>5
  <2>7. i < Len(t) => i + 1 < l
    BY <1>1, <1>2, <2>1
  <2> QED
    BY <2>1, <2>2, <2>6, <2>7
<1>10. Follows(u, t)
  BY <1>7, <1>9 DEF Follows
<1>11. EndOf(u, t) = EndOf(s, q)
  <2> DEFINE c == ChunkSize
             g == Len(q[l].data)
  <2>1. /\ EndOf(s, q) = n + (l - 1) * c + g
        /\ t = <<>> => EndOf(u, t) = Len(u)
        /\ t # <<>> => EndOf(u, t) = Len(u) + (Len(t) - 1) * c + Len(t[Len(t)].data)
    BY DEF EndOf
  <2>2. g \in Nat /\ (l = 1 => g = e) /\ (l # 1 => e = c)
    <3>1. l \in 1..Len(q)
      BY <1>1
    <3>2. g \in Nat
      BY <3>1, ItemData
    <3>3. l = 1 => g = e
      OBVIOUS
    <3> HIDE DEF l
    <3>4. l # 1 => 1 < l
      BY <1>1
    <3> QED
      BY <1>4, <3>2, <3>3, <3>4
  <2>3. Len(t) = 0 <=> t = <<>>
    BY <1>2, EmptySeq
  <2>4. Len(t) # 0 => t[Len(t)] = q[l]
    <3>1. Len(t) \in Nat
      BY <1>2, LenProperties
    <3> HIDE DEF t
    <3>2. Len(t) # 0 => Len(t) \in 1..Len(t)
      BY <3>1
    <3>3. Len(t) # 0 => t[Len(t)] = q[Len(t) + 1]
      BY <1>2, <3>2
    <3>4. Len(t) + 1 = l
      BY <1>1, <1>2
    <3> QED
      BY <3>3, <3>4
  <2>5. Len(t) # 0 => Len(t[Len(t)].data) = g
    BY <2>4
  <2>6. /\ n \in Nat /\ l \in Nat \ {0} /\ c \in Nat /\ e \in Nat
        /\ Len(t) = l - 1 /\ Len(u) = n + e
    BY <1>1, <1>2, <1>3, <1>7
  <2> HIDE DEF c, g, n, l, e, t, u
  <2>7. CASE l = 1
    <3>1. t = <<>> /\ EndOf(u, t) = n + e
      BY <2>1, <2>3, <2>6, <2>7
    <3>2. (l - 1) * c = 0
      BY <2>6, <2>7
    <3> QED
      BY <2>1, <2>2, <2>6, <2>7, <3>1, <3>2
  <2>8. CASE l # 1
    <3>1. Len(t) # 0
      BY <2>6, <2>8
    <3>2. EndOf(u, t) = (n + c) + ((l - 1) - 1) * c + g
      BY <2>1, <2>2, <2>3, <2>5, <2>6, <2>8, <3>1
    <3>3. (l - 1) * c = ((l - 1) - 1) * c + c
      BY <2>6, NextMultiple
    <3>4. ((l - 1) - 1) * c \in Int
      BY <2>6
    <3> QED
      BY <2>1, <2>2, <2>6, <3>2, <3>3, <3>4
  <2> QED
    BY <2>7, <2>8
<1>12. ASSUME Full(q), t # <<>> PROVE Len(t[Len(t)].data) = ChunkSize
  <2>1. Len(t) \in 1..Len(t)
    BY <1>1, <1>2, <1>12, EmptySeq
  <2>2. t[Len(t)] = q[l]
    BY <1>1, <1>2, <2>1
  <2> QED
    BY <1>12, <2>2 DEF Full
<1> QED
  BY <1>2, <1>3, <1>7, <1>8, <1>10, <1>11, <1>12 DEF Full

\* A chunk of the next m bytes continues the channel.
LEMMA FollowsPush ==
    ASSUME NEW s \in Seq(Nat), NEW q \in Seq(Items), Follows(s, q), Full(q),
           NEW m \in 1..ChunkSize, NEW x \in Items, x.data = Bytes(EndOf(s, q), m)
    PROVE  /\ Append(q, x) \in Seq(Items) /\ Follows(s, Append(q, x))
           /\ EndOf(s, Append(q, x)) = EndOf(s, q) + m
           /\ m = ChunkSize => Full(Append(q, x))
<1> DEFINE p == Append(q, x)
           l == Len(q)
           n == Len(s)
           c == ChunkSize
<1>1. n \in Nat /\ l \in Nat /\ c \in Nat /\ m \in Nat
  BY LenProperties, SendAssumption
<1>2. /\ p \in Seq(Items) /\ p # <<>> /\ Len(p) = l + 1
      /\ \A i \in 1..l : p[i] = q[i]
      /\ p[l + 1] = x
  BY AppendProperties
<1>3. EndOf(s, q) \in Nat /\ EndOf(s, q) = n + l * c
  BY EndBounds
<1>4. Len(x.data) = m
  <2> DEFINE e == EndOf(s, q)
  <2>1. e \in Nat /\ m \in Nat /\ x.data = Bytes(e, m)
    BY <1>1, <1>3
  <2> HIDE DEF e
  <2>2. Len(Bytes(e, m)) = m
    BY <2>1, BytesAre
  <2> QED
    BY <2>1, <2>2
<1>5. \A i \in 1..l : Len(q[i].data) = c
  <2>1. SUFFICES ASSUME NEW i \in 1..l PROVE Len(q[i].data) = c
    OBVIOUS
  <2>2. i < l => Len(q[i].data) = c
    BY DEF Follows
  <2>3. i = l => Len(q[i].data) = c
    <3>1. ASSUME i = l PROVE q # <<>>
      BY <3>1
    <3> QED
      BY <3>1 DEF Full
  <2>4. i < l \/ i = l
    BY <1>1
  <2> QED
    BY <2>2, <2>3, <2>4
<1>6. ASSUME NEW i \in 1..Len(p)
      PROVE  /\ Len(p[i].data) \in 1..c
             /\ p[i].data = Bytes(n + (i - 1) * c, Len(p[i].data))
             /\ i < Len(p) => Len(p[i].data) = c
  <2>1. CASE i \in 1..l
    <3>1. p[i] = q[i] /\ Len(q[i].data) = c
      BY <1>2, <1>5, <2>1
    <3>2. Len(q[i].data) \in 1..c /\ q[i].data = Bytes(n + (i - 1) * c, Len(q[i].data))
      BY <2>1 DEF Follows
    <3> QED
      BY <3>1, <3>2
  <2>2. CASE i = l + 1
    <3>1. p[i] = x /\ (i - 1) * c = l * c
      BY <1>1, <1>2, <2>2
    <3>2. ~(i < Len(p))
      BY <1>1, <1>2, <2>2
    <3> QED
      BY <1>3, <1>4, <3>1, <3>2
  <2> QED
    BY <1>1, <1>2, <2>1, <2>2
<1>7. Follows(s, p)
  BY <1>6 DEF Follows
<1>8. EndOf(s, p) = EndOf(s, q) + m
  <2>1. EndOf(s, p) = n + (Len(p) - 1) * c + Len(p[Len(p)].data)
    BY <1>2 DEF EndOf
  <2>2. Len(p) - 1 = l /\ p[Len(p)] = x
    BY <1>1, <1>2
  <2> QED
    BY <1>3, <1>4, <2>1, <2>2
<1>9. m = c => Full(p)
  BY <1>2, <1>4 DEF Full
<1> QED
  BY <1>2, <1>7, <1>8, <1>9

-------------------------------------------------------------------------------
(***************************************************************************)
(* The headers.                                                            *)
(***************************************************************************)

\* The two sorts of headers, and the short sequences of them.
LEMMA HeaderFacts ==
    /\ Interim \in Items /\ Final \in Items /\ NoItem \in Items
    /\ Interim.kind = "interim" /\ Interim.data = <<>>
    /\ Final.kind = IF IsSession THEN "open" ELSE "final"
    /\ Final.data = <<>> /\ NoItem.kind = "none" /\ NoItem.data = <<>>
    /\ Interim # Final
BY DEF Interim, Final, NoItem, Item, Items

LEMMA ShortSequences ==
    ASSUME NEW S, NEW a \in S, NEW b \in S
    PROVE  /\ <<a>> # <<>> /\ <<a, b>> # <<>>
           /\ <<a>> \in Seq(S) /\ <<a, b>> \in Seq(S)
           /\ Head(<<a>>) = a /\ Tail(<<a>>) = <<>> /\ Len(<<a>>) = 1
           /\ Head(<<a, b>>) = a /\ Tail(<<a, b>>) = <<b>>
           /\ Append(<<>>, a) = <<a>> /\ Append(<<a>>, b) = <<a, b>>
           /\ <<a>> \o <<>> = <<a>>
<1>1. Tail(<<a, b>>) = <<b>>
  <2>1. <<a, b>> \in Seq(S) /\ <<a, b>> # <<>> /\ Len(<<a, b>>) = 2 /\ <<a, b>>[2] = b
    OBVIOUS
  <2>2. /\ Tail(<<a, b>>) \in Seq(S) /\ Len(Tail(<<a, b>>)) = 1
        /\ \A i \in 1..1 : Tail(<<a, b>>)[i] = <<a, b>>[i + 1]
    BY <2>1, HeadTailProperties
  <2>3. \A i \in 1..1 : Tail(<<a, b>>)[i] = <<b>>[i]
    BY <2>1, <2>2
  <2>4. <<b>> \in Seq(S) /\ Len(<<b>>) = 1
    OBVIOUS
  <2> QED
    BY <2>2, <2>3, <2>4, SeqEqual
<1>2. Append(<<a>>, b) = <<a, b>>
  <2>1. <<a>> \in Seq(S) /\ Len(<<a>>) = 1 /\ <<a>>[1] = a
    OBVIOUS
  <2>2. /\ Append(<<a>>, b) \in Seq(S) /\ Len(Append(<<a>>, b)) = 2
        /\ Append(<<a>>, b)[1] = a /\ Append(<<a>>, b)[2] = b
    BY <2>1, AppendProperties
  <2>3. /\ <<a, b>> \in Seq(S) /\ Len(<<a, b>>) = 2
        /\ <<a, b>>[1] = a /\ <<a, b>>[2] = b
    OBVIOUS
  <2>4. \A i \in 1..2 : Append(<<a>>, b)[i] = <<a, b>>[i]
    BY <2>2, <2>3
  <2> QED
    BY <2>2, <2>3, <2>4, SeqEqual
<1> QED
  BY <1>1, <1>2

LEMMA HeaderSequences ==
    /\ <<Interim>> # <<>> /\ <<Final>> # <<>> /\ <<Interim, Final>> # <<>>
    /\ Head(<<Interim>>) = Interim /\ Tail(<<Interim>>) = <<>>
    /\ Head(<<Final>>) = Final /\ Tail(<<Final>>) = <<>>
    /\ Head(<<Interim, Final>>) = Interim /\ Tail(<<Interim, Final>>) = <<Final>>
    /\ Append(<<>>, Interim) = <<Interim>> /\ Append(<<>>, Final) = <<Final>>
    /\ Append(<<Interim>>, Final) = <<Interim, Final>>
    /\ <<Final>> \in Seq(Items) /\ <<>> \in Seq(Items)
<1>1. Interim \in Items /\ Final \in Items
  BY HeaderFacts
<1> QED
  BY <1>1, ShortSequences

-------------------------------------------------------------------------------
(***************************************************************************)
(* The inductive invariant.                                                *)
(***************************************************************************)

\* It holds initially.
LEMMA InitInv == Init => IInv
<1> SUFFICES ASSUME Init PROVE IInv
  OBVIOUS
<1> USE SendAssumption DEF Init
<1>1. <<>> \in Seq(Items) /\ <<>> \in Seq(Nat) /\ Len(<<>>) = 0
  OBVIOUS
<1>2. TypeOK
  <2>1. plan \in Plans /\ prod \in {"status", "final", "callback", "done"}
    OBVIOUS
  <2>2. /\ session \in [holds : BOOLEAN, queued : 0..MaxCapsules]
        /\ counter \in 0..Limit
    OBVIOUS
  <2>3. taken \in Items /\ job \in [phase : {"none", "station", "send"},
                                     read : Nat, counted : BOOLEAN]
    BY <1>1 DEF NoJob, NoItem, Item, Items
  <2>4. /\ tracker \in [written : Nat, total : Nat]
        /\ wire \in [interim : Nat, final : Nat, bytes : Seq(Nat), fin : BOOLEAN]
    BY <1>1
  <2>5. chan \in [set : BOOLEAN, reset : BOOLEAN]
    OBVIOUS
  <2> QED
    BY <1>1, <2>1, <2>2, <2>3, <2>4, <2>5 DEF TypeOK
<1>3. TakenPart /\ ConnPart
  BY DEF TakenPart, ConnPart, NoItem, Item, HeaderKinds
<1>4. ChannelPart
  BY <1>1 DEF ChannelPart, Queued
<1>5. JobPart
  BY DEF JobPart, NoJob
<1>6. HeaderPart
  BY DEF HeaderPart, Unsent, InterimUnsent, FinalUnsent, Queued, NoItem, Item,
         HeaderKinds
<1>7. BodyPart
  <2>1. Sent = <<>>
    BY DEF Sent, NoItem, Item
  <2>2. <<>> = Bytes(0, 0)
    BY DEF Bytes
  <2>3. Produced = 0
    <3>1. 0 * ChunkSize = 0
      OBVIOUS
    <3> QED
      BY <3>1 DEF Produced
  <2> QED
    BY <1>1, <2>1, <2>2, <2>3 DEF BodyPart, Follows, EndOf, Full
<1>8. FinMeansWhole
  BY DEF FinMeansWhole
<1> QED
  BY <1>2, <1>3, <1>4, <1>5, <1>6, <1>7, <1>8 DEF IInv

\* A header is queued behind the ones that wait.
LEMMA QueueStep ==
    ASSUME IInv, SendStatusFirst \/ SendFinal \/ SendOpening
    PROVE  IInv'
<1> USE DEF IInv
<1> DEFINE x == IF SendStatusFirst THEN Interim ELSE Final
<1>1. /\ chan' = InsertNewChannel(chan) /\ high' = Append(high, x)
      /\ UNCHANGED <<plan, session, low, counter, job, taken, clientVars, wire, conn>>
  BY DEF SendStatusFirst, SendFinal, SendOpening, QueueHeader, Interim, Final
<1>2. /\ prod = "status" => prod' = "final" /\ x = Interim
      /\ prod # "status" => /\ prod = "final" /\ x = Final
                            /\ prod' = IF IsSession THEN "callback" ELSE "done"
  BY DEF SendStatusFirst, SendFinal, SendOpening
<1>3. x \in Items
  BY HeaderFacts
<1> HIDE DEF x
<1>4. chan' \in [set : BOOLEAN, reset : BOOLEAN] /\ chan'.set /\ chan'.reset = chan.reset
  BY <1>1 DEF InsertNewChannel, TypeOK
<1>5. wire.final = 0 /\ ~Queued /\ conn # "shut" /\ low = <<>> /\ job = NoJob
  <2>1. prod \in {"status", "final"} /\ ~Queued
    BY <1>2 DEF Queued
  <2> QED
    BY <2>1 DEF HeaderPart, ConnPart, ChannelPart, JobPart
<1>6. TypeOK'
  BY <1>1, <1>2, <1>3, <1>4, AppendProperties DEF TypeOK, clientVars
<1>7. TakenPart' /\ ConnPart' /\ JobPart' /\ FinMeansWhole'
  BY <1>1, <1>5 DEF TakenPart, ConnPart, JobPart, FinMeansWhole, clientVars,
         IsSession, BodyFollows
<1>8. ChannelPart'
  <2>1. taken.kind # "body" /\ job.phase # "send" /\ Len(low) = 0 /\ counter \in Nat
    BY <1>5 DEF TakenPart, NoJob, TypeOK
  <2>2. ~IsSession => counter = 0
    BY <1>5, <2>1 DEF ChannelPart
  <2> QED
    BY <1>1, <1>2, <1>4, <1>5, <2>1, <2>2 DEF ChannelPart, Queued, IsSession
<1>9. HeaderPart'
  <2>1. /\ Interim' = Interim /\ Final' = Final /\ wire' = wire /\ plan' = plan
        /\ conn' = conn /\ taken' = taken /\ pendingQ' = pendingQ
        /\ FinalUnsent = FALSE
    BY <1>1, <1>5 DEF Interim, Final, IsSession, clientVars, FinalUnsent
  <2>2. CASE prod = "status"
    <3>1. plan.status /\ wire.interim = 0 /\ prod' = "final" /\ x = Interim
      BY <1>2, <2>2 DEF ChannelPart, HeaderPart
    <3>2. Unsent = <<>> /\ Unsent' = <<Interim>>
      BY <2>1, <2>2, <3>1 DEF Unsent, InterimUnsent, FinalUnsent, Queued
    <3> QED
      BY <1>1, <1>5, <2>1, <2>2, <3>1, <3>2, HeaderSequences
         DEF HeaderPart, Ahead, Queued
  <2>3. CASE prod # "status"
    <3>1. prod = "final" /\ Queued' /\ FinalUnsent' /\ x = Final
      BY <1>2, <1>5, <2>1, <2>3 DEF FinalUnsent, Queued
    <3>2. InterimUnsent' = InterimUnsent
      BY <2>1, <2>3, <3>1 DEF InterimUnsent, Queued
    <3>3. /\ Unsent = IF InterimUnsent THEN <<Interim>> ELSE <<>>
          /\ Unsent' = IF InterimUnsent THEN <<Interim, Final>> ELSE <<Final>>
      BY <2>1, <3>1, <3>2 DEF Unsent
    <3>4. CASE InterimUnsent
      <4>1. /\ Unsent = <<Interim>> /\ Unsent' = <<Interim, Final>>
        BY <3>3, <3>4
      <4> QED
        BY <1>1, <1>5, <2>1, <2>3, <3>1, <4>1, HeaderSequences
           DEF HeaderPart, Ahead, Queued
    <3>5. CASE ~InterimUnsent
      <4>1. Unsent = <<>> /\ Unsent' = <<Final>>
        BY <3>3, <3>5
      <4> QED
        BY <1>1, <1>5, <2>1, <2>3, <3>1, <4>1, HeaderSequences
           DEF HeaderPart, Ahead, Queued
    <3> QED
      BY <3>4, <3>5
  <2> QED
    BY <2>2, <2>3
<1>10. BodyPart'
  BY <1>1, <1>5 DEF BodyPart, Sent, Produced, IsSession, BodyFollows, clientVars
<1> QED
  BY <1>6, <1>7, <1>8, <1>9, <1>10

\* A step that moves no header.
LEMMA HeaderKeeps ==
    ASSUME HeaderPart, plan' = plan, Queued' = Queued,
           (prod' = "status") <=> (prod = "status"),
           wire'.interim = wire.interim, wire'.final = wire.final,
           conn' = "up" =>
              /\ conn = "up" /\ high' = high /\ pendingQ' = pendingQ
              /\ \/ taken' = taken
                 \/ /\ taken.kind \notin HeaderKinds /\ taken'.kind \notin HeaderKinds
                    /\ pendingQ = <<>>
    PROVE  HeaderPart'
<1>1. Unsent' = Unsent
  BY DEF Unsent, InterimUnsent, FinalUnsent, Interim, Final, IsSession
<1> QED
  BY <1>1 DEF HeaderPart, Ahead

\* A step that moves no byte.
LEMMA BodyKeeps ==
    ASSUME BodyPart, plan' = plan, wire'.final = wire.final,
           wire'.bytes = wire.bytes, partial' = partial \/ partial' = <<>>,
           tracker' = tracker, conn' \in {conn, "shut"},
           conn' = "up" =>
              /\ conn = "up" /\ partial' = partial /\ taken'.data = taken.data
              /\ low' = low /\ headersSend' = headersSend
              /\ session'.queued = session.queued
              /\ job' = job \/ (job # NoJob /\ job' # NoJob /\ job'.read = job.read)
    PROVE  BodyPart'
<1>1. IsSession' = IsSession /\ BodyFollows' = BodyFollows
  BY DEF IsSession, BodyFollows
<1>2. conn' = "up" => Sent' = Sent /\ Produced' = Produced
  BY <1>1 DEF Sent, Produced
<1> QED
  BY <1>1, <1>2 DEF BodyPart

\* The callback returns.
LEMMA CallbackStep ==
    ASSUME IInv, NEW ok \in BOOLEAN, CallbackReturns(ok)
    PROVE  IInv'
<1> USE DEF IInv
<1>1. /\ prod = "callback" /\ prod' = "done"
      /\ chan' = [chan EXCEPT !.reset = @ \/ (chan.set /\ ~ok)]
      /\ UNCHANGED <<plan, session, high, low, counter, job, taken, clientVars, wire,
                     conn>>
  BY DEF CallbackReturns
<1>2. /\ chan' \in [set : BOOLEAN, reset : BOOLEAN] /\ chan'.set = chan.set
      /\ ~chan.set => chan'.reset = chan.reset
  BY <1>1 DEF TypeOK
<1>3. Queued /\ Queued' /\ IsSession /\ IsSession' = IsSession
  BY <1>1 DEF Queued, ChannelPart, IsSession
<1>4. TypeOK'
  BY <1>1, <1>2 DEF TypeOK, clientVars
<1>5. TakenPart' /\ ConnPart' /\ JobPart' /\ FinMeansWhole'
  BY <1>1, <1>2, <1>3 DEF TakenPart, ConnPart, JobPart, FinMeansWhole, clientVars,
         BodyFollows
<1>6. ChannelPart'
  BY <1>1, <1>2, <1>3 DEF ChannelPart
<1>7. HeaderPart'
  BY <1>1, <1>3, HeaderKeeps DEF clientVars
<1>8. BodyPart'
  BY <1>1, BodyKeeps DEF clientVars
<1> QED
  BY <1>4, <1>5, <1>6, <1>7, <1>8

\* A session takes hold of the sender.
LEMMA ResolveStep ==
    ASSUME IInv, ResolveSender
    PROVE  IInv'
<1> USE DEF IInv
<1>1. /\ prod \in {"callback", "done"} /\ IsSession
      /\ session.queued < MaxCapsules
      /\ session' = [session EXCEPT !.holds = TRUE]
      /\ UNCHANGED <<plan, prod, chanVars, job, taken, clientVars, wire, conn>>
  BY DEF ResolveSender
<1>2. /\ session' \in [holds : BOOLEAN, queued : 0..MaxCapsules]
      /\ session'.queued = session.queued
  BY <1>1 DEF TypeOK
<1>3. Queued /\ Queued' /\ IsSession'
  BY <1>1 DEF Queued, IsSession
<1>4. TypeOK'
  BY <1>1, <1>2 DEF TypeOK, clientVars, chanVars
<1>5. TakenPart' /\ ConnPart' /\ JobPart' /\ FinMeansWhole'
  BY <1>1, <1>3 DEF TakenPart, ConnPart, JobPart, FinMeansWhole, clientVars,
         chanVars, BodyFollows
<1>6. ChannelPart'
  BY <1>1, <1>2, <1>3 DEF ChannelPart, chanVars
<1>7. HeaderPart'
  BY <1>1, <1>3, HeaderKeeps DEF clientVars, chanVars
<1>8. BodyPart'
  BY <1>1, <1>2, BodyKeeps DEF clientVars, chanVars
<1> QED
  BY <1>4, <1>5, <1>6, <1>7, <1>8

\* The connection is collected.
LEMMA CollectStep ==
    ASSUME IInv, CollectConnection
    PROVE  IInv'
<1> USE DEF IInv
<1>1. /\ conn # "closed" /\ conn' = "closed" /\ taken = NoItem
      /\ headersSend' = FALSE /\ partial' = <<>> /\ pendingQ' = <<>>
      /\ tracker' = [written |-> 0, total |-> 0]
      /\ UNCHANGED <<plan, prod, session, chan, high, low, counter, job, taken, wire>>
  BY DEF CollectConnection, NetIdle, prodVars, chanVars
<1>2. Queued' = Queued /\ IsSession' = IsSession /\ BodyFollows' = BodyFollows
  BY <1>1 DEF Queued, IsSession, BodyFollows
<1>3. TypeOK'
  <2>1. tracker' \in [written : Nat, total : Nat]
    BY <1>1
  <2>2. partial' \in Seq(Nat) /\ pendingQ' \in Seq(Items)
    BY <1>1
  <2>3. headersSend' \in BOOLEAN
    BY <1>1, Zenon
  <2> QED
    BY <1>1, <2>1, <2>2, <2>3 DEF TypeOK
<1>4. TakenPart' /\ ConnPart' /\ JobPart' /\ FinMeansWhole'
  BY <1>1, <1>2 DEF TakenPart, ConnPart, JobPart, FinMeansWhole
<1>5. ChannelPart'
  BY <1>1, <1>2 DEF ChannelPart
<1>6. HeaderPart'
  BY <1>1, <1>2, HeaderKeeps
<1>7. BodyPart'
  BY <1>1, <1>2 DEF BodyPart
<1> QED
  BY <1>3, <1>4, <1>5, <1>6, <1>7

\* reset_failed_stream of a stream session: nothing of it is left.
LEMMA ResetKeeps ==
    ASSUME IInv, ResetFailedStream, IsSession, Queued,
           UNCHANGED <<prodVars, job>>, taken' = NoItem
    PROVE  IInv'
<1> USE DEF IInv
<1>1. /\ chan' = [set |-> FALSE, reset |-> FALSE] /\ conn' = "shut"
      /\ high' = <<>> /\ low' = <<>> /\ counter' = 0
      /\ headersSend' = FALSE /\ partial' = <<>> /\ pendingQ' = <<>>
      /\ UNCHANGED <<plan, prod, session, job, tracker, wire>> /\ taken' = NoItem
  BY DEF ResetFailedStream, RemoveChannel, prodVars
<1>2. Queued' = Queued /\ IsSession' = IsSession /\ BodyFollows' = BodyFollows
  BY <1>1 DEF Queued, IsSession, BodyFollows
<1>3. job = NoJob
  BY DEF JobPart
<1>4. TypeOK'
  <2>1. /\ partial' \in Seq(Nat) /\ pendingQ' \in Seq(Items) /\ high' \in Seq(Items)
        /\ low' \in Seq(Items)
    BY <1>1
  <2>2. counter' \in 0..Limit
    BY <1>1, SendAssumption
  <2>3. taken' \in Items /\ headersSend' \in BOOLEAN
    BY <1>1, HeaderFacts, Zenon
  <2>4. chan' \in [set : BOOLEAN, reset : BOOLEAN]
    BY <1>1
  <2> QED
    BY <1>1, <2>1, <2>2, <2>3, <2>4 DEF TypeOK
<1>5. TakenPart' /\ ConnPart' /\ JobPart' /\ FinMeansWhole'
  BY <1>1, <1>2, HeaderFacts DEF TakenPart, ConnPart, JobPart, FinMeansWhole,
         HeaderKinds
<1>6. ChannelPart'
  <2>1. \A i \in 1..Len(low') : FALSE
    BY <1>1
  <2> QED
    BY <1>1, <1>2, <1>3, <2>1 DEF ChannelPart
<1>7. HeaderPart'
  BY <1>1, <1>2, HeaderKeeps
<1>8. BodyPart'
  BY <1>1, <1>2, BodyKeeps
<1> QED
  BY <1>4, <1>5, <1>6, <1>7, <1>8

\* The next header that waits is the one a popped or pending item is.
LEMMA NextHeader ==
    ASSUME IInv, NEW x, Ahead(x)
    PROVE  \/ x = Interim /\ InterimUnsent /\ wire.interim = 0 /\ wire.final = 0
              /\ high = IF FinalUnsent THEN <<Final>> ELSE <<>>
           \/ x = Final /\ FinalUnsent /\ ~InterimUnsent /\ wire.final = 0 /\ Queued
              /\ high = <<>>
<1>1. InterimUnsent => wire.interim = 0 /\ wire.final = 0
  BY DEF InterimUnsent, IInv, HeaderPart
<1>2. FinalUnsent => wire.final = 0 /\ Queued
  BY DEF FinalUnsent
<1>3. Unsent # <<>> /\ x = Head(Unsent) /\ high = Tail(Unsent)
  BY DEF Ahead
<1>4. CASE InterimUnsent /\ FinalUnsent
  <2>1. Unsent = <<Interim, Final>>
    BY <1>4 DEF Unsent
  <2> QED
    BY <1>1, <1>3, <1>4, <2>1, HeaderSequences
<1>5. CASE InterimUnsent /\ ~FinalUnsent
  <2>1. Unsent = <<Interim>>
    BY <1>5 DEF Unsent
  <2> QED
    BY <1>1, <1>3, <1>5, <2>1, HeaderSequences
<1>6. CASE ~InterimUnsent /\ FinalUnsent
  <2>1. Unsent = <<Final>>
    BY <1>6 DEF Unsent
  <2> QED
    BY <1>2, <1>3, <1>6, <2>1, HeaderSequences
<1>7. CASE ~InterimUnsent /\ ~FinalUnsent
  <2>1. Unsent = <<>>
    BY <1>7 DEF Unsent
  <2> QED
    BY <1>3, <2>1
<1> QED
  BY <1>4, <1>5, <1>6, <1>7

\* A popped header is the next one.
LEMMA TakenHeader ==
    ASSUME IInv, taken.kind \in HeaderKinds
    PROVE  /\ Ahead(taken) /\ conn = "up" /\ ~wire.fin /\ pendingQ = <<>>
           /\ partial = <<>> /\ taken.data = <<>> /\ wire.bytes = <<>>
           /\ wire.final = 0 /\ taken # NoItem
           /\ \/ taken = Interim /\ taken.kind = "interim"
              \/ taken = Final /\ taken.kind = IF IsSession THEN "open" ELSE "final"
<1>1. taken # NoItem
  BY HeaderFacts DEF HeaderKinds
<1>2. conn = "up" /\ ~wire.fin /\ pendingQ = <<>> /\ partial = <<>> /\ taken.data = <<>>
  BY <1>1 DEF IInv, TakenPart
<1>3. Ahead(taken)
  BY <1>1, <1>2 DEF IInv, HeaderPart
<1>4. wire.final = 0 /\ (taken = Interim \/ taken = Final)
  BY <1>3, NextHeader
<1>5. wire.bytes = <<>>
  BY <1>4 DEF IInv, BodyPart
<1> QED
  BY <1>1, <1>2, <1>3, <1>4, <1>5, HeaderFacts

\* The two ways to a reset.
LEMMA ResetStep ==
    ASSUME IInv, RequestedReset \/ OpeningFailed
    PROVE  IInv'
<1>1. CASE RequestedReset
  <2>1. chan.reset /\ ResetFailedStream /\ taken' = NoItem /\ UNCHANGED <<prodVars, job>>
    BY <1>1 DEF RequestedReset, ResetDue, NetIdle
  <2>2. IsSession /\ Queued
    BY <2>1 DEF IInv, ChannelPart
  <2> QED
    BY <2>1, <2>2, ResetKeeps
<1>2. CASE OpeningFailed
  <2>1. /\ taken.kind = "open" /\ ResetFailedStream /\ taken' = NoItem
        /\ UNCHANGED <<prodVars, job>>
    BY <1>2 DEF OpeningFailed
  <2>2. taken.kind \in HeaderKinds
    BY <2>1 DEF HeaderKinds
  <2>3. taken = Final /\ IsSession /\ Ahead(taken)
    BY <2>1, <2>2, TakenHeader
  <2>4. Queued
    BY <2>3, NextHeader, HeaderFacts
  <2> QED
    BY <2>1, <2>3, <2>4, ResetKeeps
<1> QED
  BY <1>1, <1>2

\* A chunk behind those in the channel.
LEMMA PushBody ==
    ASSUME IInv, conn = "up", NEW x \in Items, NEW m \in 1..ChunkSize,
           IsSession \/ job # NoJob, x.data = Bytes(Produced, m)
    PROVE  /\ Follows(Sent, Append(low, x))
           /\ EndOf(Sent, Append(low, x)) = Produced + m
           /\ m = ChunkSize => Full(Append(low, x))
<1>1. Sent \in Seq(Nat) /\ low \in Seq(Items)
  <2>1. /\ wire.bytes \in Seq(Nat) /\ partial \in Seq(Nat) /\ taken.data \in Seq(Nat)
        /\ low \in Seq(Items)
    BY DEF IInv, TypeOK, Items
  <2> QED
    BY <2>1, ConcatProperties DEF Sent
<1>2. Follows(Sent, low) /\ Full(low) /\ EndOf(Sent, low) = Produced
  BY DEF IInv, BodyPart
<1> QED
  BY <1>1, <1>2, FollowsPush

\* Its place in the type and among the other items.
LEMMA PushChannel ==
    ASSUME IInv, NEW x \in Items, x.kind = IF IsSession THEN "capsule" ELSE "body"
    PROVE  /\ Append(low, x) \in Seq(Items) /\ Len(Append(low, x)) = Len(low) + 1
           /\ Append(low, x) # <<>>
           /\ \A i \in 1..Len(Append(low, x)) :
                 Append(low, x)[i].kind = IF IsSession THEN "capsule" ELSE "body"
<1>1. low \in Seq(Items) /\ Len(low) \in Nat
  BY LenProperties DEF IInv, TypeOK
<1>2. /\ Append(low, x) \in Seq(Items) /\ Len(Append(low, x)) = Len(low) + 1
      /\ Append(low, x) # <<>>
      /\ \A i \in 1..Len(low) : Append(low, x)[i] = low[i]
      /\ Append(low, x)[Len(low) + 1] = x
  BY <1>1, AppendProperties
<1>3. \A i \in 1..Len(low) : low[i].kind = IF IsSession THEN "capsule" ELSE "body"
  BY DEF IInv, ChannelPart
<1>4. \A i \in 1..Len(low) + 1 : i \in 1..Len(low) \/ i = Len(low) + 1
  BY <1>1
<1> QED
  BY <1>2, <1>3, <1>4

\* A session queues a capsule, or finds the channel gone.
LEMMA CapsuleStep ==
    ASSUME IInv, SendCapsule
    PROVE  IInv'
<1> USE DEF IInv
<1> DEFINE d == Bytes(session.queued * ChunkSize, ChunkSize)
           x == Item("capsule", d)
<1>1. /\ session.holds
      /\ UNCHANGED <<plan, prod, chan, high, job, taken, clientVars, wire, conn>>
  BY DEF SendCapsule
<1>2. /\ Queued /\ Queued' /\ IsSession /\ IsSession' /\ BodyFollows' = BodyFollows
      /\ job = NoJob
  BY <1>1 DEF Queued, IsSession, BodyFollows, ChannelPart, JobPart
<1>3. /\ session.queued \in Nat /\ session.queued + 1 \in 0..MaxCapsules
      /\ ChunkSize \in Nat \ {0} /\ session.queued * ChunkSize \in Nat
  BY <1>1, SendAssumption DEF TypeOK, ChannelPart
<1>4. x \in Items /\ x.kind = "capsule" /\ x.data = d
  BY <1>3, BytesAre DEF Item, Items
<1>5. Produced = session.queued * ChunkSize
  BY <1>2 DEF Produced
<1> HIDE DEF x, d
<1>6. TakenPart' /\ ConnPart' /\ JobPart' /\ FinMeansWhole'
  BY <1>1, <1>2 DEF TakenPart, ConnPart, JobPart, FinMeansWhole, clientVars
<1>7. HeaderPart'
  BY <1>1, <1>2, HeaderKeeps DEF clientVars
<1>8. CASE chan.set
  <2>1. /\ low' = Append(low, x) /\ counter' = Increment
        /\ session' = [holds |-> FALSE, queued |-> session.queued + 1]
    BY <1>8 DEF SendCapsule, x, d
  <2>2. /\ session' \in [holds : BOOLEAN, queued : 0..MaxCapsules] /\ ~session'.holds
        /\ session'.queued = session.queued + 1
    BY <1>3, <2>1
  <2>3. counter' \in 0..Limit
    BY <2>1, SendAssumption DEF TypeOK, Increment
  <2>4. /\ low' \in Seq(Items)
        /\ \A i \in 1..Len(low') : low'[i].kind = "capsule"
    BY <1>2, <1>4, <2>1, PushChannel
  <2>5. TypeOK'
    BY <1>1, <2>2, <2>3, <2>4 DEF TypeOK, clientVars
  <2>6. ChannelPart'
    BY <1>1, <1>2, <1>8, <2>2, <2>4 DEF ChannelPart
  <2>7. BodyPart'
    <3>1. ASSUME conn = "up"
          PROVE  /\ Follows(Sent, low') /\ EndOf(Sent, low') = Produced + ChunkSize
                 /\ Full(low')
      <4>1. ChunkSize \in 1..ChunkSize /\ x.data = Bytes(Produced, ChunkSize)
        BY <1>3, <1>4, <1>5 DEF d
      <4> QED
        BY <1>2, <1>4, <2>1, <3>1, <4>1, PushBody
    <3>2. Sent' = Sent
      BY <1>1 DEF Sent, clientVars
    <3>3. Produced' = Produced + ChunkSize
      <4>1. Produced' = (session.queued + 1) * ChunkSize
        BY <1>2, <1>3, <2>2, SendAssumption DEF Produced
      <4>2. (session.queued + 1) * ChunkSize
               = ((session.queued + 1) - 1) * ChunkSize + ChunkSize
        BY <1>3, NextMultiple
      <4>3. (session.queued + 1) - 1 = session.queued
        BY <1>3
      <4> QED
        BY <1>5, <4>1, <4>2, <4>3
    <3> QED
      BY <1>1, <1>2, <3>1, <3>2, <3>3 DEF BodyPart, clientVars
  <2> QED
    BY <1>6, <1>7, <2>5, <2>6, <2>7
<1>9. CASE ~chan.set
  <2>1. session' = [session EXCEPT !.holds = FALSE] /\ UNCHANGED <<low, counter>>
    BY <1>9 DEF SendCapsule
  <2>2. /\ session' \in [holds : BOOLEAN, queued : 0..MaxCapsules] /\ ~session'.holds
        /\ session'.queued = session.queued
    BY <2>1 DEF TypeOK
  <2>3. TypeOK'
    BY <1>1, <2>1, <2>2 DEF TypeOK, clientVars
  <2>4. ChannelPart'
    BY <1>1, <1>2, <2>1, <2>2 DEF ChannelPart
  <2>5. BodyPart'
    BY <1>1, <2>1, <2>2, BodyKeeps DEF clientVars
  <2> QED
    BY <1>6, <1>7, <2>3, <2>4, <2>5
<1> QED
  BY <1>8, <1>9 DEF TypeOK

\* The chunking worker finds room and counts the chunk it is about to send.
LEMMA ReadStep ==
    ASSUME IInv, ReadChunk
    PROVE  IInv'
<1> USE DEF IInv
<1>1. /\ job.phase = "station" /\ ~(Limit <= counter)
      /\ job' = [job EXCEPT !.phase = "send", !.counted = counter # Limit]
      /\ counter' = Increment
      /\ UNCHANGED <<plan, prod, session, chan, high, low, taken, clientVars, wire, conn>>
  BY DEF ReadChunk, IsOccupied, prodVars
<1>2. Limit \in Nat /\ counter \in Nat /\ counter # Limit /\ counter < Limit
  BY <1>1, SendAssumption DEF TypeOK
<1>3. counter' = counter + 1 /\ counter' \in 0..Limit
  BY <1>1, <1>2 DEF Increment
<1>4. /\ job' \in [phase : {"none", "station", "send"}, read : Nat, counted : BOOLEAN]
      /\ job'.phase = "send" /\ job'.read = job.read
  BY <1>1 DEF TypeOK
<1>5. job'.counted = (counter # Limit)
  BY <1>1 DEF TypeOK
<1>6. job # NoJob /\ job' # NoJob
  <2>1. NoJob.phase = "none"
    BY DEF NoJob
  <2> QED
    BY <1>1, <1>4, <2>1
<1>7. /\ ~IsSession /\ ~IsSession' /\ Queued' = Queued /\ BodyFollows' = BodyFollows
      /\ chan.set
  BY <1>1, <1>6 DEF JobPart, Queued, IsSession, BodyFollows, ChannelPart
<1>8. TypeOK'
  BY <1>1, <1>3, <1>4 DEF TypeOK, clientVars
<1>9. TakenPart' /\ ConnPart' /\ FinMeansWhole'
  BY <1>1, <1>7 DEF TakenPart, ConnPart, FinMeansWhole, clientVars, IsSession
<1>10. JobPart'
  <2>1. job'.counted
    BY <1>2, <1>5, Zenon
  <2> QED
    BY <1>1, <1>4, <1>6, <1>7, <2>1 DEF JobPart
<1>11. ChannelPart'
  <2>1. counter = Len(low) + (IF job.phase = "send" THEN 1 ELSE 0)
                           + (IF taken.kind = "body" THEN 1 ELSE 0)
    BY <1>7 DEF ChannelPart
  <2>2. Len(low) \in Nat
    BY LenProperties DEF TypeOK
  <2>3. counter' = Len(low) + (IF job'.phase = "send" THEN 1 ELSE 0)
                            + (IF taken.kind = "body" THEN 1 ELSE 0)
    BY <1>1, <1>3, <1>4, <2>1, <2>2
  <2> QED
    BY <1>1, <1>4, <1>7, <2>3 DEF ChannelPart
<1>12. HeaderPart'
  BY <1>1, <1>7, HeaderKeeps DEF clientVars
<1>13. BodyPart'
  BY <1>1, <1>4, <1>6, BodyKeeps DEF clientVars
<1> QED
  BY <1>8, <1>9, <1>10, <1>11, <1>12, <1>13

\* It sends the chunk, and the job goes on or is over.
LEMMA ChunkStep ==
    ASSUME IInv, SendChunk
    PROVE  IInv'
<1> USE DEF IInv
<1> DEFINE m == IF plan.len - job.read < ChunkSize THEN plan.len - job.read ELSE ChunkSize
           x == Item("body", Chunk)
           n == job.read + m
<1>1. job.phase = "send" /\ job # NoJob
  BY DEF SendChunk, NoJob
<1>2. /\ ~IsSession /\ BodyFollows /\ wire.final = 1 /\ job.read < plan.len /\ chan.set
      /\ Queued
  BY <1>1 DEF JobPart, ChannelPart, HeaderPart
<1>3. plan.len \in Nat /\ job.read \in Nat /\ ChunkSize \in Nat \ {0}
  BY <1>2, SendAssumption DEF TypeOK, PlanType, BodyFollows
<1>4. /\ m \in 1..ChunkSize /\ m \in Nat /\ n \in Nat /\ n <= plan.len
      /\ n # plan.len => m = ChunkSize
  BY <1>2, <1>3
<1>5. Chunk = Bytes(job.read, m)
  BY DEF Chunk
<1> HIDE DEF m
<1>6. Chunk \in Seq(Nat) /\ Len(Chunk) = m
  BY <1>3, <1>4, <1>5, BytesAre
<1>7. x \in Items /\ x.kind = "body" /\ x.data = Bytes(job.read, m)
  BY <1>5, <1>6 DEF Item, Items
<1>8. /\ low' = Append(low, x) /\ counter' = counter
      /\ job' = IF n = plan.len THEN NoJob
                ELSE [phase |-> "station", read |-> n, counted |-> FALSE]
      /\ UNCHANGED <<plan, prod, session, chan, high, taken, clientVars, wire, conn>>
  BY <1>2, <1>6 DEF SendChunk, prodVars
<1> HIDE DEF n, x
<1>9. /\ job' \in [phase : {"none", "station", "send"}, read : Nat, counted : BOOLEAN]
      /\ job'.phase # "send" /\ (job'.phase = "none" => job' = NoJob)
      /\ n = plan.len => job' = NoJob
      /\ n # plan.len => job' # NoJob /\ job'.read = n
  BY <1>4, <1>8 DEF NoJob
<1>10. /\ ~IsSession' /\ Queued' /\ BodyFollows' = BodyFollows /\ chan'.set
  BY <1>2, <1>8 DEF Queued, IsSession, BodyFollows
<1>11. /\ low' \in Seq(Items) /\ Len(low') = Len(low) + 1
       /\ \A i \in 1..Len(low') : low'[i].kind = "body"
  BY <1>2, <1>7, <1>8, PushChannel
<1>12. TypeOK'
  BY <1>8, <1>9, <1>11 DEF TypeOK, clientVars
<1>13. TakenPart' /\ ConnPart' /\ FinMeansWhole'
  BY <1>2, <1>8, <1>10 DEF TakenPart, ConnPart, FinMeansWhole, clientVars, IsSession
<1>14. JobPart'
  <2>1. n # plan.len => n < plan.len
    BY <1>3, <1>4
  <2> QED
    BY <1>2, <1>8, <1>9, <1>10, <2>1 DEF JobPart
<1>15. ChannelPart'
  <2>1. counter = Len(low) + 1 + (IF taken.kind = "body" THEN 1 ELSE 0)
    BY <1>1, <1>2 DEF ChannelPart
  <2>2. Len(low) \in Nat
    BY LenProperties DEF TypeOK
  <2>3. counter' = Len(low') + (IF job'.phase = "send" THEN 1 ELSE 0)
                             + (IF taken'.kind = "body" THEN 1 ELSE 0)
    BY <1>8, <1>9, <1>11, <2>1, <2>2
  <2> QED
    BY <1>2, <1>8, <1>10, <1>11, <2>3 DEF ChannelPart
<1>16. HeaderPart'
  BY <1>2, <1>8, <1>10, HeaderKeeps DEF clientVars
<1>17. BodyPart'
  <2>1. Produced = job.read
    BY <1>1, <1>2 DEF Produced
  <2>2. Produced' = n
    BY <1>2, <1>8, <1>9, <1>10 DEF Produced
  <2>3. Sent' = Sent
    BY <1>8 DEF Sent, clientVars
  <2>4. ASSUME conn = "up"
        PROVE  /\ Follows(Sent, low') /\ EndOf(Sent, low') = n
               /\ job' # NoJob => Full(low')
    <3>1. /\ Follows(Sent, low') /\ EndOf(Sent, low') = Produced + m
          /\ m = ChunkSize => Full(low')
      BY <1>1, <1>4, <1>7, <1>8, <2>1, <2>4, PushBody
    <3> QED
      BY <1>4, <1>9, <2>1, <3>1 DEF n
  <2> QED
    BY <1>2, <1>8, <1>10, <2>2, <2>3, <2>4 DEF BodyPart, clientVars
<1> QED
  BY <1>12, <1>13, <1>14, <1>15, <1>16, <1>17

\* The network thread pops a pending opening or a queued header.
LEMMA PopHeader ==
    ASSUME IInv, Writable, NetIdle, MayPop,
           \/ /\ pendingQ # <<>> /\ taken' = Head(pendingQ)
              /\ pendingQ' = Tail(pendingQ) /\ high' = high
           \/ /\ pendingQ = <<>> /\ high # <<>> /\ taken' = Head(high)
              /\ high' = Tail(high) /\ pendingQ' = pendingQ,
           UNCHANGED <<prodVars, chan, low, counter, job, partial, headersSend,
                       tracker, wire, conn>>
    PROVE  IInv'
<1> USE DEF IInv
<1>1. /\ conn = "up" /\ ~wire.fin /\ taken = NoItem /\ partial = <<>>
      /\ UNCHANGED <<plan, prod, session, chan, low, counter, job, partial,
                     headersSend, tracker, wire, conn>>
  BY DEF Writable, NetIdle, MayPop, prodVars
<1>2. /\ Queued' = Queued /\ IsSession' = IsSession /\ BodyFollows' = BodyFollows
      /\ Unsent' = Unsent
  BY <1>1 DEF Queued, IsSession, BodyFollows, Unsent, InterimUnsent, FinalUnsent,
         Interim, Final
<1>3. taken.kind \notin HeaderKinds
  BY <1>1, HeaderFacts DEF HeaderKinds
<1>4. \/ pendingQ = <<>> /\ high = Unsent
      \/ Len(pendingQ) = 1 /\ Ahead(Head(pendingQ))
  BY <1>1, <1>3 DEF HeaderPart
<1>5. /\ pendingQ' = <<>> /\ Unsent # <<>> /\ taken' = Head(Unsent)
      /\ high' = Tail(Unsent)
  <2>1. CASE pendingQ = <<>>
    BY <1>4, <2>1
  <2>2. CASE pendingQ # <<>>
    <3>1. Len(pendingQ) = 1 /\ Ahead(Head(pendingQ)) /\ pendingQ' = Tail(pendingQ)
      BY <1>4, <2>2
    <3>2. Tail(pendingQ) \in Seq(Items) /\ Len(Tail(pendingQ)) = 0
      BY <2>2, <3>1, HeadTailProperties DEF TypeOK
    <3> QED
      BY <2>2, <3>1, <3>2, EmptySeq DEF Ahead
  <2> QED
    BY <2>1, <2>2
<1>6. Ahead(taken)'
  BY <1>2, <1>5 DEF Ahead
<1>7. /\ taken' \in {Interim, Final} /\ high' \in {<<Final>>, <<>>}
  BY <1>5, HeaderSequences DEF Unsent
<1>8. taken' \in Items /\ taken'.kind \in HeaderKinds /\ taken'.data = <<>>
  BY <1>7, HeaderFacts DEF HeaderKinds
<1>9. high' \in Seq(Items)
  BY <1>7, HeaderSequences
<1>10. TypeOK'
  BY <1>1, <1>5, <1>8, <1>9 DEF TypeOK
<1>11. TakenPart' /\ ConnPart' /\ JobPart' /\ FinMeansWhole'
  <2>1. taken'.kind \notin {"body", "capsule"}
    BY <1>8 DEF HeaderKinds
  <2> QED
    BY <1>1, <1>2, <1>5, <1>8, <2>1 DEF TakenPart, ConnPart, JobPart, FinMeansWhole
<1>12. ChannelPart'
  <2>1. ~chan.set => high' = <<>>
    BY DEF ChannelPart
  <2>2. taken.kind # "body" /\ taken'.kind # "body"
    BY <1>1, <1>8, HeaderFacts DEF HeaderKinds
  <2> QED
    BY <1>1, <1>2, <2>1, <2>2 DEF ChannelPart
<1>13. HeaderPart'
  BY <1>1, <1>2, <1>5, <1>6, <1>8 DEF HeaderPart
<1>14. BodyPart'
  <2>1. taken'.data = taken.data
    BY <1>1, <1>8, HeaderFacts
  <2> QED
    BY <1>1, <2>1, BodyKeeps
<1> QED
  BY <1>10, <1>11, <1>12, <1>13, <1>14

\* It pops the next chunk or capsule.
LEMMA PopLow ==
    ASSUME IInv, Writable, NetIdle, MayPop, pendingQ = <<>>, chan.set, high = <<>>,
           low # <<>>, taken' = Head(low), low' = Tail(low),
           UNCHANGED <<prodVars, chan, high, pendingQ, counter, job, partial,
                       headersSend, tracker, wire, conn>>
    PROVE  IInv'
<1> USE DEF IInv
<1>1. /\ conn = "up" /\ ~wire.fin /\ taken = NoItem /\ partial = <<>>
      /\ taken.kind = "none" /\ taken.data = <<>> /\ taken.kind \notin HeaderKinds
      /\ UNCHANGED <<plan, prod, session, chan, high, pendingQ, counter, job,
                     partial, headersSend, tracker, wire, conn>>
  BY HeaderFacts DEF Writable, NetIdle, MayPop, prodVars, HeaderKinds
<1>2. /\ Queued' = Queued /\ IsSession' = IsSession /\ BodyFollows' = BodyFollows
  BY <1>1 DEF Queued, IsSession, BodyFollows
<1>3. low \in Seq(Items) /\ wire.bytes \in Seq(Nat) /\ Len(low) \in Nat \ {0}
  BY EmptySeq DEF TypeOK
<1>4. Sent = wire.bytes
  BY <1>1, <1>3, ConcatEmptySeq DEF Sent
<1>5. /\ taken' \in Items /\ taken' = low[1] /\ low' \in Seq(Items)
      /\ taken'.data \in Seq(Nat) /\ taken'.data # <<>>
      /\ Follows(Sent \o taken'.data, low')
      /\ EndOf(Sent \o taken'.data, low') = EndOf(Sent, low)
      /\ Full(low) => Full(low')
  BY <1>1, <1>3, <1>4, FollowsPop DEF BodyPart
<1>6. Sent' = Sent \o taken'.data
  <2>1. Sent' = (wire.bytes \o <<>>) \o taken'.data
    BY <1>1 DEF Sent
  <2> QED
    BY <1>3, <1>4, <2>1, ConcatEmptySeq
<1>7. /\ taken'.kind = IF IsSession THEN "capsule" ELSE "body"
      /\ Queued
  BY <1>3, <1>5 DEF ChannelPart
<1>8. wire.final = 1
  <2>1. high = Unsent
    BY <1>1, EmptySeq DEF HeaderPart, TypeOK
  <2>2. ~FinalUnsent
    BY <2>1, HeaderSequences DEF Unsent
  <2> QED
    BY <1>7, <2>2 DEF FinalUnsent, HeaderPart
<1>9. /\ Len(low') = Len(low) - 1 /\ \A i \in 1..Len(low') : low'[i] = low[i + 1]
  BY <1>3, HeadTailProperties
<1>10. TypeOK'
  BY <1>1, <1>5 DEF TypeOK
<1>11. TakenPart' /\ ConnPart' /\ JobPart' /\ FinMeansWhole'
  BY <1>1, <1>2, <1>5, <1>7, <1>8
     DEF TakenPart, ConnPart, JobPart, FinMeansWhole, HeaderKinds
<1>12. ChannelPart'
  <2>1. \A i \in 1..Len(low') : i + 1 \in 1..Len(low)
    BY <1>3, <1>9
  <2>2. \A i \in 1..Len(low') :
           low'[i].kind = IF IsSession THEN "capsule" ELSE "body"
    BY <1>9, <2>1 DEF ChannelPart
  <2>3. ~IsSession => counter' = Len(low') + (IF job'.phase = "send" THEN 1 ELSE 0)
                                   + (IF taken'.kind = "body" THEN 1 ELSE 0)
    <3> DEFINE a == IF job.phase = "send" THEN 1 ELSE 0
               l == Len(low)
    <3>1. ~IsSession => counter = l + a + 0
      BY <1>1 DEF ChannelPart
    <3>2. ~IsSession => taken'.kind = "body"
      BY <1>7
    <3>3. l \in Nat /\ a \in Nat /\ Len(low') = l - 1 /\ counter' = counter
      BY <1>1, <1>3, <1>9
    <3>4. (IF job'.phase = "send" THEN 1 ELSE 0) = a
      BY <1>1
    <3> HIDE DEF a, l
    <3>5. ~IsSession => counter' = Len(low') + a + 1
      BY <3>1, <3>3
    <3> QED
      BY <3>2, <3>4, <3>5
  <2> QED
    BY <1>1, <1>2, <1>7, <1>8, <2>2, <2>3 DEF ChannelPart
<1>13. HeaderPart'
  <2>1. taken'.kind \notin HeaderKinds
    BY <1>7 DEF HeaderKinds
  <2> QED
    BY <1>1, <1>2, <2>1, HeaderKeeps
<1>14. BodyPart'
  <2>1. Produced' = Produced
    BY <1>1, <1>2 DEF Produced
  <2> QED
    BY <1>1, <1>2, <1>5, <1>6, <1>8, <2>1 DEF BodyPart
<1> QED
  BY <1>10, <1>11, <1>12, <1>13, <1>14

\* try_pop, and the pending opening before it.
LEMMA PopStep ==
    ASSUME IInv, Pop
    PROVE  IInv'
<1> USE DEF Pop, NothingPending
<1>1. CASE low' = low
  BY <1>1, PopHeader
<1>2. CASE low' # low
  BY <1>2, PopLow
<1> QED
  BY <1>1, <1>2

\* quiche refuses a header, which waits at the front of pending_body_queue.
LEMMA RefuseStep ==
    ASSUME IInv, InterimRefused \/ FinalRefused \/ OpeningRefused
    PROVE  IInv'
<1> USE DEF IInv
<1>1. /\ taken.kind \in HeaderKinds /\ pendingQ' = <<taken>> \o pendingQ
      /\ taken' = NoItem
      /\ UNCHANGED <<plan, prod, session, chan, high, low, counter, job, partial,
                     headersSend, tracker, wire, conn>>
  BY DEF InterimRefused, FinalRefused, OpeningRefused, Refuse, HeaderKinds,
         prodVars, chanVars
<1>2. /\ Ahead(taken) /\ conn = "up" /\ ~wire.fin /\ pendingQ = <<>>
      /\ taken.data = <<>> /\ taken \in Items /\ taken # NoItem
  BY <1>1, TakenHeader DEF TypeOK
<1>3. /\ Queued' = Queued /\ IsSession' = IsSession /\ BodyFollows' = BodyFollows
      /\ Unsent' = Unsent
  BY <1>1 DEF Queued, IsSession, BodyFollows, Unsent, InterimUnsent, FinalUnsent,
         Interim, Final
<1>4. /\ pendingQ' \in Seq(Items) /\ Len(pendingQ') = 1 /\ Head(pendingQ') = taken
  BY <1>1, <1>2, ShortSequences
<1>5. /\ taken' \in Items /\ taken'.kind = "none" /\ taken'.data = <<>>
      /\ taken.kind # "body"
  BY <1>1, HeaderFacts DEF HeaderKinds
<1>6. TypeOK'
  BY <1>1, <1>4, <1>5 DEF TypeOK
<1>7. TakenPart' /\ ConnPart' /\ JobPart' /\ FinMeansWhole'
  BY <1>1, <1>2, <1>3, <1>5 DEF TakenPart, ConnPart, JobPart, FinMeansWhole
<1>8. ChannelPart'
  BY <1>1, <1>3, <1>5 DEF ChannelPart
<1>9. HeaderPart'
  <2>1. Ahead(Head(pendingQ))'
    BY <1>1, <1>2, <1>3, <1>4 DEF Ahead
  <2> QED
    BY <1>1, <1>2, <1>3, <1>4, <2>1 DEF HeaderPart
<1>10. BodyPart'
  BY <1>1, <1>2, <1>5, BodyKeeps
<1> QED
  BY <1>6, <1>7, <1>8, <1>9, <1>10

\* The 100 header is accepted.
LEMMA InterimStep ==
    ASSUME IInv, SendInterim
    PROVE  IInv'
<1> USE DEF IInv
<1>1. /\ taken.kind = "interim" /\ wire' = [wire EXCEPT !.interim = @ + 1]
      /\ taken' = NoItem
      /\ UNCHANGED <<plan, prod, session, chan, high, low, counter, job, pendingQ,
                     partial, headersSend, tracker, conn>>
  BY DEF SendInterim, prodVars, chanVars, clientVars
<1>2. taken.kind \in HeaderKinds
  BY <1>1 DEF HeaderKinds
<1>3. /\ Ahead(taken) /\ conn = "up" /\ ~wire.fin /\ pendingQ = <<>>
      /\ partial = <<>> /\ taken.data = <<>> /\ taken = Interim /\ wire.final = 0
  BY <1>1, <1>2, TakenHeader
<1>4. /\ InterimUnsent /\ wire.interim = 0
      /\ high = IF FinalUnsent THEN <<Final>> ELSE <<>>
  BY <1>3, NextHeader, HeaderFacts
<1>5. /\ wire' \in [interim : Nat, final : Nat, bytes : Seq(Nat), fin : BOOLEAN]
      /\ wire'.final = wire.final /\ wire'.bytes = wire.bytes /\ wire'.fin = wire.fin
      /\ wire'.interim = 1
  <2>1. wire' = [wire EXCEPT !.interim = 1]
    BY <1>1, <1>4
  <2> QED
    BY <2>1 DEF TypeOK
<1>6. /\ taken' \in Items /\ taken'.kind = "none" /\ taken'.data = <<>>
      /\ taken.kind # "body" /\ taken'.kind \notin HeaderKinds
  BY <1>1, HeaderFacts DEF HeaderKinds
<1>7. /\ Queued' = Queued /\ IsSession' = IsSession /\ BodyFollows' = BodyFollows
      /\ FinalUnsent' = FinalUnsent /\ Final' = Final /\ ~InterimUnsent'
  BY <1>1, <1>5 DEF Queued, IsSession, BodyFollows, InterimUnsent, FinalUnsent, Final
<1>8. TypeOK'
  BY <1>1, <1>5, <1>6 DEF TypeOK
<1>9. TakenPart' /\ ConnPart' /\ JobPart' /\ FinMeansWhole'
  BY <1>1, <1>3, <1>5, <1>6, <1>7 DEF TakenPart, ConnPart, JobPart, FinMeansWhole
<1>10. ChannelPart'
  BY <1>1, <1>5, <1>6, <1>7 DEF ChannelPart
<1>11. HeaderPart'
  <2>1. high' = Unsent'
    BY <1>1, <1>4, <1>7 DEF Unsent
  <2>2. plan.status /\ prod # "status"
    BY <1>4 DEF InterimUnsent
  <2> QED
    BY <1>1, <1>3, <1>5, <1>6, <1>7, <2>1, <2>2 DEF HeaderPart
<1>12. BodyPart'
  BY <1>1, <1>3, <1>5, <1>6, BodyKeeps
<1> QED
  BY <1>8, <1>9, <1>10, <1>11, <1>12

\* The final header is accepted, and its body becomes a chunking job.
LEMMA FinalStep ==
    ASSUME IInv, SendFinalHeader
    PROVE  IInv'
<1> USE DEF IInv
<1>1. /\ taken.kind = "final"
      /\ wire' = [wire EXCEPT !.final = @ + 1, !.fin = EndOnHeaders]
      /\ tracker' = IF BodyFollows THEN [written |-> 0, total |-> plan.len] ELSE tracker
      /\ job' = IF BodyFollows
                THEN [phase |-> "station", read |-> 0, counted |-> FALSE] ELSE job
      /\ taken' = NoItem
      /\ UNCHANGED <<plan, prod, session, chan, high, low, counter, pendingQ,
                     partial, conn>>
  BY DEF SendFinalHeader, prodVars, chanVars
<1>2. taken.kind \in HeaderKinds
  BY <1>1 DEF HeaderKinds
<1>3. /\ Ahead(taken) /\ conn = "up" /\ ~wire.fin /\ pendingQ = <<>>
      /\ partial = <<>> /\ taken.data = <<>> /\ taken = Final /\ wire.final = 0
      /\ wire.bytes = <<>> /\ ~IsSession
  BY <1>1, <1>2, TakenHeader
<1>4. FinalUnsent /\ ~InterimUnsent /\ Queued /\ high = <<>>
  BY <1>3, NextHeader, HeaderFacts
<1>5. job = NoJob /\ low = <<>> /\ tracker.total = 0 /\ chan.set
  BY <1>3, <1>4 DEF JobPart, ChannelPart, BodyPart
<1>6. BodyFollows => plan.len \in Nat /\ plan.len > 0 /\ plan.len # NoBody
  BY SendAssumption DEF TypeOK, PlanType, BodyFollows
<1>7. EndOnHeaders \in BOOLEAN /\ (EndOnHeaders => ~BodyFollows)
  BY <1>6, SendAssumption DEF TypeOK, PlanType, EndOnHeaders
<1>8. /\ wire' \in [interim : Nat, final : Nat, bytes : Seq(Nat), fin : BOOLEAN]
      /\ wire'.final = 1 /\ wire'.bytes = wire.bytes /\ wire'.interim = wire.interim
  <2>1. wire' = [wire EXCEPT !.final = 1, !.fin = EndOnHeaders]
    BY <1>1, <1>3
  <2> QED
    BY <1>7, <2>1 DEF TypeOK
<1>9. wire'.fin = EndOnHeaders
  BY <1>1 DEF TypeOK
<1>10. /\ taken' \in Items /\ taken'.kind = "none" /\ taken'.data = <<>>
       /\ taken.kind # "body" /\ taken'.kind \notin HeaderKinds
  BY <1>1, HeaderFacts DEF HeaderKinds
<1>11. /\ Queued' = Queued /\ IsSession' = IsSession /\ BodyFollows' = BodyFollows
       /\ ~FinalUnsent' /\ ~InterimUnsent'
  BY <1>1, <1>4, <1>8 DEF Queued, IsSession, BodyFollows, InterimUnsent, FinalUnsent
<1>12. /\ job' \in [phase : {"none", "station", "send"}, read : Nat, counted : BOOLEAN]
       /\ job'.phase # "send"
       /\ BodyFollows => job' # NoJob /\ job'.read = 0 /\ job'.phase = "station"
       /\ ~BodyFollows => job' = NoJob
  <2>1. NoJob.phase = "none"
    BY DEF NoJob
  <2>2. CASE BodyFollows
    <3>1. job' = [phase |-> "station", read |-> 0, counted |-> FALSE]
      BY <1>1, <2>2
    <3>2. job'.phase = "station" /\ job'.read = 0
      BY <3>1
    <3>3. job' \in [phase : {"none", "station", "send"}, read : Nat, counted : BOOLEAN]
      BY <3>1
    <3> QED
      BY <2>1, <2>2, <3>2, <3>3
  <2>3. CASE ~BodyFollows
    BY <1>1, <1>5, <2>1, <2>3 DEF TypeOK
  <2> QED
    BY <2>2, <2>3
<1>13. /\ tracker' \in [written : Nat, total : Nat]
       /\ BodyFollows => tracker'.total = plan.len /\ tracker'.written = 0
       /\ ~BodyFollows => tracker'.total = 0
  BY <1>1, <1>5, <1>6 DEF TypeOK
<1>14. headersSend' \in BOOLEAN /\ (BodyFollows => headersSend')
  BY <1>6 DEF SendFinalHeader
<1>15. TypeOK'
  BY <1>1, <1>8, <1>10, <1>12, <1>13, <1>14 DEF TypeOK
<1>16. TakenPart' /\ ConnPart'
  BY <1>1, <1>3, <1>10 DEF TakenPart, ConnPart
<1>17. JobPart'
  BY <1>1, <1>3, <1>6, <1>8, <1>11, <1>12 DEF JobPart
<1>18. FinMeansWhole'
  <2>1. Len(wire'.bytes) = 0
    BY <1>3, <1>8
  <2> QED
    BY <1>3, <1>7, <1>8, <1>9, <1>11, <1>13, <2>1 DEF FinMeansWhole
<1>19. ChannelPart'
  <2>1. job.phase # "send"
    BY <1>5 DEF NoJob
  <2> QED
    BY <1>1, <1>3, <1>5, <1>10, <1>11, <1>12, <2>1 DEF ChannelPart
<1>20. HeaderPart'
  <2>1. Unsent' = <<>>
    BY <1>11 DEF Unsent
  <2>2. plan.status => wire.interim = 1
    BY <1>4 DEF InterimUnsent, HeaderPart, Queued
  <2> QED
    BY <1>1, <1>3, <1>4, <1>8, <1>10, <1>11, <2>1, <2>2 DEF HeaderPart
<1>21. BodyPart'
  <2>1. Sent' = <<>> \o <<>> \o <<>> /\ Sent = <<>> \o <<>> \o <<>>
    BY <1>1, <1>3, <1>8, <1>10 DEF Sent
  <2>2. Produced' = 0 /\ Produced = 0
    BY <1>3, <1>5, <1>8, <1>11, <1>12 DEF Produced
  <2>3. Full(low)
    BY <1>5 DEF Full
  <2> QED
    BY <1>1, <1>3, <1>5, <1>8, <1>11, <1>13, <1>14, <2>1, <2>2, <2>3 DEF BodyPart
<1> QED
  BY <1>15, <1>16, <1>17, <1>18, <1>19, <1>20, <1>21

\* The opening of a stream session is accepted.
LEMMA OpeningStep ==
    ASSUME IInv, SendStreamOpening
    PROVE  IInv'
<1> USE DEF IInv
<1>1. /\ taken.kind = "open" /\ wire' = [wire EXCEPT !.final = @ + 1]
      /\ headersSend' = TRUE /\ taken' = NoItem
      /\ UNCHANGED <<plan, prod, session, chan, high, low, counter, job, pendingQ,
                     partial, tracker, conn>>
  BY DEF SendStreamOpening, prodVars, chanVars
<1>2. taken.kind \in HeaderKinds
  BY <1>1 DEF HeaderKinds
<1>3. /\ Ahead(taken) /\ conn = "up" /\ ~wire.fin /\ pendingQ = <<>>
      /\ partial = <<>> /\ taken.data = <<>> /\ taken = Final /\ wire.final = 0
      /\ wire.bytes = <<>> /\ IsSession
  BY <1>1, <1>2, TakenHeader
<1>4. FinalUnsent /\ ~InterimUnsent /\ Queued /\ high = <<>>
  BY <1>3, NextHeader, HeaderFacts
<1>5. job = NoJob /\ tracker.total = 0
  BY <1>3 DEF JobPart, BodyPart
<1>6. /\ wire' \in [interim : Nat, final : Nat, bytes : Seq(Nat), fin : BOOLEAN]
      /\ wire'.final = 1 /\ wire'.bytes = wire.bytes /\ wire'.interim = wire.interim
      /\ wire'.fin = wire.fin
  <2>1. wire' = [wire EXCEPT !.final = 1]
    BY <1>1, <1>3
  <2> QED
    BY <2>1 DEF TypeOK
<1>7. /\ taken' \in Items /\ taken'.kind = "none" /\ taken'.data = <<>>
      /\ taken.kind # "body" /\ taken'.kind \notin HeaderKinds
  BY <1>1, HeaderFacts DEF HeaderKinds
<1>8. /\ Queued' = Queued /\ IsSession' = IsSession /\ BodyFollows' = BodyFollows
      /\ ~FinalUnsent' /\ ~InterimUnsent'
  BY <1>1, <1>4, <1>6 DEF Queued, IsSession, BodyFollows, InterimUnsent, FinalUnsent
<1>9. headersSend' \in BOOLEAN /\ headersSend'
  BY <1>1, Zenon
<1>10. TypeOK'
  BY <1>1, <1>6, <1>7, <1>9 DEF TypeOK
<1>11. TakenPart' /\ ConnPart' /\ JobPart' /\ FinMeansWhole'
  BY <1>1, <1>3, <1>5, <1>6, <1>7, <1>8
     DEF TakenPart, ConnPart, JobPart, FinMeansWhole
<1>12. ChannelPart'
  BY <1>1, <1>3, <1>6, <1>7, <1>8 DEF ChannelPart
<1>13. HeaderPart'
  <2>1. Unsent' = <<>>
    BY <1>8 DEF Unsent
  <2>2. plan.status => wire.interim = 1
    BY <1>4 DEF InterimUnsent, HeaderPart, Queued
  <2> QED
    BY <1>1, <1>3, <1>4, <1>6, <1>7, <1>8, <2>1, <2>2 DEF HeaderPart
<1>14. BodyPart'
  <2>1. Sent' = Sent /\ Produced' = Produced
    BY <1>1, <1>3, <1>6, <1>7, <1>8 DEF Sent, Produced
  <2> QED
    BY <1>1, <1>3, <1>6, <1>8, <1>9, <2>1 DEF BodyPart
<1> QED
  BY <1>10, <1>11, <1>12, <1>13, <1>14

-------------------------------------------------------------------------------
(***************************************************************************)
(* Bytes handed to quiche.                                                 *)
(***************************************************************************)
WireType == [interim : Nat, final : Nat, bytes : Seq(Nat), fin : BOOLEAN]

\* What send_body leaves.
LEMMA AcceptIs ==
    ASSUME NEW w \in WireType, NEW d \in Seq(Nat), NEW k \in 0..Len(d),
           NEW fin \in BOOLEAN
    PROVE  LET v == Accept(w, d, k, fin) IN
           /\ v \in WireType
           /\ v.interim = w.interim /\ v.final = w.final
           /\ v.bytes = w.bytes \o SubSeq(d, 1, k)
           /\ Len(v.bytes) = Len(w.bytes) + k
           /\ v.fin <=> w.fin \/ (fin /\ k = Len(d))
<1>1. w.bytes \in Seq(Nat) /\ w.fin \in BOOLEAN
  BY DEF WireType
<1> DEFINE b == w.bytes \o SubSeq(d, 1, k)
           f == w.fin \/ (fin /\ k = Len(d))
<1>2. b \in Seq(Nat) /\ Len(b) = Len(w.bytes) + k
  BY <1>1, CutChunk
<1>3. f \in BOOLEAN
  BY <1>1
<1>4. Accept(w, d, k, fin) = [w EXCEPT !.bytes = b, !.fin = f]
  BY DEF Accept
<1> HIDE DEF b, f
<1>5. /\ Accept(w, d, k, fin) \in WireType
      /\ Accept(w, d, k, fin).interim = w.interim
      /\ Accept(w, d, k, fin).final = w.final
      /\ Accept(w, d, k, fin).bytes = b /\ Accept(w, d, k, fin).fin = f
  BY <1>2, <1>3, <1>4 DEF WireType
<1> QED
  BY <1>2, <1>3, <1>5 DEF b, f

\* The FIN after the last byte moves no byte.
LEMMA FinishIs ==
    ASSUME NEW w \in WireType, NEW v \in Finish(w)
    PROVE  /\ v \in WireType
           /\ v.interim = w.interim /\ v.final = w.final /\ v.bytes = w.bytes
<1>1. w.bytes \in Seq(Nat) /\ <<>> \in Seq(Nat) /\ 0 \in 0..Len(<<>>)
  BY DEF WireType
<1>2. SubSeq(<<>>, 1, 0) = <<>>
  BY SubSeqEmpty
<1>3. w.bytes \o <<>> = w.bytes
  BY <1>1, ConcatEmptySeq
<1>4. CASE v = Accept(w, <<>>, 0, TRUE)
  <2> DEFINE b == w.bytes \o SubSeq(<<>>, 1, 0)
             f == w.fin \/ (TRUE /\ 0 = Len(<<>>))
  <2>1. v = [w EXCEPT !.bytes = b, !.fin = f]
    BY <1>4 DEF Accept
  <2>2. b = w.bytes /\ b \in Seq(Nat)
    BY <1>1, <1>2, <1>3
  <2>3. f \in BOOLEAN
    BY DEF WireType
  <2> HIDE DEF b, f
  <2> QED
    BY <2>1, <2>2, <2>3 DEF WireType
<1>5. CASE v = w
  BY <1>5
<1> QED
  BY <1>4, <1>5 DEF Finish

\* The tracker counts what it is told.
LEMMA TrackIs ==
    ASSUME NEW t \in [written : Nat, total : Nat], NEW k \in Nat
    PROVE  /\ Track(t, k) \in [written : Nat, total : Nat]
           /\ Track(t, k).total = t.total
           /\ t.total > 0 => Track(t, k).written = t.written + k
           /\ t.total = 0 => Track(t, k) = t
<1>1. t.written \in Nat /\ t.total \in Nat /\ t.written + k \in Nat
  OBVIOUS
<1>2. CASE t.total = 0
  BY <1>1, <1>2 DEF Track
<1>3. CASE t.total # 0
  <2> DEFINE n == t.written + k
  <2>1. n \in Nat /\ Track(t, k) = [t EXCEPT !.written = n]
    BY <1>1, <1>3 DEF Track
  <2> HIDE DEF n
  <2>2. /\ Track(t, k) \in [written : Nat, total : Nat]
        /\ Track(t, k).total = t.total /\ Track(t, k).written = n
    BY <2>1
  <2> QED
    BY <1>3, <2>2 DEF n
<1> QED
  BY <1>2, <1>3

\* Nothing is taken beyond what was produced, and a job is not done before the
\* body is.
LEMMA SentBounds ==
    ASSUME IInv, conn = "up"
    PROVE  /\ Sent \in Seq(Nat) /\ Len(Sent) \in Nat /\ Len(Sent) <= Produced
           /\ Produced \in Nat
           /\ low # <<>> => Len(Sent) < Produced
           /\ ~IsSession => (Produced > 0 => BodyFollows)
           /\ ~IsSession /\ BodyFollows => Produced <= plan.len
           /\ ~IsSession /\ job # NoJob => Produced < plan.len
<1> USE DEF IInv
<1>1. Sent \in Seq(Nat) /\ low \in Seq(Items)
  <2>1. /\ wire.bytes \in Seq(Nat) /\ partial \in Seq(Nat) /\ taken.data \in Seq(Nat)
        /\ low \in Seq(Items)
    BY DEF TypeOK, Items
  <2> QED
    BY <2>1, ConcatProperties DEF Sent
<1>2. Follows(Sent, low) /\ EndOf(Sent, low) = Produced
  BY DEF BodyPart
<1>3. /\ Produced \in Nat /\ Len(Sent) \in Nat /\ Len(Sent) <= Produced
      /\ low # <<>> => Len(Sent) < Produced
  BY <1>1, <1>2, EndBounds, LenProperties
<1>4. BodyFollows => plan.len \in Nat
  BY SendAssumption DEF TypeOK, PlanType, BodyFollows
<1>5. ~IsSession /\ job # NoJob => /\ Produced = job.read /\ job.read < plan.len
                                   /\ BodyFollows /\ job.read \in Nat
  BY DEF Produced, JobPart, TypeOK
<1>6. ~IsSession /\ job = NoJob => \/ Produced = 0
                                   \/ BodyFollows /\ Produced = plan.len
  BY DEF Produced
<1>7. ~IsSession => (Produced > 0 => BodyFollows)
  BY <1>3, <1>5, <1>6
<1>8. ~IsSession /\ BodyFollows => Produced <= plan.len
  BY <1>3, <1>4, <1>5, <1>6
<1>9. ~IsSession /\ job # NoJob => Produced < plan.len
  BY <1>5
<1> QED
  BY <1>1, <1>3, <1>7, <1>8, <1>9

\* A step that hands bytes of the partial chunk or of the popped item to quiche
\* and leaves them in their order.
LEMMA SendKeeps ==
    ASSUME IInv, conn = "up", ~wire.fin, wire.final = 1,
           wire' \in WireType, wire'.interim = wire.interim, wire'.final = 1,
           partial' \in Seq(Nat), taken' = NoItem,
           taken.kind \notin HeaderKinds, pendingQ = <<>> \/ taken = NoItem,
           (wire'.bytes \o partial') \o <<>> = Sent,
           tracker' \in [written : Nat, total : Nat], tracker'.total = tracker.total,
           tracker.total > 0 => tracker'.written = Len(wire'.bytes),
           wire'.fin => ~IsSession /\ (BodyFollows => Len(wire'.bytes) = plan.len),
           UNCHANGED <<prodVars, job, headersSend, conn, pendingQ, high, low>>,
           counter' \in 0..Limit, chan' \in [set : BOOLEAN, reset : BOOLEAN],
           \/ chan' = chan
           \/ /\ ~chan'.set /\ ~chan'.reset /\ ~IsSession /\ low = <<>>
              /\ high = <<>> /\ job = NoJob,
           ~chan'.set => counter' = 0,
           ~IsSession /\ chan'.set =>
              counter' = Len(low) + (IF job.phase = "send" THEN 1 ELSE 0)
    PROVE  IInv'
<1> USE DEF IInv
<1>1. UNCHANGED <<plan, prod, session>>
  BY DEF prodVars
<1>2. Queued' = Queued /\ IsSession' = IsSession /\ BodyFollows' = BodyFollows
  BY <1>1 DEF Queued, IsSession, BodyFollows
<1>3. /\ taken' \in Items /\ taken'.kind = "none" /\ taken'.data = <<>>
      /\ taken'.kind \notin HeaderKinds
  BY HeaderFacts DEF HeaderKinds
<1>4. TypeOK'
  BY <1>1, <1>3 DEF TypeOK, WireType
<1>5. TakenPart' /\ ConnPart' /\ JobPart'
  BY <1>1, <1>2, <1>3 DEF TakenPart, ConnPart, JobPart
<1>6. FinMeansWhole'
  BY <1>1, <1>2 DEF FinMeansWhole
<1>7. Queued
  BY DEF HeaderPart
<1>8. ChannelPart'
  <2> DEFINE a == IF job.phase = "send" THEN 1 ELSE 0
             l == Len(low)
  <2>1. l \in Nat /\ a \in Nat
    BY LenProperties DEF TypeOK
  <2>2. ~IsSession /\ chan'.set => counter' = l + a
    OBVIOUS
  <2>3. /\ (IF job'.phase = "send" THEN 1 ELSE 0) = a /\ Len(low') = l
        /\ (IF taken'.kind = "body" THEN 1 ELSE 0) = 0
    BY <1>3
  <2> HIDE DEF a, l
  <2>4. ~IsSession /\ chan'.set => counter' = l + a + 0
    BY <2>1, <2>2
  <2>5. ~IsSession' /\ chan'.set =>
           counter' = Len(low') + (IF job'.phase = "send" THEN 1 ELSE 0)
                                + (IF taken'.kind = "body" THEN 1 ELSE 0)
    BY <1>2, <2>3, <2>4
  <2> QED
    BY <1>1, <1>2, <1>7, <2>5 DEF ChannelPart
<1>9. HeaderPart'
  <2>1. taken' = taken \/ pendingQ = <<>>
    OBVIOUS
  <2> QED
    BY <1>1, <1>2, <1>3, <2>1, HeaderKeeps
<1>10. BodyPart'
  <2>1. Sent' = Sent
    BY <1>3 DEF Sent
  <2>2. Produced' = Produced
    BY <1>1, <1>2 DEF Produced
  <2> QED
    BY <1>1, <1>2, <2>1, <2>2 DEF BodyPart
<1> QED
  BY <1>4, <1>5, <1>6, <1>8, <1>9, <1>10

\* More of the partial chunk is accepted.
LEMMA WritableStep ==
    ASSUME IInv, HandleWritable
    PROVE  IInv'
<1> USE DEF IInv
<1>1. /\ conn = "up" /\ ~wire.fin /\ taken = NoItem /\ partial # <<>>
      /\ UNCHANGED <<prodVars, chan, high, low, counter, job, taken, pendingQ,
                     headersSend, conn>>
  BY DEF HandleWritable, Writable, NetIdle, chanVars
<1>2. PICK k \in 1..Len(partial) :
         /\ partial' = SubSeq(partial, k + 1, Len(partial))
         /\ tracker' = Track(tracker, k)
         /\ LET w == Accept(wire, partial, k, FALSE) IN
              IF k = Len(partial) /\ WholeSent(tracker, k)
              THEN wire' \in Finish(w)
              ELSE wire' = w
  BY DEF HandleWritable
<1> DEFINE w == Accept(wire, partial, k, FALSE)
<1>3. /\ wire \in WireType /\ wire.bytes \in Seq(Nat) /\ partial \in Seq(Nat)
      /\ tracker \in [written : Nat, total : Nat] /\ tracker.total \in Nat
      /\ tracker.written \in Nat /\ Len(wire.bytes) \in Nat
  BY LenProperties DEF TypeOK, WireType
<1>4. k \in 0..Len(partial) /\ k \in Nat /\ k > 0 /\ Len(partial) \in Nat
  BY <1>3, LenProperties
<1>5. /\ w \in WireType /\ w.interim = wire.interim /\ w.final = wire.final
      /\ w.bytes = wire.bytes \o SubSeq(partial, 1, k)
      /\ Len(w.bytes) = Len(wire.bytes) + k
  BY <1>3, <1>4, AcceptIs
<1>6. ~w.fin
  BY <1>1, <1>3, <1>4, AcceptIs
<1> HIDE DEF w
<1>7. /\ wire' \in WireType /\ wire'.interim = wire.interim
      /\ wire'.final = wire.final /\ wire'.bytes = w.bytes
      /\ wire'.fin => k = Len(partial) /\ WholeSent(tracker, k)
  <2>1. CASE k = Len(partial) /\ WholeSent(tracker, k)
    BY <1>2, <1>5, <2>1, FinishIs DEF w
  <2>2. CASE ~(k = Len(partial) /\ WholeSent(tracker, k))
    BY <1>2, <1>5, <1>6, <2>2 DEF w
  <2> QED
    BY <2>1, <2>2
<1>8. wire.final = 1
  BY <1>1 DEF BodyPart, HeaderPart
<1>9. /\ partial' \in Seq(Nat) /\ wire'.bytes \o partial' = wire.bytes \o partial
  <2>1. /\ SubSeq(partial, k + 1, Len(partial)) \in Seq(Nat)
        /\ (wire.bytes \o SubSeq(partial, 1, k)) \o SubSeq(partial, k + 1, Len(partial))
              = wire.bytes \o partial
    BY <1>3, <1>4, CutChunk
  <2> QED
    BY <1>2, <1>5, <1>7, <2>1
<1>10. (wire'.bytes \o partial') \o <<>> = Sent /\ taken.kind \notin HeaderKinds
  BY <1>1, <1>9, HeaderFacts DEF Sent, HeaderKinds
<1>11. /\ tracker' \in [written : Nat, total : Nat] /\ tracker'.total = tracker.total
       /\ tracker.total > 0 => tracker'.written = tracker.written + k
  BY <1>2, <1>3, <1>4, TrackIs
<1>12. tracker.total > 0 => tracker.written = Len(wire.bytes)
  BY DEF FinMeansWhole
<1>13. tracker.total > 0 => tracker'.written = Len(wire'.bytes)
  BY <1>5, <1>7, <1>11, <1>12
<1>14. ASSUME wire'.fin
       PROVE  ~IsSession /\ (BodyFollows => Len(wire'.bytes) = plan.len)
  <2>1. tracker.written + k = tracker.total
    BY <1>7, <1>14 DEF WholeSent
  <2>2. tracker.total > 0
    BY <1>3, <1>4, <2>1
  <2>3. ~IsSession /\ (BodyFollows => tracker.total = plan.len)
    BY <1>1, <1>3, <1>8, <2>2 DEF BodyPart
  <2> QED
    BY <1>5, <1>7, <1>12, <2>1, <2>2, <2>3
<1>15. /\ counter' \in 0..Limit /\ chan' \in [set : BOOLEAN, reset : BOOLEAN]
       /\ ~chan'.set => counter' = 0
       /\ ~IsSession /\ chan'.set =>
              counter' = Len(low) + (IF job.phase = "send" THEN 1 ELSE 0)
  <2>1. taken.kind # "body" /\ Len(low) \in Nat
    BY <1>1, HeaderFacts, LenProperties DEF TypeOK
  <2> QED
    BY <1>1, <2>1 DEF TypeOK, ChannelPart
<1> QED
  BY <1>1, <1>7, <1>8, <1>9, <1>10, <1>11, <1>13, <1>14, <1>15, SendKeeps

\* What is known of a popped chunk or capsule, cut after its k-th byte.
LEMMA TakenData ==
    ASSUME IInv, taken.kind \in {"body", "capsule"}, NEW k \in 0..Len(taken.data)
    PROVE  /\ conn = "up" /\ ~wire.fin /\ wire.final = 1 /\ pendingQ = <<>>
           /\ taken.kind \notin HeaderKinds /\ wire \in WireType /\ k \in Nat
           /\ wire.bytes \in Seq(Nat) /\ taken.data \in Seq(Nat)
           /\ Len(taken.data) \in Nat /\ Len(taken.data) > 0 /\ Len(wire.bytes) \in Nat
           /\ Len(Sent) = Len(wire.bytes) + Len(taken.data)
           /\ SubSeq(taken.data, k + 1, Len(taken.data)) \in Seq(Nat)
           /\ ((wire.bytes \o SubSeq(taken.data, 1, k))
                 \o SubSeq(taken.data, k + 1, Len(taken.data))) \o <<>> = Sent
<1> USE DEF IInv
<1>1. taken # NoItem /\ taken.kind \notin HeaderKinds
  BY HeaderFacts DEF HeaderKinds
<1>2. /\ conn = "up" /\ ~wire.fin /\ wire.final = 1 /\ pendingQ = <<>>
      /\ partial = <<>> /\ taken.data # <<>>
  BY <1>1 DEF TakenPart
<1>3. /\ wire \in WireType /\ wire.bytes \in Seq(Nat) /\ taken.data \in Seq(Nat)
  BY DEF TypeOK, WireType, Items
<1>4. /\ Len(taken.data) \in Nat /\ Len(taken.data) > 0 /\ Len(wire.bytes) \in Nat
      /\ k \in Nat
  BY <1>2, <1>3, EmptySeq, LenProperties
<1>5. Sent = wire.bytes \o taken.data
  BY <1>2, <1>3, ConcatEmptySeq DEF Sent
<1>6. /\ Sent \in Seq(Nat) /\ Len(Sent) = Len(wire.bytes) + Len(taken.data)
  BY <1>3, <1>5, ConcatProperties
<1>7. /\ SubSeq(taken.data, k + 1, Len(taken.data)) \in Seq(Nat)
      /\ (wire.bytes \o SubSeq(taken.data, 1, k))
                 \o SubSeq(taken.data, k + 1, Len(taken.data)) = Sent
  BY <1>3, <1>5, CutChunk
<1>8. Sent \o <<>> = Sent
  BY <1>6, ConcatEmptySeq
<1> QED
  BY <1>1, <1>2, <1>3, <1>4, <1>6, <1>7, <1>8

\* A capsule, or the beginning of one, is accepted.
LEMMA StreamDataStep ==
    ASSUME IInv, SendStreamData
    PROVE  IInv'
<1> USE DEF IInv
<1>1. /\ taken.kind = "capsule" /\ counter' = Decrement /\ taken' = NoItem
      /\ UNCHANGED <<prodVars, chan, high, low, job, pendingQ, headersSend, conn>>
  BY DEF SendStreamData
<1>2. PICK k \in 0..Len(taken.data) :
         /\ tracker' = Track(tracker, k)
         /\ partial' = SubSeq(taken.data, k + 1, Len(taken.data))
         /\ wire' = Accept(wire, taken.data, k, FALSE)
  BY DEF SendStreamData
<1>3. /\ conn = "up" /\ ~wire.fin /\ wire.final = 1 /\ pendingQ = <<>>
      /\ taken.kind \notin HeaderKinds /\ wire \in WireType /\ k \in Nat
      /\ wire.bytes \in Seq(Nat) /\ taken.data \in Seq(Nat)
      /\ partial' \in Seq(Nat)
      /\ ((wire.bytes \o SubSeq(taken.data, 1, k)) \o partial') \o <<>> = Sent
  BY <1>1, <1>2, TakenData
<1> DEFINE w == Accept(wire, taken.data, k, FALSE)
<1>4. /\ w \in WireType /\ w.interim = wire.interim /\ w.final = 1
      /\ w.bytes = wire.bytes \o SubSeq(taken.data, 1, k)
  <2>1. wire \in WireType /\ taken.data \in Seq(Nat)
    BY <1>3
  <2>2. /\ w \in WireType /\ w.interim = wire.interim /\ w.final = wire.final
        /\ w.bytes = wire.bytes \o SubSeq(taken.data, 1, k)
    BY <2>1, AcceptIs
  <2> QED
    BY <1>3, <2>2
<1>5. ~w.fin
  BY <1>3, AcceptIs
<1> HIDE DEF w
<1>9. /\ wire' \in WireType /\ wire'.interim = wire.interim /\ wire'.final = 1
      /\ ~wire'.fin /\ (wire'.bytes \o partial') \o <<>> = Sent
  <2>1. wire' = w
    BY <1>2 DEF w
  <2> QED
    BY <1>3, <1>4, <1>5, <2>1
<1>6. IsSession /\ tracker.total = 0
  BY <1>1 DEF TakenPart, BodyPart
<1>7. /\ tracker' = tracker /\ tracker \in [written : Nat, total : Nat]
      /\ tracker.total \in Nat
  BY <1>2, <1>3, <1>6, TrackIs DEF TypeOK
<1>8. /\ counter' \in 0..Limit /\ chan' \in [set : BOOLEAN, reset : BOOLEAN]
      /\ ~chan'.set => counter' = 0
  BY <1>1, SendAssumption DEF Decrement, TypeOK, ChannelPart
<1>10. /\ conn = "up" /\ ~wire.fin /\ wire.final = 1 /\ pendingQ = <<>>
       /\ taken.kind \notin HeaderKinds /\ partial' \in Seq(Nat)
       /\ tracker' \in [written : Nat, total : Nat] /\ tracker'.total = tracker.total
       /\ ~(tracker.total > 0) /\ IsSession /\ taken' = NoItem
       /\ UNCHANGED <<prodVars, job, headersSend, conn, pendingQ, high, low>>
       /\ chan' = chan
  BY <1>1, <1>3, <1>6, <1>7
<1> QED
  BY <1>8, <1>9, <1>10, SendKeeps

\* A chunk, or the beginning of one, is accepted; with the last byte the FIN
\* follows and the channel goes.
LEMMA BodyStep ==
    ASSUME IInv, SendBodyResponse
    PROVE  IInv'
<1> USE DEF IInv
<1>1. /\ taken.kind = "body" /\ taken' = NoItem
      /\ UNCHANGED <<prodVars, job, headersSend, conn>>
  BY DEF SendBodyResponse
<1>2. 0 \in 0..Len(taken.data)
  BY LenProperties DEF TypeOK, Items
<1>3. /\ conn = "up" /\ ~wire.fin /\ wire.final = 1 /\ pendingQ = <<>>
      /\ taken.kind \notin HeaderKinds /\ wire \in WireType
      /\ wire.bytes \in Seq(Nat) /\ taken.data \in Seq(Nat)
      /\ Len(taken.data) \in Nat /\ Len(taken.data) > 0 /\ Len(wire.bytes) \in Nat
      /\ Len(Sent) = Len(wire.bytes) + Len(taken.data)
  BY <1>1, <1>2, TakenData
<1>4. ~IsSession
  BY <1>1 DEF TakenPart
<1>5. /\ BodyFollows /\ Produced \in Nat /\ Len(Sent) <= Produced
      /\ Produced <= plan.len
      /\ low # <<>> => Len(Sent) < Produced
      /\ job # NoJob => Produced < plan.len
  <2>1. /\ Produced \in Nat /\ Len(Sent) <= Produced /\ Len(Sent) \in Nat
        /\ low # <<>> => Len(Sent) < Produced
        /\ Produced > 0 => BodyFollows
        /\ BodyFollows => Produced <= plan.len
        /\ job # NoJob => Produced < plan.len
    BY <1>3, <1>4, SentBounds
  <2> DEFINE a == Len(taken.data)
             b == Len(wire.bytes)
             n == Len(Sent)
  <2>2. /\ a \in Nat /\ a > 0 /\ b \in Nat /\ n = b + a /\ n <= Produced
        /\ Produced \in Nat
    BY <1>3, <2>1
  <2> HIDE DEF a, b, n
  <2>3. Produced > 0
    BY <2>2
  <2> QED
    BY <2>1, <2>3
<1>6. /\ plan.len \in Nat /\ plan.len > 0 /\ tracker.total = plan.len
      /\ tracker.written = Len(wire.bytes) /\ headersSend
      /\ tracker \in [written : Nat, total : Nat]
  BY <1>3, <1>4, <1>5, SendAssumption
     DEF TypeOK, PlanType, BodyFollows, BodyPart, FinMeansWhole
<1>7. tracker.written # tracker.total
  <2> DEFINE a == Len(taken.data)
             b == Len(wire.bytes)
             n == Len(Sent)
             p == plan.len
  <2>1. /\ a \in Nat /\ a > 0 /\ b \in Nat /\ n = b + a /\ n <= Produced
        /\ Produced \in Nat /\ Produced <= p /\ p \in Nat
    BY <1>3, <1>5, <1>6
  <2> HIDE DEF a, b, n, p
  <2>2. b # p
    BY <2>1
  <2> QED
    BY <1>6, <2>2 DEF b, p
<1>8. PICK k \in 0..Len(taken.data) :
         LET t == Track(tracker, k)
             w == Accept(wire, taken.data, k, tracker.written = tracker.total)
         IN /\ tracker' = t
            /\ partial' = SubSeq(taken.data, k + 1, Len(taken.data))
            /\ IF t.total > 0 /\ t.written = t.total
               THEN /\ wire' \in Finish(w)
                    /\ RemoveChannel
                    /\ pendingQ' = <<>>
               ELSE /\ wire' = w
                    /\ counter' = Decrement
                    /\ UNCHANGED <<chan, high, low, pendingQ>>
  BY <1>6 DEF SendBodyResponse
<1> DEFINE w == Accept(wire, taken.data, k, tracker.written = tracker.total)
<1>9. /\ partial' \in Seq(Nat) /\ k \in Nat /\ k <= Len(taken.data)
      /\ ((wire.bytes \o SubSeq(taken.data, 1, k)) \o partial') \o <<>> = Sent
  <2>1. /\ SubSeq(taken.data, k + 1, Len(taken.data)) \in Seq(Nat) /\ k \in Nat
        /\ ((wire.bytes \o SubSeq(taken.data, 1, k))
              \o SubSeq(taken.data, k + 1, Len(taken.data))) \o <<>> = Sent
    BY <1>1, TakenData
  <2>2. k <= Len(taken.data)
    BY <1>3
  <2> QED
    BY <1>8, <2>1, <2>2
<1>11. /\ w \in WireType /\ w.interim = wire.interim /\ w.final = wire.final
       /\ w.bytes = wire.bytes \o SubSeq(taken.data, 1, k)
       /\ Len(w.bytes) = Len(wire.bytes) + k
       /\ ~w.fin
  <2> DEFINE f == tracker.written = tracker.total
  <2>1. f \in BOOLEAN /\ ~f
    BY <1>7
  <2>2. w = Accept(wire, taken.data, k, f)
    OBVIOUS
  <2>3. wire \in WireType /\ taken.data \in Seq(Nat)
    BY <1>3
  <2> HIDE DEF f, w
  <2>4. /\ Accept(wire, taken.data, k, f) \in WireType
        /\ Accept(wire, taken.data, k, f).interim = wire.interim
        /\ Accept(wire, taken.data, k, f).final = wire.final
        /\ Accept(wire, taken.data, k, f).bytes
              = wire.bytes \o SubSeq(taken.data, 1, k)
        /\ Len(Accept(wire, taken.data, k, f).bytes) = Len(wire.bytes) + k
    BY <2>1, <2>3, AcceptIs
  <2>5. ~Accept(wire, taken.data, k, f).fin
    <3>1. Accept(wire, taken.data, k, f).fin <=> wire.fin \/ (f /\ k = Len(taken.data))
      BY <2>1, <2>3, AcceptIs
    <3> QED
      BY <1>3, <2>1, <3>1
  <2> QED
    BY <2>2, <2>4, <2>5
<1> HIDE DEF w
<1>12. /\ tracker' \in [written : Nat, total : Nat] /\ tracker' = Track(tracker, k)
       /\ tracker'.total = tracker.total /\ tracker'.written = tracker.written + k
  BY <1>6, <1>8, <1>9, TrackIs
<1>13. tracker'.written = Len(w.bytes)
  BY <1>6, <1>11, <1>12
<1>14. high = <<>>
  <2>1. ~InterimUnsent /\ ~FinalUnsent
    BY <1>3 DEF HeaderPart, InterimUnsent, FinalUnsent
  <2>2. Unsent = <<>>
    BY <2>1 DEF Unsent
  <2>3. taken # NoItem
    BY <1>1, HeaderFacts
  <2> QED
    BY <1>3, <2>2, <2>3 DEF HeaderPart
<1>15. CASE tracker'.written = tracker'.total
  <2>1. wire' \in Finish(w) /\ RemoveChannel /\ pendingQ' = <<>>
    BY <1>6, <1>8, <1>12, <1>15 DEF w
  <2>2. /\ wire' \in WireType /\ wire'.interim = wire.interim
        /\ wire'.final = 1 /\ wire'.bytes = w.bytes
    BY <1>3, <1>11, <2>1, FinishIs
  <2>3. Len(wire'.bytes) = plan.len
    BY <1>6, <1>12, <1>13, <1>15, <2>2
  <2>4. Len(wire.bytes) + k = plan.len
    BY <1>11, <2>2, <2>3
  <2>5. ~(Len(Sent) < Produced) /\ ~(Produced < plan.len)
    <3> DEFINE a == Len(taken.data)
               b == Len(wire.bytes)
               n == Len(Sent)
               p == plan.len
    <3>1. /\ a \in Nat /\ b \in Nat /\ n = b + a /\ n <= Produced /\ k \in Nat
          /\ Produced \in Nat /\ Produced <= p /\ p \in Nat /\ k <= a /\ b + k = p
      BY <1>3, <1>5, <1>6, <1>9, <2>4
    <3> HIDE DEF a, b, n, p
    <3>2. ~(n < Produced) /\ ~(Produced < p)
      BY <3>1
    <3> QED
      BY <3>2 DEF n, p
  <2>6. low = <<>> /\ job = NoJob
    BY <1>5, <2>5
  <2>7. /\ chan' = [set |-> FALSE, reset |-> FALSE] /\ high' = <<>> /\ low' = <<>>
        /\ counter' = 0
    BY <2>1 DEF RemoveChannel
  <2>8. /\ chan' \in [set : BOOLEAN, reset : BOOLEAN] /\ ~chan'.set /\ ~chan'.reset
        /\ counter' \in 0..Limit
    BY <2>7, SendAssumption
  <2> QED
    BY <1>1, <1>3, <1>4, <1>9, <1>11, <1>12, <1>13, <1>14, <2>1, <2>2, <2>3, <2>6,
       <2>7, <2>8, SendKeeps
<1>16. CASE tracker'.written # tracker'.total
  <2>1. wire' = w /\ counter' = Decrement /\ UNCHANGED <<chan, high, low, pendingQ>>
    BY <1>8, <1>12, <1>16 DEF w
  <2>2. Len(low) \in Nat /\ counter \in 0..Limit /\ Limit \in Nat
    BY LenProperties, SendAssumption DEF TypeOK
  <2>3. chan.set => counter = Len(low) + (IF job.phase = "send" THEN 1 ELSE 0) + 1
    BY <1>1, <1>4 DEF ChannelPart
  <2>4. /\ counter' \in 0..Limit
        /\ chan.set => counter' = Len(low) + (IF job.phase = "send" THEN 1 ELSE 0)
    BY <2>1, <2>2, <2>3 DEF Decrement
  <2>5. ~chan.set => counter' = 0
    BY <2>1 DEF Decrement, ChannelPart
  <2>6. chan' \in [set : BOOLEAN, reset : BOOLEAN]
    BY <2>1 DEF TypeOK
  <2> QED
    BY <1>1, <1>3, <1>4, <1>9, <1>11, <1>12, <1>13, <2>1, <2>4, <2>5, <2>6, SendKeeps
<1> QED
  BY <1>15, <1>16

-------------------------------------------------------------------------------
\* Every step preserves the invariant.
LEMMA StepInv == IInv /\ [Next]_vars => IInv'
<1> SUFFICES ASSUME IInv, [Next]_vars PROVE IInv'
  OBVIOUS
<1>1. CASE Producer
  BY <1>1, QueueStep DEF Producer
<1>2. CASE Callback
  BY <1>2, CallbackStep DEF Callback
<1>3. CASE Session
  BY <1>3, ResolveStep, CapsuleStep DEF Session
<1>4. CASE Chunking
  BY <1>4, ReadStep, ChunkStep DEF Chunking
<1>5. CASE RequestedReset \/ HandleWritable \/ Pop
  BY <1>5, ResetStep, WritableStep, PopStep
<1>6. CASE HandTaken
  BY <1>6, InterimStep, RefuseStep, FinalStep, OpeningStep, ResetStep, BodyStep,
     StreamDataStep DEF HandTaken
<1>7. CASE CollectConnection
  BY <1>7, CollectStep
<1>8. CASE UNCHANGED vars
  <2>1. /\ TypeOK' = TypeOK /\ TakenPart' = TakenPart /\ ConnPart' = ConnPart
        /\ JobPart' = JobPart /\ FinMeansWhole' = FinMeansWhole
    BY <1>8 DEF vars, TypeOK, TakenPart, ConnPart, JobPart, FinMeansWhole, IsSession,
           BodyFollows, Queued
  <2>2. ChannelPart'
    BY <1>8 DEF vars, IInv, ChannelPart, IsSession, Queued
  <2>3. HeaderPart'
    BY <1>8, HeaderKeeps DEF vars, IInv, Queued
  <2>4. BodyPart'
    BY <1>8, BodyKeeps DEF vars, IInv
  <2> QED
    BY <2>1, <2>2, <2>3, <2>4 DEF IInv
<1> QED
  BY <1>1, <1>2, <1>3, <1>4, <1>5, <1>6, <1>7, <1>8 DEF Next, Network

\* The inductive invariant holds in every reachable state.
THEOREM Invariance == Spec => []IInv
BY InitInv, StepInv, PTL DEF Spec

\* The variables of the sending side keep their types: the counter of the low
\* priority channel stays within its limit, whoever counts.
THEOREM TypeCorrect == Spec => []TypeOK
<1>1. IInv => TypeOK
  BY DEF IInv
<1> QED
  BY <1>1, Invariance, PTL

\* The bytes quiche accepted, the partial chunk, the popped item and the low
\* priority channel are, one after the other, the bytes produced so far.
THEOREM BytesInOrder == Spec => []InOrder
<1>1. ASSUME IInv PROVE InOrder
  <2> SUFFICES ASSUME conn = "up" PROVE InOrder
    BY DEF InOrder
  <2>1. Follows(Sent, low) /\ Produced = EndOf(Sent, low)
    BY <1>1 DEF IInv, BodyPart
  <2>2. ~chan.set => low = <<>>
    BY <1>1 DEF IInv, ChannelPart
  <2>3. Sent = Bytes(0, Len(Sent))
    BY <2>1 DEF Follows
  <2>4. \A i \in 1..Len(low) :
           low[i].data = Bytes(Len(Sent) + (i - 1) * ChunkSize, Len(low[i].data))
    BY <2>1 DEF Follows
  <2>5. Produced = IF low = <<>> \/ ~chan.set THEN Len(Sent)
                   ELSE Len(Sent) + (Len(low) - 1) * ChunkSize
                          + Len(low[Len(low)].data)
    BY <2>1, <2>2 DEF EndOf
  <2> QED
    BY <2>3, <2>4, <2>5 DEF InOrder, Sent
<1> QED
  BY <1>1, Invariance, PTL

\* A stream is finished only with its whole body sent, and the tracker counts
\* exactly the bytes quiche accepted.
THEOREM FinIsWhole == Spec => []FinMeansWhole
<1>1. IInv => FinMeansWhole
  BY DEF IInv
<1> QED
  BY <1>1, Invariance, PTL

\* Each header is sent once, the interim one first, and no byte before them.
THEOREM HeadersComeFirst == Spec => []HeadersFirst
<1>1. IInv => HeadersFirst
  BY DEF IInv, HeadersFirst, HeaderPart, BodyPart
<1> QED
  BY <1>1, Invariance, PTL

\* The channel of a response holds at most Limit chunks, and its counter counts
\* them together with the one being sent and the one being handed to quiche.
THEOREM ChannelIsBounded == Spec => []ChannelBounded
<1>1. ASSUME IInv, ~IsSession
      PROVE  /\ Len(low) <= Limit
             /\ chan.set => counter = Len(low) + (IF job.phase = "send" THEN 1 ELSE 0)
                                      + (IF taken.kind = "body" THEN 1 ELSE 0)
  <2>1. chan.set => counter = Len(low) + (IF job.phase = "send" THEN 1 ELSE 0)
                                      + (IF taken.kind = "body" THEN 1 ELSE 0)
    BY <1>1 DEF IInv, ChannelPart
  <2>2. Len(low) \in Nat /\ counter \in 0..Limit /\ Limit \in Nat
    BY <1>1, LenProperties, SendAssumption DEF IInv, TypeOK
  <2>3. CASE chan.set
    <3> DEFINE l == Len(low)
               a == IF job.phase = "send" THEN 1 ELSE 0
               b == IF taken.kind = "body" THEN 1 ELSE 0
    <3>1. /\ counter = l + a + b /\ l \in Nat /\ a \in Nat /\ b \in Nat
          /\ counter <= Limit
      <4>1. counter = l + a + b
        BY <2>1, <2>3
      <4>2. counter <= Limit
        BY <2>2
      <4>3. l \in Nat /\ a \in Nat /\ b \in Nat
        BY <2>2
      <4> QED
        BY <4>1, <4>2, <4>3
    <3> HIDE DEF l, a, b
    <3>2. l <= Limit
      BY <2>2, <3>1
    <3> QED
      BY <2>1, <3>2 DEF l
  <2>4. CASE ~chan.set
    <3>1. low = <<>>
      BY <1>1, <2>4 DEF IInv, ChannelPart
    <3> QED
      BY <2>2, <2>4, <3>1
  <2> QED
    BY <2>3, <2>4
<1>2. IInv => ChannelBounded
  BY <1>1 DEF ChannelBounded
<1> QED
  BY <1>2, Invariance, PTL

\* A stream that was reset keeps nothing to send.
THEOREM ResetIsForgotten == Spec => []ResetForgets
<1>1. IInv => ResetForgets
  BY DEF IInv, ResetForgets, ConnPart, ChannelPart
<1> QED
  BY <1>1, Invariance, PTL
===============================================================================
