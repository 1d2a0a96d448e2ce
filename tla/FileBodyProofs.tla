---------------------------- MODULE FileBodyProofs ----------------------------
(***************************************************************************)
(* Proofs about FileBody: its type invariant and its safety properties,    *)
(* for any number of packets and handlers, any declared length and any     *)
(* I/O failures.                                                           *)
(***************************************************************************)
EXTENDS FileBody, TLAPS, SequenceTheorems

\* The elements of s are the numbers that follow k, in order.
RunFrom(s, k) == \A i \in 1..Len(s) : s[i] = k + i

\* Nothing was done with the handle yet.
Untouched == /\ h.disk = <<>> /\ h.buf = <<>> /\ h.written = 0
             /\ ~h.can_close /\ ~h.failed

\* A file that did not fail holds the first packets in order, the BufWriter
\* the next ones, and written counts both; a completed one is flushed and as
\* long as it should be.
Intact(s) ==
    ~s.failed => /\ RunFrom(s.disk, 0) /\ RunFrom(s.buf, Len(s.disk))
                 /\ s.written = Len(s.disk) + Len(s.buf)
                 /\ s.can_close => s.buf = <<>> /\ s.length = s.written

\* What the owner has received, and where it is with it.  As long as a prefix
\* is in memory, nothing is queued or written.
OwnerPart ==
    /\ size = IF stage = "append" THEN received - 1 ELSE received
    /\ stage = "append" => received > 0
    /\ stage = "buffering" => Untouched /\ queue = <<>> /\ Len(mem) = size
    /\ mem # <<>> => Untouched /\ queue = <<>> /\ Len(mem) = size
    /\ RunFrom(mem, 0)
    /\ stage \in {"length", "mismatch", "done"} => mem = <<>>
    /\ stage \in {"length", "mismatch"} => Free("owner")
    /\ stage = "length" => ~LengthMismatch
    /\ stage = "mismatch" => h.failed
    /\ stage = "done" => h.failed \/ h.length = size

\* The queue goes on where the file ends, up to the last packet received.
QueuePart ==
    ~h.failed /\ ~h.can_close =>
        /\ RunFrom(queue, h.written)
        /\ mem = <<>> => h.written + Len(queue) = size

\* What the state of a callback says of the file, and who is to post it.
CallbackPart ==
    \A c \in Handlers :
       /\ cb[c] # "none" => stage = "done"
       /\ cb[c] = "held" => ~h.can_close /\ ~h.failed
       /\ cb[c] \in {"due", "queued", "ran"} => h.can_close /\ ~h.failed
       /\ cb[c] = "dropped" => h.failed
       /\ ran[c] = IF cb[c] = "ran" THEN 1 ELSE 0
       /\ \A t \in Threads : c \in settling[t].post => cb[c] = "due"
       /\ \A t, u \in Threads :
             c \in settling[t].post /\ c \in settling[u].post => t = u

\* A terminal writer is pending only while some thread has yet to settle it.
PendingPart ==
    (h.can_close \/ h.failed) /\ stage # "mismatch" /\ pending =>
        \E t \in Threads : settling[t].terminal

\* The inductive invariant.
IInv == TypeOK /\ Intact(h) /\ OwnerPart /\ QueuePart /\ CallbackPart /\ PendingPart

-------------------------------------------------------------------------------
(***************************************************************************)
(* Runs of packet numbers.                                                 *)
(***************************************************************************)

\* The run continues at the end of a sequence.
LEMMA RunAppend ==
    ASSUME NEW s \in Seq(Packets), NEW k \in Nat, RunFrom(s, k),
           NEW p \in Packets, p = k + Len(s) + 1
    PROVE  /\ Append(s, p) \in Seq(Packets) /\ Len(Append(s, p)) = Len(s) + 1
           /\ RunFrom(Append(s, p), k)
BY DEF RunFrom

\* Two runs that adjoin make one.
LEMMA RunConcat ==
    ASSUME NEW s \in Seq(Packets), NEW t \in Seq(Packets), NEW k \in Nat,
           RunFrom(s, k), RunFrom(t, k + Len(s))
    PROVE  /\ s \o t \in Seq(Packets) /\ Len(s \o t) = Len(s) + Len(t)
           /\ RunFrom(s \o t, k)
BY ConcatProperties DEF RunFrom

\* The head of a run is its next number, and the tail is the run after it.
LEMMA RunTail ==
    ASSUME NEW s \in Seq(Packets), NEW k \in Nat, RunFrom(s, k), s # <<>>
    PROVE  /\ Head(s) = k + 1 /\ Head(s) \in Packets
           /\ Tail(s) \in Seq(Packets) /\ Len(Tail(s)) = Len(s) - 1
           /\ RunFrom(Tail(s), k + 1)
<1>1. /\ Head(s) \in Packets /\ Tail(s) \in Seq(Packets)
      /\ Len(s) \in Nat \ {0} /\ Len(Tail(s)) = Len(s) - 1
      /\ \A i \in 1..Len(Tail(s)) : Tail(s)[i] = s[i + 1]
      /\ Head(s) = s[1]
  BY HeadTailProperties
<1>2. s[1] = k + 1
  BY <1>1 DEF RunFrom
<1>3. \A i \in 1..Len(Tail(s)) : Tail(s)[i] = (k + 1) + i
  BY <1>1 DEF RunFrom
<1> QED
  BY <1>1, <1>2, <1>3 DEF RunFrom

\* The empty sequence is a run from anywhere.
LEMMA RunEmpty ==
    ASSUME NEW k \in Nat
    PROVE  RunFrom(<<>>, k) /\ Len(<<>>) = 0 /\ <<>> \in Seq(Packets)
BY DEF RunFrom

\* Flushing the buffer b of a file d makes one run of it.
LEMMA RunFlush ==
    ASSUME NEW d \in Seq(Packets), NEW b \in Seq(Packets),
           RunFrom(d, 0), RunFrom(b, Len(d))
    PROVE  /\ d \o b \in Seq(Packets) /\ RunFrom(d \o b, 0)
           /\ <<>> \in Seq(Packets) /\ RunFrom(<<>>, Len(d \o b))
           /\ Len(d) + Len(b) = Len(d \o b) + Len(<<>>)
           /\ b = <<>> => d \o b = d
<1>1. RunFrom(b, 0 + Len(d)) /\ Len(d) \in Nat /\ Len(b) \in Nat
  OBVIOUS
<1>2. /\ d \o b \in Seq(Packets) /\ RunFrom(d \o b, 0)
      /\ Len(d \o b) = Len(d) + Len(b)
  BY <1>1, RunConcat
<1>3. Len(d \o b) \in Nat
  BY <1>1, <1>2
<1> QED
  BY <1>1, <1>2, <1>3, RunEmpty, ConcatEmptySeq

\* The next packet in the buffer of a file continues its run.
LEMMA RunGrow ==
    ASSUME NEW d \in Seq(Packets), NEW b \in Seq(Packets), NEW w,
           RunFrom(b, Len(d)), w = Len(d) + Len(b), NEW p \in Packets, p = w + 1
    PROVE  /\ Append(b, p) \in Seq(Packets) /\ RunFrom(Append(b, p), Len(d))
           /\ w + 1 = Len(d) + Len(Append(b, p))
<1>1. Len(d) \in Nat /\ Len(b) \in Nat
  OBVIOUS
<1> QED
  BY <1>1, RunAppend

\* What a torn write leaves has the type of the file.
LEMMA TornType ==
    ASSUME NEW d \in Seq(Packets), NEW b \in Seq(Packets), NEW r \in Torn(d, b)
    PROVE  r \in Seq(Packets)
<1>1. PICK k \in 0..Len(b) : r = d \o SubSeq(b, 1, k)
  BY DEF Torn
<1>2. Len(b) \in Nat
  BY LenProperties
<1>3. \A i \in 1..k : b[i] \in Packets
  BY <1>2, ElementOfSeq
<1>4. SubSeq(b, 1, k) \in Seq(Packets)
  BY <1>2, <1>3, SubSeqProperties
<1> QED
  BY <1>1, <1>4, ConcatProperties

-------------------------------------------------------------------------------
(***************************************************************************)
(* What the operations on the handle may end in.                           *)
(***************************************************************************)

\* The outcome x of an operation on s tells what it left: a success is a
\* completed file, a wait is a file that is neither completed nor failed, an
\* error is a failed file or a completed one that was left alone.  A file that
\* is completed or failed stays so, and keeps its bytes.
Faithful(s, x) ==
    /\ x.h \in HandleType /\ x.res \in {"ready", "waiting", "err"}
    /\ Intact(x.h) /\ x.h.length = s.length
    /\ x.res = "ready" => x.h.can_close /\ ~x.h.failed
    /\ x.res = "waiting" => ~x.h.can_close /\ ~x.h.failed
    /\ x.res = "err" => x.h.failed \/ (x.h.can_close /\ x.h = s)
    /\ s.failed \/ s.can_close => x.h = s

\* An error that is kept.
LEMMA FailOutcome ==
    ASSUME NEW s \in HandleType, ~s.failed, ~s.can_close,
           NEW d \in Seq(Packets)
    PROVE  /\ Faithful(s, Outcome(Fail(s), "err"))
           /\ Faithful(s, Outcome([Fail(s) EXCEPT !.disk = d], "err"))
           /\ Fail(s).failed /\ [Fail(s) EXCEPT !.disk = d].failed
<1> DEFINE f == Fail(s)
           g == [Fail(s) EXCEPT !.disk = d]
<1>1. /\ f \in HandleType /\ f.failed /\ f.length = s.length
      /\ g \in HandleType /\ g.failed /\ g.length = s.length
  BY DEF Fail, HandleType
<1> HIDE DEF f, g
<1>2. ASSUME NEW y \in HandleType, y.failed, y.length = s.length
      PROVE  Faithful(s, Outcome(y, "err"))
  BY <1>2 DEF Faithful, Outcome, Intact
<1> QED
  BY <1>1, <1>2 DEF f, g

\* State::flush either moves all buffered bytes to the file or fails.
LEMMA FlushOutcome ==
    ASSUME NEW s \in HandleType, Intact(s), NEW x \in Flush(s)
    PROVE  \/ x.res = "err" /\ x.h.failed /\ Faithful(s, x)
           \/ /\ ~s.failed /\ x.res = "waiting"
              /\ x.h = [s EXCEPT !.disk = s.disk \o s.buf, !.buf = <<>>]
              /\ x.h \in HandleType /\ Intact(x.h)
              /\ s.can_close => x.h = s
<1>1. CASE s.failed
  BY <1>1 DEF Flush, Outcome, Faithful
<1>2. CASE ~s.failed
  <2> DEFINE f == [s EXCEPT !.disk = s.disk \o s.buf, !.buf = <<>>]
  <2>1. s.disk \in Seq(Packets) /\ s.buf \in Seq(Packets)
    BY DEF HandleType
  <2>2. CASE x = Outcome(f, "waiting")
    <3>1. /\ s.disk \o s.buf \in Seq(Packets) /\ RunFrom(s.disk \o s.buf, 0)
          /\ <<>> \in Seq(Packets) /\ RunFrom(<<>>, Len(s.disk \o s.buf))
          /\ Len(s.disk) + Len(s.buf) = Len(s.disk \o s.buf) + Len(<<>>)
          /\ s.buf = <<>> => s.disk \o s.buf = s.disk
      BY <1>2, <2>1, RunFlush, Zenon DEF Intact
    <3>2. f \in HandleType
      BY <3>1 DEF HandleType
    <3>3. s.can_close => s.buf = <<>>
      BY <1>2 DEF Intact
    <3>4. s.can_close => f = s
      BY <3>1, <3>3 DEF HandleType
    <3>5. Intact(f)
      <4>1. /\ f.disk = s.disk \o s.buf /\ f.buf = <<>> /\ f.written = s.written
            /\ f.can_close = s.can_close /\ f.length = s.length
            /\ f.failed = s.failed
        BY DEF HandleType
      <4> HIDE DEF f
      <4> QED
        BY <1>2, <3>1, <4>1, Zenon DEF Intact
    <3> QED
      BY <1>2, <2>2, <3>2, <3>4, <3>5 DEF Outcome
  <2>3. CASE /\ s.buf # <<>>
             /\ \E d \in Torn(s.disk, s.buf) :
                   x = Outcome([Fail(s) EXCEPT !.disk = d], "err")
    <3>1. ~s.can_close
      BY <1>2, <2>3 DEF Intact
    <3>2. PICK d \in Torn(s.disk, s.buf) :
                   x = Outcome([Fail(s) EXCEPT !.disk = d], "err")
      BY <2>3
    <3>3. d \in Seq(Packets)
      BY <2>1, TornType
    <3> QED
      BY <1>2, <3>1, <3>2, <3>3, FailOutcome DEF Outcome
  <2> QED
    BY <1>2, <2>2, <2>3 DEF Flush
<1> QED
  BY <1>1, <1>2

\* complete_if_ready.
LEMMA CompleteOutcome ==
    ASSUME NEW s \in HandleType, Intact(s), NEW x \in CompleteIfReady(s)
    PROVE  Faithful(s, x) /\ (~x.h.failed => x.h.written = s.written)
<1>0. s.length \in Nat \cup {NoLength} /\ s.written \in Nat
  BY DEF HandleType
<1>1. CASE s.failed \/ s.can_close
  BY <1>1 DEF CompleteIfReady, Outcome, Faithful
<1>2. CASE /\ ~s.failed /\ ~s.can_close
           /\ s.length = NoLength \/ s.written < s.length
  BY <1>2 DEF CompleteIfReady, Outcome, Faithful
<1>3. CASE /\ ~s.failed /\ ~s.can_close /\ s.length # NoLength
           /\ s.written > s.length
  <2>1. s.disk \in Seq(Packets)
    BY DEF HandleType
  <2>2. x = Outcome(Fail(s), "err")
    BY <1>0, <1>3 DEF CompleteIfReady
  <2> QED
    BY <1>3, <2>1, <2>2, FailOutcome DEF Outcome
<1>4. CASE /\ ~s.failed /\ ~s.can_close /\ s.length # NoLength
           /\ s.written = s.length
  <2>1. x \in Then(Flush(s), Close)
    BY <1>0, <1>4 DEF CompleteIfReady
  <2>2. PICK y \in Flush(s) : x \in IF y.res = "err" THEN {y} ELSE Close(y.h)
    BY <2>1 DEF Then
  <2>3. CASE y.res = "err"
    BY <2>2, <2>3, FlushOutcome
  <2>4. CASE y.res # "err"
    <3>1. /\ y.h = [s EXCEPT !.disk = s.disk \o s.buf, !.buf = <<>>]
          /\ y.h \in HandleType /\ Intact(y.h)
      BY <2>4, FlushOutcome
    <3>2. x = Outcome([y.h EXCEPT !.can_close = TRUE], "ready")
      BY <2>2, <2>4 DEF Close
    <3>3. /\ y.h.buf = <<>> /\ y.h.written = s.written
          /\ y.h.length = s.length /\ ~y.h.failed
      BY <1>4, <3>1 DEF HandleType
    <3> QED
      BY <1>4, <3>1, <3>2, <3>3 DEF Outcome, Faithful, HandleType, Intact
  <2> QED
    BY <2>3, <2>4
<1> QED
  BY <1>0, <1>1, <1>2, <1>3, <1>4, FileBodyAssumption

\* Its errors are kept.
LEMMA CompleteErr ==
    ASSUME NEW s \in HandleType, Intact(s), NEW x \in CompleteIfReady(s)
    PROVE  x.res = "err" => x.h.failed
<1> SUFFICES ASSUME x.res = "err", ~x.h.failed PROVE FALSE
  OBVIOUS
<1>1. x.h.can_close /\ x.h = s
  BY CompleteOutcome DEF Faithful
<1>2. x = Outcome(s, "ready")
  BY <1>1 DEF CompleteIfReady
<1> QED
  BY <1>2 DEF Outcome

\* write_on_disk of the next packet: the file grows by it, or fails, or is left
\* as it was because it is completed or failed already.
LEMMA WriteOutcome ==
    ASSUME NEW s \in HandleType, Intact(s), NEW p \in Packets,
           ~s.failed /\ ~s.can_close => p = s.written + 1,
           NEW x \in WriteOnDisk(s, p)
    PROVE  /\ Faithful(s, x)
           /\ ~x.h.failed /\ ~x.h.can_close => x.h.written = s.written + 1
<1>1. CASE s.failed \/ s.can_close
  <2>1. x = Outcome(s, "err")
    BY <1>1 DEF WriteOnDisk
  <2> QED
    BY <1>1, <2>1 DEF Outcome, Faithful
<1>2. CASE ~s.failed /\ ~s.can_close
  <2> DEFINE b == Append(s.buf, p)
             in_buf == [s EXCEPT !.buf = b, !.written = s.written + 1]
             on_disk == [s EXCEPT !.disk = s.disk \o b, !.buf = <<>>,
                                  !.written = s.written + 1]
  <2>1. /\ s.disk \in Seq(Packets) /\ s.buf \in Seq(Packets)
        /\ s.written \in Nat
    BY DEF HandleType
  <2>2. /\ b \in Seq(Packets) /\ RunFrom(b, Len(s.disk))
        /\ s.written + 1 = Len(s.disk) + Len(b)
    <3>1. /\ RunFrom(s.buf, Len(s.disk)) /\ p = s.written + 1
          /\ s.written = Len(s.disk) + Len(s.buf)
      BY <1>2 DEF Intact
    <3> DEFINE w == s.written
               d == s.disk
               a == s.buf
    <3>2. /\ d \in Seq(Packets) /\ a \in Seq(Packets)
          /\ RunFrom(a, Len(d)) /\ p = w + 1 /\ w = Len(d) + Len(a)
      BY <2>1, <3>1
    <3> HIDE DEF w, d, a
    <3>3. /\ Append(a, p) \in Seq(Packets) /\ RunFrom(Append(a, p), Len(d))
          /\ w + 1 = Len(d) + Len(Append(a, p))
      BY <3>2, RunGrow
    <3> QED
      BY <3>3 DEF w, d, a
  <2>3. /\ s.disk \o b \in Seq(Packets) /\ RunFrom(s.disk \o b, 0)
        /\ <<>> \in Seq(Packets) /\ RunFrom(<<>>, Len(s.disk \o b))
        /\ Len(s.disk) + Len(b) = Len(s.disk \o b) + Len(<<>>)
    BY <1>2, <2>1, <2>2, RunFlush, Zenon DEF Intact
  <2>4. /\ in_buf.disk = s.disk /\ in_buf.buf = b
        /\ in_buf.written = s.written + 1 /\ ~in_buf.can_close
        /\ ~in_buf.failed /\ in_buf.length = s.length /\ in_buf \in HandleType
    <3>1. s.written + 1 \in Nat
      BY <2>1
    <3> HIDE DEF b
    <3> QED
      BY <1>2, <2>2, <3>1 DEF HandleType
  <2>5. /\ on_disk.disk = s.disk \o b /\ on_disk.buf = <<>>
        /\ on_disk.written = s.written + 1 /\ ~on_disk.can_close
        /\ ~on_disk.failed /\ on_disk.length = s.length
        /\ on_disk \in HandleType
    <3>1. s.written + 1 \in Nat
      BY <2>1
    <3> HIDE DEF b
    <3> QED
      BY <1>2, <2>3, <3>1 DEF HandleType
  <2>6. \/ x = Outcome(Fail(s), "err")
        \/ x \in CompleteIfReady(in_buf) \/ x \in CompleteIfReady(on_disk)
        \/ \E d \in Torn(s.disk, b) : x = Outcome([Fail(s) EXCEPT !.disk = d], "err")
    BY <1>2 DEF WriteOnDisk
  <2> HIDE DEF b, in_buf, on_disk
  <2>7. CASE x = Outcome(Fail(s), "err")
    BY <1>2, <2>1, <2>7, FailOutcome DEF Outcome
  <2>8. ASSUME NEW y \in {in_buf, on_disk}, x \in CompleteIfReady(y)
        PROVE  /\ Faithful(s, x)
               /\ ~x.h.failed /\ ~x.h.can_close => x.h.written = s.written + 1
    <3>1. Intact(in_buf)
      BY <1>2, <2>2, <2>4, Zenon DEF Intact
    <3>2. Intact(on_disk)
      BY <1>2, <2>2, <2>3, <2>5, Zenon DEF Intact
    <3>3. /\ y \in HandleType /\ Intact(y) /\ ~y.can_close /\ ~y.failed
          /\ y.length = s.length /\ y.written = s.written + 1
      BY <2>4, <2>5, <3>1, <3>2
    <3>4. Faithful(y, x) /\ (~x.h.failed => x.h.written = y.written)
      BY <2>8, <3>3, CompleteOutcome
    <3> QED
      BY <1>2, <3>3, <3>4 DEF Faithful
  <2>9. ASSUME NEW d \in Torn(s.disk, b),
               x = Outcome([Fail(s) EXCEPT !.disk = d], "err")
        PROVE  /\ Faithful(s, x)
               /\ ~x.h.failed /\ ~x.h.can_close => x.h.written = s.written + 1
    <3>1. d \in Seq(Packets)
      BY <2>1, <2>2, TornType
    <3> QED
      BY <1>2, <2>9, <3>1, FailOutcome DEF Outcome
  <2> QED
    BY <2>6, <2>7, <2>8, <2>9
<1> QED
  BY <1>1, <1>2

\* transfert_bytes_from_temp_file, of a prefix into an untouched file: the file
\* holds the prefix, or it failed.
LEMMA TransferOutcome ==
    ASSUME NEW s \in HandleType, s.disk = <<>>, s.buf = <<>>, s.written = 0,
           ~s.can_close, ~s.failed,
           NEW bytes \in Seq(Packets), RunFrom(bytes, 0),
           NEW x \in Transfer(s, bytes)
    PROVE  /\ Faithful(s, x)
           /\ ~x.h.failed => x.h.written = Len(bytes)
<1>1. Intact(s)
  BY RunEmpty DEF Intact
<1>2. x \in UNION {IF y.res = "err" THEN {y} ELSE Rewrite(y.h, bytes) :
                      y \in Flush(s)}
  BY DEF Transfer, Then
<1>3. PICK y \in Flush(s) :
            x \in IF y.res = "err" THEN {y} ELSE Rewrite(y.h, bytes)
  BY <1>2
<1>4. CASE y.res = "err"
  BY <1>1, <1>3, <1>4, FlushOutcome
<1>5. CASE y.res # "err"
  <2>1. y.h = [s EXCEPT !.disk = s.disk \o s.buf, !.buf = <<>>]
    BY <1>1, <1>5, FlushOutcome
  <2>2. s.disk \o s.buf = s.disk
    BY ConcatEmptySeq, EmptySeq
  <2>3. y.h = s
    BY <2>1, <2>2 DEF HandleType
  <2>4. x \in Rewrite(s, bytes)
    BY <1>3, <1>5, <2>3
  <2>5. bytes \o s.disk = bytes
    BY ConcatEmptySeq
  <2> DEFINE new == [s EXCEPT !.disk = bytes, !.written = Len(bytes)]
  <2>6. \/ x = Outcome(Fail(s), "err")
        \/ x \in CompleteIfReady(new)
        \/ \E d \in {s.disk} \cup Torn(<<>>, bytes) :
              x = Outcome([Fail(s) EXCEPT !.disk = d], "err")
    BY <2>4, <2>5 DEF Rewrite
  <2>7. CASE x = Outcome(Fail(s), "err")
    BY <2>7, EmptySeq, FailOutcome DEF Outcome
  <2>8. CASE x \in CompleteIfReady(new)
    <3>1. /\ new.disk = bytes /\ new.buf = <<>> /\ new.written = Len(bytes)
          /\ ~new.can_close /\ ~new.failed /\ new.length = s.length
          /\ new \in HandleType
      BY LenProperties DEF HandleType
    <3> HIDE DEF new
    <3>2. Len(bytes) = Len(bytes) + Len(<<>>) /\ RunFrom(<<>>, Len(bytes))
      BY RunEmpty, LenProperties
    <3>3. Intact(new)
      BY <3>1, <3>2, Zenon DEF Intact
    <3>4. Faithful(new, x) /\ (~x.h.failed => x.h.written = new.written)
      BY <2>8, <3>1, <3>3, CompleteOutcome
    <3> QED
      BY <3>1, <3>4 DEF Faithful
  <2>9. ASSUME NEW d \in {s.disk} \cup Torn(<<>>, bytes),
               x = Outcome([Fail(s) EXCEPT !.disk = d], "err")
        PROVE  Faithful(s, x) /\ (~x.h.failed => x.h.written = Len(bytes))
    <3>1. d \in Seq(Packets)
      BY EmptySeq, TornType
    <3> QED
      BY <2>9, <3>1, FailOutcome DEF Outcome
  <2> QED
    BY <2>6, <2>7, <2>8, <2>9
<1> QED
  BY <1>4, <1>5

-------------------------------------------------------------------------------
(***************************************************************************)
(* What a step does to the callbacks and to the pending map.               *)
(***************************************************************************)

\* Only a callback that is being registered, or replaced by one, differs in k
\* from what it was.
Registers(k) ==
    /\ k \in [Handlers -> CallbackStates]
    /\ \A c \in Handlers : \/ k[c] = cb[c]
                           \/ stage = "done" /\ cb[c] = "none" /\ k[c] = "held"
                           \/ cb[c] = "held" /\ k[c] = "replaced"

\* A thread that concludes an operation with a faithful outcome takes each
\* callback for itself alone, drops callbacks only of a failed file, and keeps
\* in mind to settle a terminal one.
LEMMA ConcludeKeeps ==
    ASSUME TypeOK, CallbackPart, PendingPart,
           NEW t \in Threads, Free(t), NEW x, NEW k, Registers(k),
           x.h \in HandleType, x.res \in {"ready", "waiting", "err"},
           x.res = "ready" => x.h.can_close /\ ~x.h.failed,
           x.res = "waiting" => ~x.h.can_close /\ ~x.h.failed,
           x.res = "err" => x.h.failed \/ (h.can_close /\ k = cb),
           h.failed => x.h.failed,
           ~h.failed /\ h.can_close => x.h.can_close /\ ~x.h.failed,
           Conclude(t, x, k), UNCHANGED <<ran, pending>>,
           stage' # "mismatch", stage = "done" => stage' = "done"
    PROVE  /\ cb' \in [Handlers -> CallbackStates]
           /\ settling' \in [Threads -> Settlements]
           /\ h' \in HandleType
           /\ CallbackPart' /\ PendingPart'
<1> DEFINE post == CompletionCallback(k, x.res)
<1>1. /\ h' = x.h
      /\ settling' = [settling EXCEPT ![t] =
                         [terminal |-> x.res # "waiting", post |-> post]]
      /\ \A c \in Handlers : cb'[c] =
            IF c \in post THEN "due"
            ELSE IF k[c] = "held" /\ x.res = "err" THEN "dropped" ELSE k[c]
  BY DEF Conclude
<1>2. post = IF x.res = "ready" THEN {c \in Handlers : k[c] = "held"} ELSE {}
  BY DEF CompletionCallback
<1>3. /\ cb \in [Handlers -> CallbackStates] /\ ran \in [Handlers -> Nat]
      /\ settling \in [Threads -> Settlements] /\ h \in HandleType
  BY DEF TypeOK
<1>4. settling[t] = [terminal |-> FALSE, post |-> {}]
  BY DEF Free, Settled
<1>5. cb' \in [Handlers -> CallbackStates]
  BY <1>2 DEF Conclude, Registers, CallbackStates
<1>6. settling' \in [Threads -> Settlements]
  <2>1. [terminal |-> x.res # "waiting", post |-> post] \in Settlements
    BY <1>2 DEF Settlements
  <2> QED
    BY <1>1, <1>3, <2>1
<1> HIDE DEF post
<1>7. /\ settling'[t].post = post
      /\ settling'[t].terminal = (x.res # "waiting")
      /\ \A u \in Threads \ {t} : settling'[u] = settling[u]
  BY <1>1, <1>3
<1>8. ASSUME NEW c \in Handlers
      PROVE  /\ cb'[c] # "none" => stage' = "done"
             /\ cb'[c] = "held" => ~h'.can_close /\ ~h'.failed
             /\ cb'[c] \in {"due", "queued", "ran"} => h'.can_close /\ ~h'.failed
             /\ cb'[c] = "dropped" => h'.failed
             /\ ran'[c] = IF cb'[c] = "ran" THEN 1 ELSE 0
             /\ \A u \in Threads : c \in settling'[u].post => cb'[c] = "due"
             /\ \A u, v \in Threads :
                   c \in settling'[u].post /\ c \in settling'[v].post => u = v
  <2>1. /\ cb[c] # "none" => stage = "done"
        /\ cb[c] = "held" => ~h.can_close /\ ~h.failed
        /\ cb[c] \in {"due", "queued", "ran"} => h.can_close /\ ~h.failed
        /\ cb[c] = "dropped" => h.failed
        /\ ran[c] = IF cb[c] = "ran" THEN 1 ELSE 0
        /\ \A u \in Threads : c \in settling[u].post => cb[c] = "due"
        /\ \A u, v \in Threads :
              c \in settling[u].post /\ c \in settling[v].post => u = v
    BY DEF CallbackPart
  <2>2. \/ k[c] = cb[c]
        \/ stage = "done" /\ cb[c] = "none" /\ k[c] = "held"
        \/ cb[c] = "held" /\ k[c] = "replaced"
    BY DEF Registers
  <2>3. cb'[c] = IF c \in post THEN "due"
                 ELSE IF k[c] = "held" /\ x.res = "err" THEN "dropped" ELSE k[c]
    BY <1>1
  <2>4. c \in post <=> x.res = "ready" /\ k[c] = "held"
    BY <1>2
  <2>5. cb'[c] # "none" => stage' = "done"
    BY <2>1, <2>2, <2>3, <2>4
  <2>6. cb'[c] = "held" => ~h'.can_close /\ ~h'.failed
    BY <1>1, <2>1, <2>2, <2>3, <2>4
  <2>7. cb'[c] \in {"due", "queued", "ran"} => h'.can_close /\ ~h'.failed
    BY <1>1, <2>1, <2>2, <2>3, <2>4
  <2>8. cb'[c] = "dropped" => h'.failed
    BY <1>1, <2>1, <2>2, <2>3, <2>4
  <2>9. ran'[c] = IF cb'[c] = "ran" THEN 1 ELSE 0
    BY <2>1, <2>2, <2>3, <2>4
  <2>10. \A u \in Threads : c \in settling'[u].post => cb'[c] = "due"
    BY <1>7, <2>1, <2>2, <2>3, <2>4
  <2>11. \A u, v \in Threads :
            c \in settling'[u].post /\ c \in settling'[v].post => u = v
    <3>1. c \in post => \A u \in Threads : c \notin settling[u].post
      BY <2>1, <2>2, <2>4
    <3> QED
      BY <1>7, <2>1, <3>1
  <2> QED
    BY <2>5, <2>6, <2>7, <2>8, <2>9, <2>10, <2>11
<1>9. CallbackPart'
  BY <1>8 DEF CallbackPart
<1>10. PendingPart'
  <2> SUFFICES ASSUME h'.can_close \/ h'.failed, pending
               PROVE  \E u \in Threads : settling'[u].terminal
    BY DEF PendingPart
  <2>1. CASE x.res # "waiting"
    BY <1>7, <2>1
  <2>2. CASE x.res = "waiting"
    BY <1>1, <2>2
  <2> QED
    BY <2>1, <2>2
<1> QED
  BY <1>1, <1>5, <1>6, <1>9, <1>10

\* flush, then complete_if_ready.
LEMMA FlushFileOutcome ==
    ASSUME NEW s \in HandleType, Intact(s),
           NEW x \in Then(Flush(s), CompleteIfReady)
    PROVE  Faithful(s, x) /\ (~x.h.failed => x.h.written = s.written)
<1>1. PICK y \in Flush(s) :
            x \in IF y.res = "err" THEN {y} ELSE CompleteIfReady(y.h)
  BY DEF Then
<1>2. CASE y.res = "err"
  BY <1>1, <1>2, FlushOutcome
<1>3. CASE y.res # "err"
  <2>1. /\ ~s.failed /\ y.h \in HandleType /\ Intact(y.h)
        /\ y.h = [s EXCEPT !.disk = s.disk \o s.buf, !.buf = <<>>]
        /\ s.can_close => y.h = s
    BY <1>3, FlushOutcome
  <2>2. /\ y.h.length = s.length /\ y.h.written = s.written
    BY <2>1 DEF HandleType
  <2>3. /\ Faithful(y.h, x)
        /\ ~x.h.failed => x.h.written = y.h.written
    BY <1>1, <1>3, <2>1, CompleteOutcome
  <2>4. y.h.can_close = s.can_close
    BY <2>1 DEF HandleType
  <2> DEFINE z == y.h
  <2>5. /\ Faithful(z, x) /\ z.length = s.length /\ z.can_close = s.can_close
        /\ s.can_close => z = s
    BY <2>1, <2>2, <2>3, <2>4
  <2> HIDE DEF z
  <2>6. Faithful(s, x)
    BY <2>1, <2>5 DEF Faithful
  <2> QED
    BY <2>2, <2>3, <2>6
<1> QED
  BY <1>2, <1>3

-------------------------------------------------------------------------------
(***************************************************************************)
(* The inductive invariant.                                                *)
(***************************************************************************)

\* It holds initially.
LEMMA InitInv == Init => IInv
<1> SUFFICES ASSUME Init PROVE IInv
  OBVIOUS
<1> USE FileBodyAssumption
<1>1. PICK n \in Declared :
         h = [disk |-> <<>>, buf |-> <<>>, written |-> 0, length |-> n,
              can_close |-> FALSE, failed |-> FALSE]
  BY DEF Init
<1>2. h \in HandleType /\ Untouched
  BY <1>1, EmptySeq DEF HandleType, Untouched
<1>3. TypeOK
  <2>1. settling \in [Threads -> Settlements]
    BY DEF Init, Settled, Settlements
  <2>2. cb \in [Handlers -> CallbackStates] /\ ran \in [Handlers -> Nat]
    BY DEF Init, CallbackStates
  <2>3. received \in 0..MaxPackets /\ size \in Nat /\ stage \in Stages
    BY DEF Init, Stages
  <2>4. mem \in Seq(Packets) /\ queue \in Seq(Packets) /\ pending \in BOOLEAN
    BY EmptySeq, Zenon DEF Init
  <2> QED
    BY <1>2, <2>1, <2>2, <2>3, <2>4 DEF TypeOK
<1>4. Intact(h)
  BY <1>2, RunEmpty DEF Intact, Untouched
<1>5. OwnerPart
  BY <1>2, RunEmpty DEF Init, OwnerPart
<1>6. QueuePart
  BY <1>2, RunEmpty DEF Init, QueuePart, Untouched
<1>7. CallbackPart
  BY DEF Init, CallbackPart, Settled
<1>8. PendingPart
  BY DEF Init, PendingPart
<1> QED
  BY <1>3, <1>4, <1>5, <1>6, <1>7, <1>8 DEF IInv

\* A step that leaves the handle, the callbacks and the map as they are.
LEMMA QuietKeeps ==
    ASSUME CallbackPart, PendingPart, UNCHANGED <<h, cb, ran, pending, settling>>,
           stage # "done", stage \notin {"mismatch"}
    PROVE  CallbackPart' /\ PendingPart'
<1>1. \A c \in Handlers : cb[c] = "none"
  BY DEF CallbackPart
<1>2. CallbackPart'
  BY <1>1 DEF CallbackPart
<1> QED
  BY <1>2 DEF PendingPart

\* The steps of the owner that do not touch the handle.
LEMMA ReceiveStep ==
    ASSUME IInv, BufferPacket \/ ReceivePacket \/ AppendPacket \/ FinishBody
                 \/ DiscardBody \/ OpenFile
    PROVE  IInv'
<1> USE FileBodyAssumption DEF IInv
<1>1. CASE BufferPacket
  <2> USE <1>1 DEF BufferPacket
  <2>1. /\ stage = "buffering" /\ Untouched /\ queue = <<>>
        /\ Len(mem) = received /\ size = received /\ RunFrom(mem, 0)
    BY DEF OwnerPart
  <2>2. /\ mem \in Seq(Packets) /\ received \in Nat /\ received + 1 \in Packets
    BY DEF TypeOK, Packets
  <2>3. /\ mem' \in Seq(Packets) /\ Len(mem') = Len(mem) + 1 /\ RunFrom(mem', 0)
    <3>1. received + 1 = 0 + Len(mem) + 1
      BY <2>1, <2>2
    <3> QED
      BY <2>1, <2>2, <3>1, RunAppend
  <2>4. TypeOK'
    BY <2>1, <2>2, <2>3 DEF TypeOK, Packets
  <2>5. OwnerPart'
    BY <2>1, <2>2, <2>3 DEF OwnerPart, Untouched
  <2>6. QueuePart' /\ Intact(h')
    <3>1. Len(mem') # 0
      BY <2>1, <2>2, <2>3
    <3>2. mem' # <<>>
      BY <3>1, RunEmpty
    <3> QED
      BY <3>2 DEF QueuePart
  <2> QED
    BY <2>1, <2>4, <2>5, <2>6, QuietKeeps
<1>2. CASE OpenFile
  <2> USE <1>2 DEF OpenFile, ownerVars
  <2>1. stage = "buffering" /\ Untouched
    BY DEF OwnerPart
  <2>2. TypeOK'
    BY DEF TypeOK, Stages
  <2>3. OwnerPart'
    BY DEF OwnerPart, Untouched
  <2>4. QueuePart' /\ Intact(h')
    BY DEF QueuePart
  <2>5. CallbackPart'
    BY DEF CallbackPart
  <2>6. PendingPart'
    BY <2>1 DEF PendingPart, Untouched
  <2> QED
    BY <2>2, <2>3, <2>4, <2>5, <2>6
<1>3. CASE ReceivePacket
  <2> USE <1>3 DEF ReceivePacket
  <2>1. TypeOK' /\ received \in Nat
    BY DEF TypeOK, Stages
  <2>2. OwnerPart'
    BY <2>1 DEF OwnerPart, Untouched
  <2>3. QueuePart' /\ Intact(h')
    BY DEF QueuePart
  <2> QED
    BY <2>1, <2>2, <2>3, QuietKeeps
<1>4. CASE AppendPacket
  <2> USE <1>4 DEF AppendPacket
  <2>1. /\ size = received - 1 /\ received > 0 /\ RunFrom(mem, 0)
    BY DEF OwnerPart
  <2>2. /\ queue \in Seq(Packets) /\ received \in Packets /\ size \in Nat
        /\ received \in Nat /\ h.written \in Nat
    BY <2>1 DEF TypeOK, Packets, HandleType
  <2>3. queue' \in Seq(Packets)
    BY <2>2
  <2>4. TypeOK'
    BY <2>2, <2>3 DEF TypeOK, Stages
  <2>5. OwnerPart'
    BY <2>1, <2>2 DEF OwnerPart
  <2>6. QueuePart'
    <3> SUFFICES ASSUME ~h.failed, ~h.can_close
                 PROVE  /\ RunFrom(queue', h.written)
                        /\ h.written + Len(queue') = size'
      BY DEF QueuePart
    <3> DEFINE w == h.written
    <3>1. /\ RunFrom(queue, w) /\ w + Len(queue) = size /\ w \in Nat
      BY <2>2 DEF QueuePart
    <3> HIDE DEF w
    <3>2. Len(queue) \in Nat /\ received = w + Len(queue) + 1
      BY <2>1, <2>2, <3>1
    <3>3. RunFrom(queue', w) /\ Len(queue') = Len(queue) + 1
      BY <2>2, <3>1, <3>2, RunAppend
    <3>4. w + Len(queue') = size'
      BY <2>2, <3>1, <3>2, <3>3
    <3> QED
      BY <3>3, <3>4 DEF w
  <2> QED
    BY <2>4, <2>5, <2>6, QuietKeeps
<1>5. CASE FinishBody \/ DiscardBody
  <2> USE <1>5 DEF FinishBody, DiscardBody, ownerVars
  <2>1. TypeOK'
    BY DEF TypeOK, Stages
  <2>2. OwnerPart'
    BY DEF OwnerPart, Untouched
  <2>3. QueuePart' /\ Intact(h')
    BY DEF QueuePart
  <2> QED
    BY <2>1, <2>2, <2>3, QuietKeeps
<1> QED
  BY <1>1, <1>2, <1>3, <1>4, <1>5

\* The steps of the owner under the handle's lock.
LEMMA OwnerStep ==
    ASSUME IInv, FlushPrefix \/ FinishReceived \/ DropCallback \/ SetFileLength
    PROVE  IInv'
<1> USE FileBodyAssumption DEF IInv
<1>0. "owner" \in Threads /\ Registers(cb) /\ h \in HandleType
  BY DEF Threads, Registers, TypeOK
<1>1. CASE FlushPrefix
  <2> USE <1>1 DEF FlushPrefix
  <2>1. /\ Untouched /\ queue = <<>> /\ Len(mem) = size /\ RunFrom(mem, 0)
        /\ mem \in Seq(Packets)
    BY DEF OwnerPart, TypeOK
  <2>2. PICK x \in Transfer(h, mem) : Conclude("owner", x, cb)
    OBVIOUS
  <2>3. Faithful(h, x) /\ (~x.h.failed => x.h.written = Len(mem))
    BY <1>0, <2>1, TransferOutcome DEF Untouched
  <2>4. /\ cb' \in [Handlers -> CallbackStates] /\ h' \in HandleType
        /\ settling' \in [Threads -> Settlements]
        /\ CallbackPart' /\ PendingPart'
    BY <1>0, <2>2, <2>3, ConcludeKeeps DEF Faithful
  <2>5. h' = x.h
    BY <2>2 DEF Conclude
  <2>6. TypeOK'
    BY <2>4, EmptySeq DEF TypeOK
  <2>7. OwnerPart'
    BY <2>1, RunEmpty DEF OwnerPart
  <2>8. QueuePart'
    <3>1. size \in Nat /\ queue' = <<>> /\ mem' = <<>> /\ size' = size
      BY <2>1 DEF TypeOK
    <3>2. ~h'.failed => h'.written = size
      BY <2>1, <2>3, <2>5
    <3>3. RunFrom(<<>>, size) /\ size + Len(<<>>) = size
      BY <3>1, RunEmpty
    <3> QED
      BY <3>1, <3>2, <3>3, Zenon DEF QueuePart
  <2> QED
    BY <2>3, <2>4, <2>5, <2>6, <2>7, <2>8 DEF Faithful
<1>2. CASE FinishReceived
  <2> USE <1>2 DEF FinishReceived, ownerVars
  <2>1. \A c \in Handlers : cb[c] = "none"
    BY DEF CallbackPart
  <2>2. CallbackPart'
    BY <2>1 DEF CallbackPart
  <2>3. CASE LengthMismatch
    <3>1. h' = Fail(h) /\ stage' = "mismatch"
      BY <2>3
    <3>2. h' \in HandleType /\ h'.failed
      BY <1>0, <3>1 DEF Fail, HandleType
    <3>3. TypeOK'
      BY <3>1, <3>2 DEF TypeOK, Stages
    <3>4. OwnerPart'
      BY <3>1, <3>2, RunEmpty DEF OwnerPart, Free
    <3>5. QueuePart' /\ Intact(h') /\ PendingPart'
      BY <3>1, <3>2 DEF QueuePart, Intact, PendingPart
    <3> QED
      BY <2>2, <3>3, <3>4, <3>5
  <2>4. CASE ~LengthMismatch
    <3>1. h' = h /\ stage' = "length"
      BY <2>4
    <3>2. TypeOK'
      BY <3>1 DEF TypeOK, Stages
    <3>3. OwnerPart'
      BY <2>4, <3>1, RunEmpty DEF OwnerPart, Free, LengthMismatch
    <3>4. QueuePart' /\ Intact(h') /\ PendingPart'
      BY <3>1 DEF QueuePart, PendingPart
    <3> QED
      BY <2>2, <3>2, <3>3, <3>4
  <2> QED
    BY <2>3, <2>4
<1>3. CASE DropCallback
  <2> USE <1>3 DEF DropCallback, ownerVars
  <2> DEFINE x == Outcome(h, "err")
  <2>1. h.failed /\ Free("owner") /\ mem = <<>>
    BY DEF OwnerPart
  <2>2. x.h = h /\ x.res = "err" /\ Conclude("owner", x, cb)
    BY DEF Outcome
  <2> HIDE DEF x
  <2>3. /\ cb' \in [Handlers -> CallbackStates] /\ h' \in HandleType
        /\ settling' \in [Threads -> Settlements]
        /\ CallbackPart' /\ PendingPart'
    BY <1>0, <2>1, <2>2, ConcludeKeeps
  <2>4. h' = h
    BY <2>2 DEF Conclude
  <2>5. TypeOK'
    BY <2>3 DEF TypeOK, Stages
  <2>6. OwnerPart' /\ QueuePart' /\ Intact(h')
    BY <2>1, <2>4 DEF OwnerPart, QueuePart, Intact
  <2> QED
    BY <2>3, <2>5, <2>6
<1>4. CASE SetFileLength
  <2> USE <1>4 DEF SetFileLength, ownerVars
  <2> DEFINE s == SetLength(h, size)
  <2>1. mem = <<>> /\ Free("owner") /\ (h.length = NoLength \/ h.length = size)
    BY DEF OwnerPart, LengthMismatch
  <2>2. size \in Nat
    BY DEF TypeOK
  <2>3. /\ s \in HandleType /\ s.length = size /\ s.disk = h.disk
        /\ s.buf = h.buf /\ s.written = h.written /\ s.failed = h.failed
        /\ s.can_close = h.can_close
    BY <1>0, <2>1, <2>2 DEF SetLength, HandleType
  <2>4. ~h.failed /\ h.can_close => h.length = size
    BY <1>0, <2>1 DEF Intact, HandleType
  <2>5. Intact(s)
    BY <2>3, <2>4 DEF Intact
  <2>6. PICK x \in CompleteIfReady(s) : Conclude("owner", x, cb)
    OBVIOUS
  <2> HIDE DEF s
  <2>7. Faithful(s, x) /\ (~x.h.failed => x.h.written = s.written)
    BY <2>3, <2>5, CompleteOutcome
  <2>8. ASSUME x.res = "err" PROVE x.h.failed \/ h.can_close
    BY <2>3, <2>7, <2>8 DEF Faithful
  <2>9. /\ cb' \in [Handlers -> CallbackStates] /\ h' \in HandleType
        /\ settling' \in [Threads -> Settlements]
        /\ CallbackPart' /\ PendingPart'
    BY <1>0, <2>1, <2>3, <2>6, <2>7, <2>8, ConcludeKeeps DEF Faithful
  <2>10. h' = x.h /\ h'.length = size
    BY <2>3, <2>6, <2>7 DEF Conclude, Faithful
  <2>11. TypeOK'
    BY <2>9 DEF TypeOK, Stages
  <2>12. OwnerPart'
    BY <2>1, <2>10 DEF OwnerPart
  <2>13. QueuePart'
    BY <2>3, <2>7, <2>10 DEF QueuePart, Faithful
  <2> QED
    BY <2>7, <2>9, <2>10, <2>11, <2>12, <2>13 DEF Faithful
<1> QED
  BY <1>1, <1>2, <1>3, <1>4

\* A thread settles: it alone has the callbacks it posts.
LEMMA SettleStep ==
    ASSUME IInv, NEW t \in Threads, Settle(t)
    PROVE  IInv'
<1> USE DEF IInv
<1> DEFINE post == settling[t].post
<1>1. PICK sent \in BOOLEAN :
         /\ cb' = [c \in Handlers |-> IF c \notin post THEN cb[c]
                                      ELSE IF sent THEN "queued" ELSE "ran"]
         /\ ran' = [c \in Handlers |-> IF c \in post /\ ~sent THEN ran[c] + 1
                                                             ELSE ran[c]]
  BY DEF Settle
<1>2. /\ UNCHANGED <<stage, received, mem, size, queue, h>>
      /\ settling' = [settling EXCEPT ![t] = Settled]
      /\ pending' = (pending /\ ~settling[t].terminal)
  BY DEF Settle, LeavesPending, ownerVars
<1>3. /\ cb \in [Handlers -> CallbackStates] /\ ran \in [Handlers -> Nat]
      /\ settling \in [Threads -> Settlements] /\ pending \in BOOLEAN
  BY DEF TypeOK
<1>4. TypeOK'
  <2>1. cb' \in [Handlers -> CallbackStates]
    BY <1>1, <1>3 DEF CallbackStates
  <2>2. ran' \in [Handlers -> Nat]
    BY <1>1, <1>3
  <2>3. settling' \in [Threads -> Settlements]
    BY <1>2, <1>3 DEF Settled, Settlements
  <2>4. pending' \in BOOLEAN
    BY <1>2
  <2> QED
    BY <1>2, <2>1, <2>2, <2>3, <2>4 DEF TypeOK
<1>5. /\ settling'[t].post = {}
      /\ \A u \in Threads \ {t} : settling'[u] = settling[u]
  BY <1>2, <1>3 DEF Settled
<1> HIDE DEF post
<1>6. CallbackPart'
  <2> SUFFICES ASSUME NEW c \in Handlers
               PROVE  /\ cb'[c] # "none" => stage' = "done"
                      /\ cb'[c] = "held" => ~h'.can_close /\ ~h'.failed
                      /\ cb'[c] \in {"due", "queued", "ran"} =>
                            h'.can_close /\ ~h'.failed
                      /\ cb'[c] = "dropped" => h'.failed
                      /\ ran'[c] = IF cb'[c] = "ran" THEN 1 ELSE 0
                      /\ \A u \in Threads :
                            c \in settling'[u].post => cb'[c] = "due"
                      /\ \A u, v \in Threads :
                            c \in settling'[u].post /\ c \in settling'[v].post
                               => u = v
    BY DEF CallbackPart
  <2>1. /\ cb'[c] = IF c \notin post THEN cb[c]
                    ELSE IF sent THEN "queued" ELSE "ran"
        /\ ran'[c] = IF c \in post /\ ~sent THEN ran[c] + 1 ELSE ran[c]
    BY <1>1
  <2>2. /\ cb[c] # "none" => stage = "done"
        /\ cb[c] = "held" => ~h.can_close /\ ~h.failed
        /\ cb[c] \in {"due", "queued", "ran"} => h.can_close /\ ~h.failed
        /\ cb[c] = "dropped" => h.failed
        /\ ran[c] = IF cb[c] = "ran" THEN 1 ELSE 0
        /\ \A u \in Threads : c \in settling[u].post => cb[c] = "due"
        /\ \A u, v \in Threads :
              c \in settling[u].post /\ c \in settling[v].post => u = v
    BY DEF CallbackPart
  <2>3. c \in post => cb[c] = "due"
    BY <2>2 DEF post
  <2>4. \A u \in Threads : c \in settling'[u].post =>
            c \in settling[u].post /\ c \notin post
    BY <1>5, <2>2 DEF post
  <2> QED
    BY <1>2, <2>1, <2>2, <2>3, <2>4
<1>7. PendingPart'
  <2> SUFFICES ASSUME h.can_close \/ h.failed, stage # "mismatch", pending'
               PROVE  \E u \in Threads : settling'[u].terminal
    BY <1>2 DEF PendingPart
  <2>1. pending /\ ~settling[t].terminal
    BY <1>2
  <2>2. PICK u \in Threads : settling[u].terminal
    BY <2>1 DEF PendingPart
  <2> QED
    BY <1>5, <2>1, <2>2
<1>8. OwnerPart'
  <2>1. Free("owner") => Free("owner")'
    BY <1>2, <1>3 DEF Free, Threads
  <2> QED
    BY <1>2, <2>1 DEF OwnerPart, Untouched, LengthMismatch
<1>9. QueuePart' /\ Intact(h')
  BY <1>2 DEF QueuePart
<1> QED
  BY <1>4, <1>6, <1>7, <1>8, <1>9

\* The file worker writes the next queued packet.
LEMMA WriteStep ==
    ASSUME IInv, WriteQueued
    PROVE  IInv'
<1> USE FileBodyAssumption DEF IInv, WriteQueued, ownerVars
<1>0. /\ "worker" \in Threads /\ Registers(cb) /\ h \in HandleType
      /\ queue \in Seq(Packets) /\ size \in Nat /\ h.written \in Nat
  BY DEF Threads, Registers, TypeOK, HandleType
<1>1. PICK x \in WriteOnDisk(h, Head(queue)) : Conclude("worker", x, cb)
  OBVIOUS
<1>2. Head(queue) \in Packets /\ Tail(queue) \in Seq(Packets)
  BY <1>0, HeadTailProperties
<1> DEFINE w == h.written
<1>3. ~h.failed /\ ~h.can_close =>
         /\ Head(queue) = w + 1 /\ Len(Tail(queue)) = Len(queue) - 1
         /\ RunFrom(Tail(queue), w + 1)
  <2>1. ~h.failed /\ ~h.can_close => RunFrom(queue, w)
    BY DEF QueuePart
  <2>2. w \in Nat
    BY <1>0
  <2> HIDE DEF w
  <2> QED
    BY <1>0, <2>1, <2>2, RunTail
<1>4. /\ Faithful(h, x)
      /\ ~x.h.failed /\ ~x.h.can_close => x.h.written = w + 1
  BY <1>0, <1>2, <1>3, WriteOutcome
<1>5. /\ cb' \in [Handlers -> CallbackStates] /\ h' \in HandleType
      /\ settling' \in [Threads -> Settlements]
      /\ CallbackPart' /\ PendingPart'
  <2>1. stage # "mismatch" => stage' # "mismatch"
    OBVIOUS
  <2>2. CASE stage # "mismatch"
    BY <1>0, <1>1, <1>4, <2>2, ConcludeKeeps DEF Faithful
  <2>3. CASE stage = "mismatch"
    <3>1. \A c \in Handlers : cb[c] = "none"
      BY <2>3 DEF CallbackPart
    <3>2. h.failed /\ x.h = h /\ x.res = "err"
      BY <2>3, <1>4 DEF OwnerPart, Faithful
    <3>3. /\ h' = h
          /\ \A c \in Handlers : cb'[c] = "none"
          /\ cb' \in [Handlers -> CallbackStates]
      BY <1>1, <3>1, <3>2 DEF Conclude, CompletionCallback, CallbackStates
    <3>4. settling' = [settling EXCEPT !["worker"] =
                          [terminal |-> TRUE, post |-> {}]]
      BY <1>1, <3>2 DEF Conclude, CompletionCallback
    <3>5. settling' \in [Threads -> Settlements]
      BY <1>0, <3>4 DEF TypeOK, Settlements
    <3>6. \A u \in Threads : settling'[u].post \subseteq settling[u].post
      BY <1>0, <3>4 DEF TypeOK
    <3>7. CallbackPart'
      BY <3>1, <3>3, <3>6 DEF CallbackPart
    <3>8. PendingPart'
      BY <2>3 DEF PendingPart
    <3> QED
      BY <1>0, <3>3, <3>5, <3>7, <3>8
  <2> QED
    BY <2>2, <2>3
<1>6. h' = x.h /\ UNCHANGED <<stage, received, mem, size>>
  BY <1>1 DEF Conclude
<1>7. TypeOK'
  BY <1>2, <1>5 DEF TypeOK
<1>8. OwnerPart'
  <2>1. mem = <<>> /\ stage # "buffering"
    BY DEF OwnerPart
  <2>2. Free("owner") => Free("owner")'
    BY <1>1 DEF Conclude, Free, TypeOK, Threads
  <2>3. h'.length = h.length /\ (h.failed => h'.failed)
    BY <1>4, <1>6 DEF Faithful
  <2> QED
    BY <1>6, <2>1, <2>2, <2>3 DEF OwnerPart, LengthMismatch
<1>9. QueuePart'
  <2> SUFFICES ASSUME ~h'.failed, ~h'.can_close
               PROVE  /\ RunFrom(queue', h'.written)
                      /\ mem' = <<>> => h'.written + Len(queue') = size'
    BY DEF QueuePart
  <2>1. ~h.failed /\ ~h.can_close /\ h'.written = w + 1
    BY <1>4, <1>6 DEF Faithful
  <2>2. /\ queue' = Tail(queue) /\ RunFrom(Tail(queue), w + 1)
        /\ Len(Tail(queue)) = Len(queue) - 1
    BY <1>3, <2>1
  <2>3. mem = <<>> => w + Len(queue) = size
    BY <2>1 DEF QueuePart
  <2>4. w \in Nat /\ Len(queue) \in Nat
    BY <1>0
  <2> HIDE DEF w
  <2> QED
    BY <1>6, <2>1, <2>2, <2>3, <2>4
<1> QED
  BY <1>4, <1>5, <1>6, <1>7, <1>8, <1>9 DEF Faithful

\* The steps of the handlers and of the finishing pool.
LEMMA HandlerStep ==
    ASSUME IInv, NEW c \in Handlers,
           RegisterFinishingCallback(c) \/ FlushFile(c) \/ RunCallback(c)
    PROVE  IInv'
<1> USE FileBodyAssumption DEF IInv
<1>0. /\ c \in Threads /\ h \in HandleType /\ c # "owner"
      /\ cb \in [Handlers -> CallbackStates]
  BY DEF Threads, TypeOK
<1>1. ASSUME NEW k, NEW x, Registers(k), Faithful(h, x),
             x.res = "err" => x.h.failed \/ k = cb,
             ~x.h.failed => x.h.written = h.written,
             stage = "done", Free(c), Conclude(c, x, k),
             UNCHANGED <<stage, received, mem, size, queue, ran, pending>>
      PROVE  IInv'
  <2>1. /\ cb' \in [Handlers -> CallbackStates] /\ h' \in HandleType
        /\ settling' \in [Threads -> Settlements]
        /\ CallbackPart' /\ PendingPart'
    BY <1>0, <1>1, ConcludeKeeps DEF Faithful
  <2>2. h' = x.h
    BY <1>1 DEF Conclude
  <2>3. TypeOK'
    BY <1>1, <2>1 DEF TypeOK
  <2>4. OwnerPart'
    BY <1>1, <2>2 DEF OwnerPart, Faithful
  <2>5. QueuePart'
    BY <1>1, <2>2 DEF QueuePart, Faithful
  <2> QED
    BY <1>1, <2>1, <2>2, <2>3, <2>4, <2>5 DEF Faithful
<1>2. CASE RegisterFinishingCallback(c)
  <2> DEFINE k == [d \in Handlers |-> IF d = c THEN "held"
                                      ELSE IF cb[d] = "held" THEN "replaced"
                                      ELSE cb[d]]
  <2>1. /\ stage = "done" /\ Free(c) /\ cb[c] = "none"
        /\ UNCHANGED <<stage, received, mem, size, queue, ran, pending>>
    BY <1>2 DEF RegisterFinishingCallback, ownerVars
  <2>2. PICK x \in CompleteIfReady(h) : Conclude(c, x, k)
    BY <1>2 DEF RegisterFinishingCallback
  <2>3. Registers(k)
    BY <1>0, <2>1 DEF Registers, CallbackStates
  <2> HIDE DEF k
  <2>4. Faithful(h, x) /\ (~x.h.failed => x.h.written = h.written)
    BY <1>0, CompleteOutcome
  <2>5. x.res = "err" => x.h.failed
    BY <1>0, CompleteErr
  <2> QED
    BY <1>1, <2>1, <2>2, <2>3, <2>4, <2>5
<1>3. CASE FlushFile(c)
  <2>1. PICK x \in Then(Flush(h), CompleteIfReady) : Conclude(c, x, cb)
    BY <1>3 DEF FlushFile
  <2>2. Faithful(h, x) /\ (~x.h.failed => x.h.written = h.written)
    BY <1>0, FlushFileOutcome
  <2>3. Registers(cb)
    BY <1>0 DEF Registers
  <2> QED
    BY <1>1, <1>3, <2>1, <2>2, <2>3 DEF FlushFile, ownerVars
<1>4. CASE RunCallback(c)
  <2> USE <1>4 DEF RunCallback, ownerVars
  <2>1. TypeOK'
    BY DEF TypeOK, CallbackStates
  <2>2. CallbackPart'
    BY <1>0 DEF CallbackPart, TypeOK
  <2>3. OwnerPart' /\ QueuePart' /\ PendingPart' /\ Intact(h')
    BY DEF OwnerPart, Untouched, Free, LengthMismatch, QueuePart, PendingPart
  <2> QED
    BY <2>1, <2>2, <2>3
<1> QED
  BY <1>2, <1>3, <1>4

\* Every step keeps it.
LEMMA StepInv == IInv /\ [Next]_vars => IInv'
<1> SUFFICES ASSUME IInv, [Next]_vars PROVE IInv'
  OBVIOUS
<1>1. ASSUME UNCHANGED vars PROVE IInv'
  BY <1>1 DEF IInv, vars, TypeOK, Intact, OwnerPart, Untouched, Free,
              LengthMismatch, QueuePart, CallbackPart, PendingPart
<1>2. Handlers \subseteq Threads /\ "owner" \in Threads /\ "worker" \in Threads
  BY DEF Threads
<1> QED
  BY <1>1, <1>2, ReceiveStep, OwnerStep, SettleStep, WriteStep, HandlerStep
  DEF Next, Owner, Worker

-------------------------------------------------------------------------------
(***************************************************************************)
(* Theorems.                                                               *)
(***************************************************************************)

\* The inductive invariant holds throughout.
THEOREM Invariance == Spec => []IInv
BY InitInv, StepInv, PTL DEF Spec

\* The variables of the file writer, its owner and its waiters keep their types.
THEOREM TypeCorrect == Spec => []TypeOK
<1>1. IInv => TypeOK
  BY DEF IInv
<1> QED
  BY <1>1, Invariance, PTL

\* A callback of on_file_written is posted and run at most once, and only over
\* a file that holds all packets of the body in order.
THEOREM SuccessIsBody == Spec => []SuccessMeansBody
<1>1. IInv => SuccessMeansBody
  <2> SUFFICES ASSUME IInv, NEW c \in Handlers
               PROVE  /\ ran[c] = IF cb[c] = "ran" THEN 1 ELSE 0
                      /\ cb[c] \in {"due", "queued", "ran"} =>
                            /\ ~h.failed
                            /\ h.disk = [i \in 1..received |-> i]
                            /\ h.buf = <<>>
                            /\ h.written = received
    BY DEF SuccessMeansBody
  <2>1. ran[c] = IF cb[c] = "ran" THEN 1 ELSE 0
    BY DEF IInv, CallbackPart
  <2>2. ASSUME cb[c] \in {"due", "queued", "ran"}
        PROVE  /\ ~h.failed /\ h.disk = [i \in 1..received |-> i]
               /\ h.buf = <<>> /\ h.written = received
    <3>1. h.can_close /\ ~h.failed /\ stage = "done"
      BY <2>2 DEF IInv, CallbackPart
    <3>2. /\ h.length = received /\ h.buf = <<>> /\ h.length = h.written
          /\ h.written = Len(h.disk) + Len(h.buf) /\ RunFrom(h.disk, 0)
      BY <3>1 DEF IInv, OwnerPart, Intact
    <3> DEFINE d == h.disk
    <3>3. d \in Seq(Packets)
      BY DEF IInv, TypeOK, HandleType
    <3>4. RunFrom(d, 0) /\ received = Len(d) + Len(<<>>)
      BY <3>2
    <3> HIDE DEF d
    <3>5. received = Len(d)
      BY <3>3, <3>4, RunEmpty
    <3>6. d = [i \in 1..received |-> i]
      BY <3>3, <3>4, <3>5 DEF RunFrom
    <3> QED
      BY <3>1, <3>2, <3>6 DEF d
  <2> QED
    BY <2>1, <2>2
<1> QED
  BY <1>1, Invariance, PTL

\* A callback is given up only because the file failed.
THEOREM DroppedIsFailed == Spec => []DroppedMeansFailed
<1>1. IInv => DroppedMeansFailed
  BY DEF IInv, CallbackPart, DroppedMeansFailed
<1> QED
  BY <1>1, Invariance, PTL

\* A completed or failed writer that every thread has settled is not pending.
THEOREM TerminalLeaves == Spec => []TerminalLeavesPending
<1>1. IInv => TerminalLeavesPending
  BY DEF IInv, PendingPart, TerminalLeavesPending, Free, Settled
<1> QED
  BY <1>1, Invariance, PTL

\* No step changes the bytes of a completed file or their count.
THEOREM CompletedStays == Spec => CompletedImmutable
<1> DEFINE Kept == h.can_close => h'.disk = h.disk /\ h'.written = h.written
<1>1. IInv /\ [Next]_vars => [Kept]_vars
  <2> SUFFICES ASSUME IInv, Next, h.can_close
               PROVE  h'.disk = h.disk /\ h'.written = h.written
    OBVIOUS
  <2>0. h \in HandleType /\ Intact(h)
    BY DEF IInv, TypeOK
  <2>1. ASSUME NEW t, NEW x, NEW k, Conclude(t, x, k), x.h = h
        PROVE  h'.disk = h.disk /\ h'.written = h.written
    BY <2>1 DEF Conclude
  <2>2. ASSUME FlushPrefix PROVE h'.disk = h.disk /\ h'.written = h.written
    BY <2>2 DEF FlushPrefix, IInv, OwnerPart, Untouched
  <2>3. ASSUME FinishReceived PROVE h'.disk = h.disk /\ h'.written = h.written
    BY <2>0, <2>3 DEF FinishReceived, Fail, HandleType
  <2>4. ASSUME DropCallback PROVE h'.disk = h.disk /\ h'.written = h.written
    BY <2>1, <2>4 DEF DropCallback, Outcome
  <2>5. ASSUME SetFileLength PROVE h'.disk = h.disk /\ h'.written = h.written
    <3> DEFINE s == SetLength(h, size)
    <3>1. /\ s.can_close = h.can_close /\ s.disk = h.disk
          /\ s.written = h.written /\ s.failed = h.failed
      BY <2>0 DEF SetLength, HandleType
    <3>2. PICK x \in CompleteIfReady(s) : Conclude("owner", x, cb)
      BY <2>5 DEF SetFileLength
    <3>3. x.h = s
      BY <3>1, <3>2 DEF CompleteIfReady, Outcome
    <3> QED
      BY <3>1, <3>2, <3>3 DEF Conclude
  <2>6. ASSUME WriteQueued PROVE h'.disk = h.disk /\ h'.written = h.written
    <3>1. PICK x \in WriteOnDisk(h, Head(queue)) : Conclude("worker", x, cb)
      BY <2>6 DEF WriteQueued
    <3>2. x.h = h
      BY DEF WriteOnDisk, Outcome
    <3> QED
      BY <2>1, <3>1, <3>2
  <2>7. ASSUME NEW c \in Handlers, RegisterFinishingCallback(c)
        PROVE  h'.disk = h.disk /\ h'.written = h.written
    BY <2>0, <2>1, <2>7, CompleteOutcome DEF RegisterFinishingCallback, Faithful
  <2>8. ASSUME NEW c \in Handlers, FlushFile(c)
        PROVE  h'.disk = h.disk /\ h'.written = h.written
    BY <2>0, <2>1, <2>8, FlushFileOutcome DEF FlushFile, Faithful
  <2> QED
    BY <2>2, <2>3, <2>4, <2>5, <2>6, <2>7, <2>8
    DEF Next, Owner, Worker, BufferPacket, OpenFile, ReceivePacket, FinishBody,
        DiscardBody, AppendPacket, Settle, RunCallback
<1> HIDE DEF Kept
<1>2. Spec => [][Kept]_vars
  BY <1>1, Invariance, PTL DEF Spec
<1> QED
  BY <1>2 DEF Kept, CompletedImmutable
===============================================================================
