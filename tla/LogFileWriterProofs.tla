-------------------------- MODULE LogFileWriterProofs --------------------------
(***************************************************************************)
(* What LogFileWriter promises for any number of files and of entries, and  *)
(* however the calls of the worker and of the main thread fall (LogSpec).    *)
(*                                                                         *)
(* That a file is in order depends on the two places entries come to it      *)
(* from: OrderInv says that the channel and the buffer are in order too, the  *)
(* buffer before the channel, and that the buffer is empty while a file is   *)
(* set, without which the worker would write past it.                       *)
(***************************************************************************)
EXTENDS LogFileWriter, TLAPS

Bounded(s) == \A k \in 1 .. Len(s) : s[k] <= emitted

BufferWaits == file # NoFile => buffer = <<>>

AllBounded == Bounded(queue) /\ Bounded(buffer) /\ \A f \in Files : Bounded(content[f])

WaitingInOrder == Ascending(queue) /\ Ascending(buffer) /\ Below(buffer, queue)

OrderInv == BufferWaits /\ AllBounded /\ WaitingInOrder /\ FilesInOrder

--------------------------------------------------------------------------------
(* Sequences of numbers.                                                   *)
LEMMA HasAppend ==
    ASSUME NEW s \in Seq(Nat), NEW m \in Nat, NEW n
    PROVE  Has(Append(s, m), n) <=> Has(s, n) \/ n = m
<1>1. Has(s, n) => Has(Append(s, m), n)
  BY DEF Has
<1>2. n = m => Has(Append(s, m), n)
  <2>1. Append(s, m)[Len(s) + 1] = m /\ Len(s) + 1 \in 1 .. Len(Append(s, m))
    OBVIOUS
  <2> QED  BY <2>1 DEF Has
<1>3. Has(Append(s, m), n) => Has(s, n) \/ n = m
  BY DEF Has
<1> QED  BY <1>1, <1>2, <1>3

LEMMA HasConcat ==
    ASSUME NEW s \in Seq(Nat), NEW t \in Seq(Nat), NEW n
    PROVE  Has(s \o t, n) <=> Has(s, n) \/ Has(t, n)
<1>1. Has(s, n) => Has(s \o t, n)
  BY DEF Has
<1>2. ASSUME NEW k \in 1 .. Len(t), t[k] = n
      PROVE  Has(s \o t, n)
  <2>1. (s \o t)[Len(s) + k] = t[k] /\ Len(s) + k \in 1 .. Len(s \o t)
    OBVIOUS
  <2> QED  BY <1>2, <2>1 DEF Has
<1>3. ASSUME NEW k \in 1 .. Len(s \o t), (s \o t)[k] = n
      PROVE  Has(s, n) \/ Has(t, n)
  <2>1. CASE k <= Len(s)
    BY <1>3, <2>1 DEF Has
  <2>2. CASE k > Len(s)
    <3>1. (s \o t)[k] = t[k - Len(s)] /\ k - Len(s) \in 1 .. Len(t)
      BY <2>2
    <3> QED  BY <1>3, <3>1 DEF Has
  <2> QED  BY <2>1, <2>2
<1> QED  BY <1>1, <1>2, <1>3 DEF Has

LEMMA HasHeadTail ==
    ASSUME NEW s \in Seq(Nat), s # <<>>, NEW n
    PROVE  Has(s, n) <=> n = Head(s) \/ Has(Tail(s), n)
<1>1. ASSUME NEW k \in 1 .. Len(s), s[k] = n, n # Head(s)
      PROVE  Has(Tail(s), n)
  <2>1. k - 1 \in 1 .. Len(Tail(s)) /\ Tail(s)[k - 1] = n
    BY <1>1
  <2> QED  BY <2>1 DEF Has
<1>2. ASSUME NEW k \in 1 .. Len(Tail(s)), Tail(s)[k] = n
      PROVE  Has(s, n)
  <2>1. k + 1 \in 1 .. Len(s) /\ s[k + 1] = n
    BY <1>2
  <2> QED  BY <2>1 DEF Has
<1>3. Has(s, Head(s))
  BY DEF Has
<1> QED  BY <1>1, <1>2, <1>3 DEF Has

(* The order of sequences, said of what they hold.                          *)
LEMMA BelowHas ==
    ASSUME NEW s \in Seq(Nat), NEW t \in Seq(Nat)
    PROVE  Below(s, t) <=> \A m, n : Has(s, m) /\ Has(t, n) => m < n
BY DEF Below, Has

LEMMA BoundedHas ==
    ASSUME NEW s \in Seq(Nat)
    PROVE  Bounded(s) <=> \A n : Has(s, n) => n <= emitted
BY DEF Bounded, Has

LEMMA HasNat ==
    ASSUME NEW s \in Seq(Nat), NEW n, Has(s, n)
    PROVE  n \in Nat
BY DEF Has

LEMMA HasEmpty == \A n : ~ Has(<<>>, n)
BY DEF Has

LEMMA AscendingAppend ==
    ASSUME NEW s \in Seq(Nat), NEW m \in Nat, Ascending(s), \A n : Has(s, n) => n < m
    PROVE  Ascending(Append(s, m))
BY DEF Ascending, Has

LEMMA AscendingConcat ==
    ASSUME NEW s \in Seq(Nat), NEW t \in Seq(Nat), Ascending(s), Ascending(t), Below(s, t)
    PROVE  Ascending(s \o t)
<1> SUFFICES ASSUME NEW j \in 1 .. Len(s \o t), NEW k \in 1 .. Len(s \o t), j < k
             PROVE  (s \o t)[j] < (s \o t)[k]
  BY DEF Ascending
<1>1. CASE k <= Len(s)
  BY <1>1 DEF Ascending
<1>2. CASE j <= Len(s) /\ k > Len(s)
  <2>1. (s \o t)[j] = s[j] /\ (s \o t)[k] = t[k - Len(s)] /\ k - Len(s) \in 1 .. Len(t)
    BY <1>2
  <2> QED  BY <1>2, <2>1 DEF Below
<1>3. CASE j > Len(s)
  <2>1. /\ (s \o t)[j] = t[j - Len(s)] /\ (s \o t)[k] = t[k - Len(s)]
        /\ j - Len(s) \in 1 .. Len(t) /\ k - Len(s) \in 1 .. Len(t)
        /\ j - Len(s) < k - Len(s)
    BY <1>3
  <2>2. t[j - Len(s)] < t[k - Len(s)]
    BY <2>1 DEF Ascending
  <2> QED  BY <2>1, <2>2
<1> QED  BY <1>1, <1>2, <1>3

LEMMA AscendingTail ==
    ASSUME NEW s \in Seq(Nat), s # <<>>, Ascending(s)
    PROVE  /\ Ascending(Tail(s))
           /\ \A n : Has(Tail(s), n) => Head(s) < n
<1>1. \A k \in 1 .. Len(Tail(s)) : Tail(s)[k] = s[k + 1] /\ k + 1 \in 1 .. Len(s)
  OBVIOUS
<1>2. Ascending(Tail(s))
  BY <1>1 DEF Ascending
<1>3. ASSUME NEW k \in 1 .. Len(Tail(s))
      PROVE  s[1] < Tail(s)[k]
  BY <1>1 DEF Ascending
<1> QED  BY <1>2, <1>3 DEF Has

--------------------------------------------------------------------------------
LEMMA LogInitTyped == LogInit => LogTypeOK
<1>1. <<>> \in Seq(Nat) /\ <<0>> \in Seq(Nat)
  OBVIOUS
<1>2. LogInit => content \in [Files -> Seq(Nat)]
  BY <1>1 DEF LogInit
<1> QED  BY <1>1, <1>2 DEF LogInit, LogTypeOK

LEMMA FlushedTyped ==
    ASSUME LogTypeOK, file # NoFile
    PROVE  Flushed \in [Files -> Seq(Nat)]
BY DEF Flushed, LogTypeOK

(* One step per call.                                                      *)
LEMMA LogStepTyped == LogTypeOK /\ [LogNext]_logVars => LogTypeOK'
<1> SUFFICES ASSUME LogTypeOK, [LogNext]_logVars
             PROVE  LogTypeOK'
  OBVIOUS
<1>1. CASE Logs
  BY <1>1 DEF LogTypeOK, Logs
<1>2. CASE Write
  <2>1. queue' \in Seq(Nat) /\ Head(queue) \in Nat
    BY <1>2 DEF LogTypeOK, Write
  <2>2. CASE file = NoFile
    <3>1. buffer' = Append(buffer, Head(queue)) /\ content' = content
      BY <1>2, <2>2 DEF Write
    <3>2. buffer' \in Seq(Nat)
      BY <2>1, <3>1 DEF LogTypeOK
    <3> QED  BY <1>2, <2>1, <3>1, <3>2 DEF LogTypeOK, Write
  <2>3. CASE file # NoFile
    <3>1. buffer' = buffer /\ content' = [content EXCEPT ![file] = Append(@, Head(queue))]
      BY <1>2, <2>3 DEF Write
    <3>2. file \in Files /\ Append(content[file], Head(queue)) \in Seq(Nat)
      BY <2>1, <2>3 DEF LogTypeOK
    <3>3. content' \in [Files -> Seq(Nat)]
      BY <3>1, <3>2 DEF LogTypeOK
    <3> QED  BY <1>2, <2>1, <3>1, <3>3 DEF LogTypeOK, Write
  <2> QED  BY <2>2, <2>3
<1>3. CASE WriteFails
  <2>1. queue' \in Seq(Nat) /\ Head(queue) \in Nat
    BY <1>3 DEF LogTypeOK, WriteFails
  <2> QED  BY <1>3, <2>1 DEF LogTypeOK, WriteFails
<1>4. CASE Flush
  BY <1>4, FlushedTyped DEF LogTypeOK, Flush
<1>5. CASE SetNoOutFile
  BY <1>5 DEF LogTypeOK, SetNoOutFile
<1>6. CASE OpenFails
  <2>1. CASE file = NoFile
    BY <1>6, <2>1 DEF LogTypeOK, OpenFails
  <2>2. CASE file # NoFile
    BY <1>6, <2>2, FlushedTyped DEF LogTypeOK, OpenFails
  <2> QED  BY <2>1, <2>2
<1>7. CASE OutDirRemoved
  BY <1>7 DEF LogTypeOK, OutDirRemoved
<1>8. ASSUME NEW f \in Files, SetOutFile(f)
      PROVE  LogTypeOK'
  <2>1. CASE file = NoFile
    BY <1>8, <2>1 DEF LogTypeOK, SetOutFile
  <2>2. CASE file # NoFile
    BY <1>8, <2>2, FlushedTyped DEF LogTypeOK, SetOutFile
  <2> QED  BY <2>1, <2>2
<1>9. ASSUME NEW f \in Files, CopyFails(f)
      PROVE  LogTypeOK'
  <2>1. PICK n \in 0 .. Len(buffer) :
           content' = [content EXCEPT ![f] = @ \o SubSeq(buffer, 1, n)]
    BY <1>9 DEF CopyFails
  <2>2. SubSeq(buffer, 1, n) \in Seq(Nat)
    BY <2>1 DEF LogTypeOK
  <2>3. content' \in [Files -> Seq(Nat)]
    BY <2>1, <2>2 DEF LogTypeOK
  <2> QED  BY <1>9, <2>3 DEF LogTypeOK, CopyFails
<1>10. CASE UNCHANGED logVars
  BY <1>10 DEF LogTypeOK, logVars
<1> QED  BY <1>1, <1>2, <1>3, <1>4, <1>5, <1>6, <1>7, <1>8, <1>9, <1>10 DEF LogNext, WorkerStep

(* The types of LogFileWriter.                                             *)
THEOREM LogTypeCorrect == LogSpec => []LogTypeOK
BY LogInitTyped, LogStepTyped, PTL DEF LogSpec

--------------------------------------------------------------------------------
LEMMA NothingLostStep == LogTypeOK /\ NothingLost /\ [LogNext]_logVars => NothingLost'
<1> SUFFICES ASSUME LogTypeOK, NothingLost, [LogNext]_logVars
             PROVE  NothingLost'
  OBVIOUS
<1> USE DEF LogTypeOK
<1> DEFINE Kept(n) == \/ Has(queue, n) \/ Has(buffer, n) \/ n \in lost
                     \/ \E f \in Files : Has(content[f], n)
<1>k. \A n \in 1 .. emitted : Kept(n)
  BY DEF NothingLost, Entries
<1>m. (\A n \in 1 .. emitted' : Kept(n)') => NothingLost'
  BY DEF NothingLost, Entries
<1> HIDE DEF Kept
<1>1. CASE Logs
  <2>1. \A n : Has(queue', n) <=> Has(queue, n) \/ n = emitted + 1
    BY <1>1, HasAppend DEF Logs
  <2>2. \A n \in 1 .. emitted' : n \in 1 .. emitted \/ n = emitted + 1
    BY <1>1 DEF Logs
  <2>3. \A n \in 1 .. emitted' : Kept(n)'
    BY <1>k, <1>1, <2>1, <2>2 DEF Kept, Logs
  <2> QED  BY <2>3, <1>m
<1>2. CASE Write
  <2>1. Head(queue) \in Nat /\ queue # <<>>
    BY <1>2 DEF Write
  <2>2. \A n : Has(queue, n) <=> n = Head(queue) \/ Has(queue', n)
    BY <1>2, <2>1, HasHeadTail DEF Write
  <2>3. CASE file # NoFile
    <3>0. content'[file] = Append(content[file], Head(queue)) /\ content[file] \in Seq(Nat)
      BY <1>2, <2>3 DEF Write
    <3>1. \A n : Has(content'[file], n) <=> Has(content[file], n) \/ n = Head(queue)
      BY <2>1, <3>0, HasAppend
    <3>2. \A f \in Files : f # file => content'[f] = content[f]
      BY <1>2, <2>3 DEF Write
    <3>3. \A n \in 1 .. emitted' : Kept(n)'
      BY <1>k, <1>2, <2>2, <2>3, <3>1, <3>2 DEF Kept, Write
    <3> QED  BY <3>3, <1>m
  <2>4. CASE file = NoFile
    <3>0. buffer' = Append(buffer, Head(queue))
      BY <1>2, <2>4 DEF Write
    <3>1. \A n : Has(buffer', n) <=> Has(buffer, n) \/ n = Head(queue)
      BY <2>1, <3>0, HasAppend
    <3>2. \A n \in 1 .. emitted' : Kept(n)'
      BY <1>k, <1>2, <2>2, <2>4, <3>1 DEF Kept, Write
    <3> QED  BY <3>2, <1>m
  <2> QED  BY <2>3, <2>4
<1>3. CASE WriteFails
  <2>1. \A n : Has(queue, n) <=> n = Head(queue) \/ Has(queue', n)
    BY <1>3, HasHeadTail DEF WriteFails
  <2>2. \A n \in 1 .. emitted' : Kept(n)'
    BY <1>k, <1>3, <2>1 DEF Kept, WriteFails
  <2> QED  BY <2>2, <1>m
<1>4. ASSUME NEW f \in Files, content' = [content EXCEPT ![f] = @ \o buffer],
             buffer' = <<>>, UNCHANGED <<emitted, queue, lost>>
      PROVE  NothingLost'
  <2>1. \A n : Has(content'[f], n) <=> Has(content[f], n) \/ Has(buffer, n)
    BY <1>4, HasConcat
  <2>2. \A g \in Files : g # f => content'[g] = content[g]
    BY <1>4
  <2>3. \A n \in 1 .. emitted' : Kept(n)'
    BY <1>k, <1>4, <2>1, <2>2 DEF Kept
  <2> QED  BY <2>3, <1>m
<1>5. CASE Flush
  BY <1>4, <1>5 DEF Flush, Flushed
<1>6. CASE SetNoOutFile
  <2>1. \A n \in 1 .. emitted' : Kept(n)'
    BY <1>k, <1>6 DEF Kept, SetNoOutFile
  <2> QED  BY <2>1, <1>m
<1>7. CASE OpenFails
  <2>1. CASE file = NoFile
    <3>1. \A n \in 1 .. emitted' : Kept(n)'
      BY <1>k, <1>7, <2>1 DEF Kept, OpenFails
    <3> QED  BY <3>1, <1>m
  <2>2. CASE file # NoFile
    BY <1>4, <1>7, <2>2 DEF OpenFails, Flushed
  <2> QED  BY <2>1, <2>2
<1>8. CASE OutDirRemoved
  <2>1. \A n \in 1 .. emitted : \A f \in Files : ~ Has(content[f], n)
    <3>1. \A n \in 1 .. emitted : ~ Has(<<>>, n) /\ ~ Has(<<0>>, n)
      BY DEF Has
    <3> QED  BY <1>8, <3>1 DEF OutDirRemoved
  <2>2. \A n \in 1 .. emitted' : Kept(n)'
    BY <1>k, <1>8, <2>1 DEF Kept, OutDirRemoved
  <2> QED  BY <2>2, <1>m
<1>9. ASSUME NEW f \in Files, SetOutFile(f)
      PROVE  NothingLost'
  <2>1. CASE file = NoFile
    BY <1>4, <1>9, <2>1 DEF SetOutFile
  <2>2. CASE file # NoFile
    BY <1>4, <1>9, <2>2 DEF SetOutFile, Flushed
  <2> QED  BY <2>1, <2>2
<1>10. ASSUME NEW f \in Files, CopyFails(f)
       PROVE  NothingLost'
  <2>1. PICK n \in 0 .. Len(buffer) :
           content' = [content EXCEPT ![f] = @ \o SubSeq(buffer, 1, n)]
    BY <1>10 DEF CopyFails
  <2>2. SubSeq(buffer, 1, n) \in Seq(Nat)
    BY <2>1
  <2>3. \A m : Has(content[f], m) => Has(content'[f], m)
    BY <2>1, <2>2, HasConcat
  <2>4. \A g \in Files : g # f => content'[g] = content[g]
    BY <2>1
  <2>5. \A m \in 1 .. emitted' : Kept(m)'
    BY <1>k, <1>10, <2>3, <2>4 DEF Kept, CopyFails
  <2> QED  BY <2>5, <1>m
<1>11. CASE UNCHANGED logVars
  BY <1>11 DEF NothingLost, Entries, logVars
<1> QED  BY <1>1, <1>2, <1>3, <1>5, <1>6, <1>7, <1>8, <1>9, <1>10, <1>11 DEF LogNext, WorkerStep

(* Whatever the order of the calls, no entry is lost but by an error of its  *)
(* writing.                                                                *)
THEOREM NothingLostCorrect == LogSpec => []NothingLost
<1>1. LogInit => NothingLost
  BY DEF LogInit, NothingLost, Entries
<1> QED  BY <1>1, LogTypeCorrect, NothingLostStep, PTL DEF LogSpec

--------------------------------------------------------------------------------
(* The order.  What FilesInOrder needs to be kept by every call.                *)
LEMMA OrderStep == LogTypeOK /\ OrderInv /\ [LogNext]_logVars => OrderInv'
<1> SUFFICES ASSUME LogTypeOK, OrderInv, [LogNext]_logVars
             PROVE  OrderInv'
  OBVIOUS
<1>t. /\ emitted \in Nat /\ queue \in Seq(Nat) /\ buffer \in Seq(Nat)
      /\ file \in Files \cup {NoFile} /\ content \in [Files -> Seq(Nat)]
      /\ \A f \in Files : content[f] \in Seq(Nat)
  BY DEF LogTypeOK
<1>u. LogTypeOK'
  BY LogStepTyped
<1>v. /\ emitted' \in Nat /\ queue' \in Seq(Nat) /\ buffer' \in Seq(Nat)
      /\ \A f \in Files : content'[f] \in Seq(Nat)
  BY <1>u DEF LogTypeOK
<1>i. BufferWaits /\ AllBounded /\ WaitingInOrder /\ FilesInOrder
  BY DEF OrderInv
(* What is known of the entries of each.                                    *)
<1>q. Ascending(queue) /\ \A n : Has(queue, n) => n <= emitted
  BY <1>t, <1>i, BoundedHas DEF AllBounded, WaitingInOrder
<1>b. /\ Ascending(buffer) /\ \A n : Has(buffer, n) => n <= emitted
      /\ \A m, n : Has(buffer, m) /\ Has(queue, n) => m < n
  BY <1>t, <1>i, BoundedHas, BelowHas DEF AllBounded, WaitingInOrder
<1>c. \A f \in Files : \A n : Has(content[f], n) => n <= emitted
  BY <1>t, <1>i, BoundedHas DEF AllBounded
<1>d. \A f \in Files \ halfway :
         /\ Ascending(content[f])
         /\ \A m, n : Has(content[f], m) /\ Has(buffer, n) => m < n
         /\ \A m, n : Has(content[f], m) /\ Has(queue, n) => m < n
  BY <1>t, <1>i, BelowHas DEF FilesInOrder
(* And what it is enough to show of them afterwards.                         *)
<1>e. ASSUME /\ file' # NoFile => buffer' = <<>>
             /\ Ascending(queue') /\ Ascending(buffer')
             /\ \A n : Has(queue', n) \/ Has(buffer', n) => n <= emitted'
             /\ \A m, n : Has(buffer', m) /\ Has(queue', n) => m < n
             /\ \A f \in Files : \A n : Has(content'[f], n) => n <= emitted'
             /\ \A f \in Files \ halfway' :
                   /\ Ascending(content'[f])
                   /\ \A m, n : Has(content'[f], m) /\ Has(buffer', n) => m < n
                   /\ \A m, n : Has(content'[f], m) /\ Has(queue', n) => m < n
      PROVE  OrderInv'
  <2>1. AllBounded'
    <3>1. \A s \in Seq(Nat) : (\A n : Has(s, n) => n <= emitted') => Bounded(s)'
      BY DEF Bounded, Has
    <3> QED  BY <1>v, <1>e, <3>1 DEF AllBounded
  <2>2. WaitingInOrder'
    BY <1>v, <1>e, BelowHas DEF WaitingInOrder
  <2>3. FilesInOrder'
    BY <1>v, <1>e, BelowHas DEF FilesInOrder
  <2> QED  BY <1>e, <2>1, <2>2, <2>3 DEF OrderInv, BufferWaits
<1>1. CASE Logs
  <2>1. queue' = Append(queue, emitted + 1) /\ emitted' = emitted + 1
        /\ UNCHANGED <<buffer, file, content, halfway>>
    BY <1>1 DEF Logs
  <2>2. \A n : Has(queue', n) <=> Has(queue, n) \/ n = emitted + 1
    BY <1>t, <2>1, HasAppend
  <2>3. \A n \in Nat : n <= emitted => n < emitted + 1 /\ n <= emitted'
    BY <1>t, <2>1
  <2>4. Ascending(queue')
    BY <1>t, <1>q, <2>1, <2>3, HasNat, AscendingAppend
  <2>5. \A n : Has(queue', n) \/ Has(buffer', n) => n <= emitted'
    BY <1>t, <1>q, <1>b, <2>1, <2>2, <2>3, HasNat
  <2>6. \A f \in Files : \A n : Has(content'[f], n) => n <= emitted'
    BY <1>t, <1>c, <2>1, <2>3, HasNat
  <2>7. \A m, n : Has(buffer', m) /\ Has(queue', n) => m < n
    BY <1>t, <1>b, <2>1, <2>2, <2>3, HasNat
  <2>8. \A f \in Files \ halfway' : \A m, n : Has(content'[f], m) /\ Has(queue', n) => m < n
    BY <1>t, <1>c, <1>d, <2>1, <2>2, <2>3, HasNat
  <2> QED  BY <1>e, <1>i, <1>b, <1>d, <2>1, <2>4, <2>5, <2>6, <2>7, <2>8 DEF BufferWaits
(* The channel loses its head, which goes to a file, to the buffer, or       *)
(* nowhere.                                                                *)
<1>h. ASSUME queue # <<>>, queue' = Tail(queue)
      PROVE  /\ Head(queue) \in Nat /\ Has(queue, Head(queue)) /\ Head(queue) <= emitted
             /\ Ascending(queue')
             /\ \A n : Has(queue', n) => Has(queue, n) /\ Head(queue) < n
  <2>1. Head(queue) \in Nat
    BY <1>t, <1>h
  <2>2. \A n : Has(queue, n) <=> n = Head(queue) \/ Has(queue', n)
    BY <1>t, <1>h, HasHeadTail
  <2>3. Ascending(queue') /\ \A n : Has(queue', n) => Head(queue) < n
    BY <1>t, <1>q, <1>h, AscendingTail
  <2> QED  BY <1>q, <2>1, <2>2, <2>3
<1>2. CASE Write /\ file # NoFile
  <2>1. /\ queue # <<>> /\ queue' = Tail(queue)
        /\ content' = [content EXCEPT ![file] = Append(content[file], Head(queue))]
        /\ UNCHANGED <<emitted, buffer, file, halfway>>
    BY <1>2 DEF Write
  <2>2. buffer = <<>> /\ file \in Files
    BY <1>t, <1>i, <1>2 DEF BufferWaits
  <2>3. /\ Head(queue) \in Nat /\ Has(queue, Head(queue)) /\ Head(queue) <= emitted
        /\ Ascending(queue')
        /\ \A n : Has(queue', n) => Has(queue, n) /\ Head(queue) < n
    BY <1>h, <2>1
  <2>4. \A f \in Files : f # file => content'[f] = content[f]
    BY <1>t, <2>1
  <2>5. content'[file] = Append(content[file], Head(queue))
    BY <1>t, <2>1, <2>2
  <2>6. \A n : Has(content'[file], n) <=> Has(content[file], n) \/ n = Head(queue)
    BY <1>t, <2>2, <2>3, <2>5, HasAppend
  <2>7. \A n : ~ Has(buffer, n)
    BY <2>2, HasEmpty
  <2>8. ASSUME file \notin halfway
        PROVE  /\ Ascending(content'[file])
               /\ \A m, n : Has(content'[file], m) /\ Has(queue', n) => m < n
    <3>1. file \in Files \ halfway /\ content[file] \in Seq(Nat)
      BY <1>t, <2>2, <2>8
    <3>2. Ascending(content[file]) /\ \A m : Has(content[file], m) => m < Head(queue)
      BY <1>d, <2>3, <3>1
    <3>3. Ascending(content'[file])
      BY <2>3, <2>5, <3>1, <3>2, AscendingAppend
    <3>4. \A m, n : Has(content[file], m) /\ Has(queue, n) => m < n
      BY <1>d, <3>1
    <3> QED  BY <2>3, <2>6, <3>3, <3>4
  <2>9. \A f \in Files \ halfway' :
           /\ Ascending(content'[f])
           /\ \A m, n : Has(content'[f], m) /\ Has(queue', n) => m < n
    BY <1>d, <2>1, <2>3, <2>4, <2>8
  <2>10. \A f \in Files : \A n : Has(content'[f], n) => n <= emitted'
    BY <1>c, <2>1, <2>3, <2>4, <2>6
  <2> QED  BY <1>e, <1>q, <1>b, <2>1, <2>2, <2>3, <2>7, <2>9, <2>10
<1>3. CASE Write /\ file = NoFile
  <2>1. /\ queue # <<>> /\ queue' = Tail(queue)
        /\ buffer' = Append(buffer, Head(queue))
        /\ UNCHANGED <<emitted, content, file, halfway>>
    BY <1>3 DEF Write
  <2>2. /\ Head(queue) \in Nat /\ Has(queue, Head(queue)) /\ Head(queue) <= emitted
        /\ Ascending(queue')
        /\ \A n : Has(queue', n) => Has(queue, n) /\ Head(queue) < n
    BY <1>h, <2>1
  <2>3. \A n : Has(buffer', n) <=> Has(buffer, n) \/ n = Head(queue)
    BY <1>t, <2>1, <2>2, HasAppend
  <2>4. Ascending(buffer')
    BY <1>t, <1>b, <2>1, <2>2, AscendingAppend
  <2>5. \A m, n : Has(buffer', m) /\ Has(queue', n) => m < n
    BY <1>b, <2>2, <2>3
  <2>6. \A f \in Files \ halfway' :
           /\ Ascending(content'[f])
           /\ \A m, n : Has(content'[f], m) /\ Has(buffer', n) => m < n
           /\ \A m, n : Has(content'[f], m) /\ Has(queue', n) => m < n
    BY <1>d, <2>1, <2>2, <2>3
  <2> QED  BY <1>3, <1>e, <1>q, <1>b, <1>c, <2>1, <2>2, <2>3, <2>4, <2>5, <2>6
<1>4. CASE WriteFails
  <2>1. queue # <<>> /\ queue' = Tail(queue) /\ UNCHANGED <<emitted, buffer, content, file, halfway>>
    BY <1>4 DEF WriteFails
  <2>2. Ascending(queue') /\ \A n : Has(queue', n) => Has(queue, n)
    BY <1>h, <2>1
  <2> QED  BY <1>e, <1>i, <1>q, <1>b, <1>c, <1>d, <2>1, <2>2 DEF BufferWaits
(* The buffer goes to a file and is empty then.                             *)
<1>5. ASSUME NEW f \in Files, content' = [content EXCEPT ![f] = @ \o buffer],
             buffer' = <<>>, UNCHANGED <<emitted, queue, halfway>>
      PROVE  OrderInv'
  <2>1. content'[f] = content[f] \o buffer /\ \A g \in Files : g # f => content'[g] = content[g]
    BY <1>t, <1>5
  <2>2. \A n : Has(content'[f], n) <=> Has(content[f], n) \/ Has(buffer, n)
    BY <1>t, <2>1, HasConcat
  <2>3. \A n : ~ Has(buffer', n)
    BY <1>5, HasEmpty
  <2>4. Ascending(buffer')
    BY <1>5 DEF Ascending
  <2>5. ASSUME f \notin halfway
        PROVE  /\ Ascending(content'[f])
               /\ \A m, n : Has(content'[f], m) /\ Has(queue', n) => m < n
    <3>1. f \in Files \ halfway /\ content[f] \in Seq(Nat)
      BY <1>t, <2>5
    <3>2. Ascending(content[f]) /\ Below(content[f], buffer)
      BY <1>i, <3>1 DEF FilesInOrder
    <3>3. Ascending(content'[f])
      BY <1>t, <1>b, <2>1, <3>1, <3>2, AscendingConcat
    <3>4. \A m, n : Has(content[f], m) /\ Has(queue, n) => m < n
      BY <1>d, <3>1
    <3> QED  BY <1>5, <1>b, <2>2, <3>3, <3>4
  <2>6. \A g \in Files \ halfway' :
           /\ Ascending(content'[g])
           /\ \A m, n : Has(content'[g], m) /\ Has(queue', n) => m < n
    BY <1>d, <1>5, <2>1, <2>5
  <2>7. \A g \in Files : \A n : Has(content'[g], n) => n <= emitted'
    BY <1>b, <1>c, <1>5, <2>1, <2>2
  <2> QED  BY <1>e, <1>q, <1>5, <2>3, <2>4, <2>6, <2>7
<1>6. CASE Flush
  BY <1>t, <1>5, <1>6 DEF Flush, Flushed
<1>7. CASE UNCHANGED <<emitted, queue, buffer, content, halfway>> /\ file' \in {file, NoFile}
  BY <1>7, <1>e, <1>i, <1>q, <1>b, <1>c, <1>d DEF BufferWaits
<1>8. CASE SetNoOutFile
  BY <1>7, <1>8 DEF SetNoOutFile
<1>9. CASE OpenFails
  <2>1. CASE file = NoFile
    BY <1>7, <1>9, <2>1 DEF OpenFails
  <2>2. CASE file # NoFile
    BY <1>t, <1>5, <1>9, <2>2 DEF OpenFails, Flushed
  <2> QED  BY <2>1, <2>2
<1>10. CASE OutDirRemoved
  <2>1. /\ UNCHANGED <<emitted, queue, buffer, file, halfway>>
        /\ \A f \in Files : content'[f] = <<>>
    BY <1>10 DEF OutDirRemoved
  <2>2. \A f \in Files : Ascending(content'[f]) /\ \A n : ~ Has(content'[f], n)
    BY <2>1, HasEmpty DEF Ascending
  <2> QED  BY <1>e, <1>i, <1>q, <1>b, <2>1, <2>2 DEF BufferWaits
<1>11. ASSUME NEW f \in Files, SetOutFile(f)
       PROVE  OrderInv'
  <2>1. CASE file = NoFile
    BY <1>5, <1>11, <2>1 DEF SetOutFile
  <2>2. CASE file # NoFile
    BY <1>t, <1>5, <1>11, <2>2 DEF SetOutFile, Flushed
  <2> QED  BY <2>1, <2>2
<1>12. ASSUME NEW f \in Files, CopyFails(f)
       PROVE  OrderInv'
  <2>1. PICK k \in 0 .. Len(buffer) :
           content' = [content EXCEPT ![f] = @ \o SubSeq(buffer, 1, k)]
    BY <1>12 DEF CopyFails
  <2>2. UNCHANGED <<emitted, queue, buffer, file>> /\ halfway' = halfway \cup {f}
    BY <1>12 DEF CopyFails
  <2>3. SubSeq(buffer, 1, k) \in Seq(Nat) /\ \A n : Has(SubSeq(buffer, 1, k), n) => Has(buffer, n)
    BY <1>t, <2>1 DEF Has
  <2>4. /\ content'[f] = content[f] \o SubSeq(buffer, 1, k)
        /\ \A g \in Files : g # f => content'[g] = content[g]
    BY <1>t, <2>1
  <2>5. \A n : Has(content'[f], n) => Has(content[f], n) \/ Has(buffer, n)
    <3> DEFINE copied == SubSeq(buffer, 1, k)
    <3>1. copied \in Seq(Nat) /\ \A n : Has(copied, n) => Has(buffer, n)
      BY <2>3
    <3>2. content[f] \in Seq(Nat) /\ content'[f] = content[f] \o copied
      BY <1>t, <2>4
    <3> HIDE DEF copied
    <3>3. \A n : Has(content[f] \o copied, n) <=> Has(content[f], n) \/ Has(copied, n)
      BY <3>1, <3>2, HasConcat
    <3> QED  BY <3>1, <3>2, <3>3
  <2>6. \A g \in Files : \A n : Has(content'[g], n) => n <= emitted'
    BY <1>b, <1>c, <2>2, <2>4, <2>5
  <2>7. \A g \in Files \ halfway' : content'[g] = content[g] /\ g \in Files \ halfway
    BY <2>2, <2>4
  <2> QED  BY <1>e, <1>i, <1>q, <1>b, <1>d, <2>2, <2>6, <2>7 DEF BufferWaits
<1>13. CASE UNCHANGED logVars
  BY <1>7, <1>13 DEF logVars
<1> QED  BY <1>1, <1>2, <1>3, <1>4, <1>6, <1>8, <1>9, <1>10, <1>11, <1>12, <1>13
         DEF LogNext, WorkerStep

LEMMA OrderInit == LogInit => OrderInv
<1> SUFFICES ASSUME LogInit PROVE OrderInv
  OBVIOUS
<1>1. /\ emitted = 0 /\ queue = <<>> /\ buffer = <<>>
      /\ \A f \in Files : content[f] = <<>> \/ content[f] = <<0>>
  BY DEF LogInit
<1>2. \A s : Below(s, <<>>) /\ Below(<<>>, s)
  BY DEF Below
<1>3. Ascending(<<>>) /\ Ascending(<<0>>)
  BY DEF Ascending
<1>4. Bounded(<<>>) /\ Bounded(<<0>>)
  BY <1>1 DEF Bounded
<1>5. \A f \in Files : Bounded(content[f]) /\ Ascending(content[f])
  BY <1>1, <1>3, <1>4
<1>6. BufferWaits /\ AllBounded
  BY <1>1, <1>4, <1>5 DEF BufferWaits, AllBounded
<1>7. WaitingInOrder
  BY <1>1, <1>2, <1>3 DEF WaitingInOrder
<1>8. FilesInOrder
  BY <1>1, <1>2, <1>5 DEF FilesInOrder
<1> QED  BY <1>6, <1>7, <1>8 DEF OrderInv

(* The inductive invariant: the channel, the buffer and the files are in order, *)
(* each before the other.                                                  *)
THEOREM OrderCorrect == LogSpec => []OrderInv
BY OrderInit, OrderStep, LogTypeCorrect, PTL DEF LogSpec

(* However far behind the worker is, every log file is in the order in which *)
(* its entries were logged, unless the copying of the buffer to it broke off. *)
THEOREM FilesInOrderCorrect == LogSpec => []FilesInOrder
<1>1. OrderInv => FilesInOrder
  BY DEF OrderInv
<1> QED  BY <1>1, OrderCorrect, PTL

--------------------------------------------------------------------------------
LEMMA InOneFileStep ==
    LogTypeOK /\ OrderInv /\ InOneFile /\ [LogNext]_logVars => InOneFile'
<1> SUFFICES ASSUME LogTypeOK, OrderInv, InOneFile, [LogNext]_logVars
             PROVE  InOneFile'
  OBVIOUS
<1>t. /\ emitted \in Nat /\ queue \in Seq(Nat) /\ buffer \in Seq(Nat)
      /\ file \in Files \cup {NoFile} /\ content \in [Files -> Seq(Nat)]
      /\ \A f \in Files : content[f] \in Seq(Nat)
  BY DEF LogTypeOK
<1>d. \A f \in Files \ halfway :
         /\ \A m, n : Has(content[f], m) /\ Has(buffer, n) => m < n
         /\ \A m, n : Has(content[f], m) /\ Has(queue, n) => m < n
  BY <1>t, BelowHas DEF OrderInv, FilesInOrder
<1>o. \A f, g \in Files \ halfway :
         f # g => \A n \in 1 .. emitted : ~ (Has(content[f], n) /\ Has(content[g], n))
  BY DEF InOneFile, Entries
(* One file gets more, of the channel or of the buffer.                     *)
<1>e. ASSUME NEW f \in Files, \A g \in Files : g # f => content'[g] = content[g],
             \A n : Has(content'[f], n) => Has(content[f], n) \/ Has(queue, n) \/ Has(buffer, n),
             UNCHANGED <<emitted, halfway>>
      PROVE  InOneFile'
  <2>1. ASSUME NEW g \in Files \ halfway, g # f, f \notin halfway, NEW n \in 1 .. emitted,
               Has(content'[f], n), Has(content[g], n)
        PROVE  FALSE
    <3>1. CASE Has(content[f], n)
      BY <1>o, <2>1, <3>1
    <3>2. CASE Has(queue, n) \/ Has(buffer, n)
      <4>1. n < n
        BY <1>d, <2>1, <3>2
      <4> QED  BY <1>t, <4>1
    <3> QED  BY <1>e, <2>1, <3>1, <3>2
  <2> QED  BY <1>e, <1>o, <2>1 DEF InOneFile, Entries
<1>s. ASSUME \A f \in Files \ halfway' : content'[f] = content[f], UNCHANGED emitted,
             halfway \subseteq halfway'
      PROVE  InOneFile'
  BY <1>s, <1>o DEF InOneFile, Entries
<1>1. CASE Logs
  <2>1. UNCHANGED <<content, halfway>> /\ emitted' = emitted + 1
    BY <1>1 DEF Logs
  <2>2. \A f \in Files : \A n : Has(content[f], n) => n <= emitted
    BY <1>t, BoundedHas DEF OrderInv, AllBounded
  <2>3. \A f \in Files : ~ Has(content[f], emitted + 1)
    BY <1>t, <2>2
  <2>4. \A n \in 1 .. emitted' : n \in 1 .. emitted \/ n = emitted + 1
    BY <1>t, <2>1
  <2> QED  BY <1>o, <2>1, <2>3, <2>4 DEF InOneFile, Entries
<1>2. CASE Write /\ file # NoFile
  <2>1. /\ queue # <<>> /\ content' = [content EXCEPT ![file] = Append(content[file], Head(queue))]
        /\ UNCHANGED <<emitted, halfway>> /\ file \in Files
    BY <1>t, <1>2 DEF Write
  <2>2. Head(queue) \in Nat /\ Has(queue, Head(queue))
    BY <1>t, <2>1, HasHeadTail
  <2>3. content'[file] = Append(content[file], Head(queue))
    BY <1>t, <2>1
  <2>4. \A n : Has(content'[file], n) => Has(content[file], n) \/ Has(queue, n)
    BY <1>t, <2>1, <2>2, <2>3, HasAppend
  <2> QED  BY <1>t, <1>e, <2>1, <2>4
<1>3. CASE Write /\ file = NoFile
  BY <1>s, <1>3 DEF Write
<1>4. CASE WriteFails
  BY <1>s, <1>4 DEF WriteFails
<1>5. ASSUME NEW f \in Files, content' = [content EXCEPT ![f] = @ \o buffer],
             UNCHANGED <<emitted, halfway>>
      PROVE  InOneFile'
  <2>1. content'[f] = content[f] \o buffer
    BY <1>t, <1>5
  <2>2. \A n : Has(content'[f], n) => Has(content[f], n) \/ Has(buffer, n)
    BY <1>t, <2>1, HasConcat
  <2> QED  BY <1>t, <1>e, <1>5, <2>2
<1>6. CASE Flush
  BY <1>t, <1>5, <1>6 DEF Flush, Flushed
<1>7. CASE SetNoOutFile
  BY <1>s, <1>7 DEF SetNoOutFile
<1>8. CASE OpenFails
  <2>1. CASE file = NoFile
    BY <1>s, <1>8, <2>1 DEF OpenFails
  <2>2. CASE file # NoFile
    BY <1>t, <1>5, <1>8, <2>2 DEF OpenFails, Flushed
  <2> QED  BY <2>1, <2>2
<1>9. CASE OutDirRemoved
  <2>1. \A f \in Files : \A n : ~ Has(content'[f], n)
    BY <1>9, HasEmpty DEF OutDirRemoved
  <2> QED  BY <1>9, <2>1 DEF InOneFile
<1>10. ASSUME NEW f \in Files, SetOutFile(f)
       PROVE  InOneFile'
  <2>1. CASE file = NoFile
    BY <1>5, <1>10, <2>1 DEF SetOutFile
  <2>2. CASE file # NoFile
    BY <1>t, <1>5, <1>10, <2>2 DEF SetOutFile, Flushed
  <2> QED  BY <2>1, <2>2
<1>11. ASSUME NEW f \in Files, CopyFails(f)
       PROVE  InOneFile'
  <2>1. /\ halfway' = halfway \cup {f} /\ UNCHANGED emitted
        /\ \A g \in Files : g # f => content'[g] = content[g]
    BY <1>t, <1>11 DEF CopyFails
  <2> QED  BY <1>s, <2>1
<1>12. CASE UNCHANGED logVars
  BY <1>s, <1>12 DEF logVars
<1> QED  BY <1>1, <1>2, <1>3, <1>4, <1>6, <1>7, <1>8, <1>9, <1>10, <1>11, <1>12
         DEF LogNext, WorkerStep

(* No entry is in two files, unless the copying of the buffer to one of them *)
(* broke off.                                                              *)
THEOREM InOneFileCorrect == LogSpec => []InOneFile
<1>1. LogInit => InOneFile
  BY DEF LogInit, InOneFile, Entries
<1> QED  BY <1>1, InOneFileStep, LogTypeCorrect, OrderCorrect, PTL DEF LogSpec
================================================================================
