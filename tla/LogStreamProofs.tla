-------------------------- MODULE LogStreamProofs --------------------------
(***************************************************************************)
(* Theorems about LogStream: what a client is sent, and that the           *)
(* broadcaster, the event loop and the handlers together implement         *)
(* LineFeed.                                                               *)
(*                                                                         *)
(* The argument follows a client's pipeline: what it was sent, what its    *)
(* handler holds, its queue, and the callbacks still to run.  An item only *)
(* moves from one of these to the next, so most steps leave the pipeline   *)
(* as it is; the worker appends to it, subscribe fills it with the buffer, *)
(* and a full queue or a dead connection takes one item out (FlowStep).    *)
(* What holds of every pipeline (Ordered) and of one that lost nothing     *)
(* (Gapless) is then kept by these few operations on sequences.            *)
(***************************************************************************)
EXTENDS LogStream, SequenceTheorems, TLAPS

(* Lemmas about sequences: an item that moves along leaves u \o q \o r as  *)
(* it is.                                                                  *)

\* A sequence that is not empty is its head followed by its tail.
LEMMA HeadThenTail ==
    ASSUME NEW S, NEW r \in Seq(S), r # <<>>
    PROVE  /\ Head(r) \in S
           /\ Tail(r) \in Seq(S)
           /\ <<Head(r)>> \in Seq(S)
           /\ r = <<Head(r)>> \o Tail(r)
<1>1. Head(r) \in S /\ Tail(r) \in Seq(S) /\ <<Head(r)>> \in Seq(S)
  BY HeadTailProperties
<1> DEFINE t == <<Head(r)>> \o Tail(r)
<1>2. t \in Seq(S) /\ Len(t) = 1 + Len(Tail(r))
  BY <1>1, ConcatProperties
<1>3. Len(t) = Len(r)
  BY <1>2, HeadTailProperties, LenProperties
<1>4. ASSUME NEW i \in 1..Len(r) PROVE t[i] = r[i]
  BY <1>1, <1>3, HeadTailProperties, ConcatProperties
<1>5. t = r
  BY <1>2, <1>3, <1>4, SeqEqual
<1>. QED BY <1>1, <1>5

\* A push at the end of the callbacks is a push at the end of the pipeline.
LEMMA PipeAppend ==
    ASSUME NEW S, NEW u \in Seq(S), NEW r \in Seq(S), NEW x \in S
    PROVE  u \o Append(r, x) = Append(u \o r, x)
<1>1. Append(r, x) = r \o <<x>> /\ <<x>> \in Seq(S)
  BY AppendIsConcat
<1>2. u \o r \in Seq(S)
  BY ConcatProperties
<1>3. Append(u \o r, x) = (u \o r) \o <<x>>
  BY <1>2, AppendIsConcat
<1>. QED BY <1>1, <1>3, ConcatAssociative

\* The oldest callback stands between the queue and the other callbacks.
LEMMA PipeCallback ==
    ASSUME NEW S, NEW u \in Seq(S), NEW q \in Seq(S), NEW r \in Seq(S), r # <<>>
    PROVE  (u \o q) \o r = ((u \o q) \o <<Head(r)>>) \o Tail(r)
<1> DEFINE x == <<Head(r)>>
           t == Tail(r)
<1>1. x \in Seq(S) /\ t \in Seq(S) /\ r = x \o t
  BY HeadThenTail
<1>2. u \o q \in Seq(S)
  BY ConcatProperties
<1> HIDE DEF x, t
<1>3. ((u \o q) \o x) \o t = (u \o q) \o r
  BY <1>1, <1>2, ConcatAssociative
<1>. QED BY <1>3 DEF x, t

\* get moves the oldest item of the queue into the handler's hand.
LEMMA PipeGet ==
    ASSUME NEW S, NEW s \in Seq(S), NEW q \in Seq(S), q # <<>>
    PROVE  (s \o <<Head(q)>>) \o Tail(q) = (s \o <<>>) \o q
<1>1. Tail(q) \in Seq(S) /\ <<Head(q)>> \in Seq(S) /\ q = <<Head(q)>> \o Tail(q)
  BY HeadThenTail
<1>2. s \o <<>> = s
  BY ConcatEmptySeq
<1>. QED BY <1>1, <1>2, ConcatAssociative

\* A send moves it on to what was sent.
LEMMA PipeSend ==
    ASSUME NEW S, NEW s \in Seq(S), NEW x \in S
    PROVE  Append(s, x) \o <<>> = s \o <<x>>
  BY AppendIsConcat, AppendProperties, ConcatEmptySeq

-----------------------------------------------------------------------------

(* What holds of a pipeline p when `last' lines were printed and the run   *)
(* is over or not.                                                         *)

\* Printed lines in increasing order, with nothing but sentinels after the
\* first sentinel, and no sentinel before the run is over.
Ordered(p, last, over) ==
    /\ p \in Seq(0..last)
    /\ \A i, j \in 1..Len(p) : i < j => p[j] = End \/ (p[i] # End /\ p[i] < p[j])
    /\ \A i \in 1..Len(p) : p[i] = End => over

\* The next line printed, and the sentinel, may be appended.
LEMMA OrderedLine ==
    ASSUME NEW last \in Nat, NEW p, Ordered(p, last, FALSE)
    PROVE  Ordered(Append(p, last + 1), last + 1, FALSE)
<1> DEFINE q == Append(p, last + 1)
<1>1. p \in Seq(0..last + 1)
  BY SeqMonotonic DEF Ordered
<1>2. /\ q \in Seq(0..last + 1)
      /\ Len(q) = Len(p) + 1
      /\ \A i \in 1..Len(p) : q[i] = p[i]
      /\ q[Len(p) + 1] = last + 1
  BY <1>1, AppendProperties
<1>3. \A i \in 1..Len(p) : p[i] \in 0..last /\ p[i] # End
  BY ElementOfSeq DEF Ordered
<1>4. Len(p) \in Nat
  BY <1>1, LenProperties
<1> HIDE DEF q
<1>5. ASSUME NEW i \in 1..Len(q), NEW j \in 1..Len(q), i < j
      PROVE  q[j] = End \/ (q[i] # End /\ q[i] < q[j])
  <2>1. i \in 1..Len(p) /\ q[i] = p[i] /\ p[i] \in 0..last /\ p[i] # End
    BY ONLY <1>2, <1>3, <1>4, <1>5
  <2>2. CASE j = Len(p) + 1
    BY ONLY <1>2, <2>1, <2>2, last \in Nat
  <2>3. CASE j # Len(p) + 1
    <3>1. j \in 1..Len(p)
      BY ONLY <1>2, <1>4, <1>5, <2>3
    <3>2. p[j] = End \/ (p[i] # End /\ p[i] < p[j])
      BY <1>5, <2>1, <3>1 DEF Ordered
    <3>. QED BY ONLY <1>2, <2>1, <3>1, <3>2
  <2>. QED BY ONLY <2>2, <2>3
<1>6. ASSUME NEW i \in 1..Len(q) PROVE q[i] # End
  <2>1. CASE i = Len(p) + 1
    BY ONLY <1>2, <2>1, last \in Nat DEF End
  <2>2. CASE i # Len(p) + 1
    <3>1. i \in 1..Len(p)
      BY ONLY <1>2, <1>4, <1>6, <2>2
    <3>. QED BY ONLY <1>2, <1>3, <3>1
  <2>. QED BY ONLY <2>1, <2>2
<1>7. Ordered(q, last + 1, FALSE)
  BY ONLY <1>2, <1>5, <1>6 DEF Ordered
<1>. QED BY <1>7 DEF q

LEMMA OrderedEnd ==
    ASSUME NEW last \in Nat, NEW p, NEW over \in BOOLEAN,
           Ordered(p, last, over)
    PROVE  Ordered(Append(p, End), last, TRUE)
<1> DEFINE q == Append(p, End)
<1>1. p \in Seq(0..last)
  BY DEF Ordered
<1>2. /\ q \in Seq(0..last)
      /\ Len(q) = Len(p) + 1
      /\ \A i \in 1..Len(p) : q[i] = p[i]
      /\ q[Len(p) + 1] = End
  BY <1>1, AppendProperties DEF End
<1>4. Len(p) \in Nat
  BY <1>1, LenProperties
<1> HIDE DEF q
<1>5. ASSUME NEW i \in 1..Len(q), NEW j \in 1..Len(q), i < j
      PROVE  q[j] = End \/ (q[i] # End /\ q[i] < q[j])
  <2>1. CASE j = Len(p) + 1
    BY ONLY <1>2, <2>1
  <2>2. CASE j # Len(p) + 1
    <3>1. i \in 1..Len(p) /\ j \in 1..Len(p)
      BY ONLY <1>2, <1>4, <1>5, <2>2
    <3>2. p[j] = End \/ (p[i] # End /\ p[i] < p[j])
      BY <1>5, <3>1 DEF Ordered
    <3>. QED BY ONLY <1>2, <3>1, <3>2
  <2>. QED BY ONLY <2>1, <2>2
<1>6. Ordered(q, last, TRUE)
  BY ONLY <1>2, <1>5 DEF Ordered
<1>. QED BY <1>6 DEF q

\* Time may pass.
LEMMA OrderedLater ==
    ASSUME NEW last \in Nat, NEW p, NEW over \in BOOLEAN,
           Ordered(p, last, over)
    PROVE  Ordered(p, last + 1, over) /\ Ordered(p, last, TRUE)
  BY SeqMonotonic DEF Ordered

\* A sequence of elements of T is a sequence over T.
LEMMA SeqOfElements ==
    ASSUME NEW S, NEW T, NEW s \in Seq(S), \A i \in 1..Len(s) : s[i] \in T
    PROVE  s \in Seq(T)
<1>1. Len(s) \in Nat /\ DOMAIN s = 1..Len(s) /\ s \in [1..Len(s) -> S]
  BY LenProperties
<1>2. s \in [1..Len(s) -> T]
  BY <1>1
<1>. QED BY <1>1, <1>2, SeqDef

\* Any one item may be lost.
LEMMA OrderedWithout ==
    ASSUME NEW S, NEW s \in Seq(S), NEW x \in S, NEW t \in Seq(S),
           NEW last \in Nat, NEW over \in BOOLEAN,
           Ordered((s \o <<x>>) \o t, last, over)
    PROVE  Ordered(s \o t, last, over)
<1> DEFINE q == s \o <<x>>
           p == q \o t
           r == s \o t
<1>1. /\ q \in Seq(S) /\ Len(q) = Len(s) + 1
      /\ \A i \in 1..Len(s) : q[i] = s[i]
  BY ConcatProperties
<1>2. Len(s) \in Nat /\ Len(t) \in Nat
  BY LenProperties
<1>3. /\ Len(p) = Len(s) + 1 + Len(t)
      /\ \A i \in 1..Len(p) : p[i] = IF i <= Len(q) THEN q[i] ELSE t[i - Len(q)]
  BY <1>1, ConcatProperties
<1>4. /\ r \in Seq(S) /\ Len(r) = Len(s) + Len(t)
      /\ \A i \in 1..Len(r) : r[i] = IF i <= Len(s) THEN s[i] ELSE t[i - Len(s)]
  BY ConcatProperties
<1>5. Ordered(p, last, over)
  OBVIOUS
<1> HIDE DEF q, p, r
<1>10. Len(p) = Len(s) + 1 + Len(t) /\ Len(r) = Len(s) + Len(t)
  BY ONLY <1>3, <1>4
<1>6. ASSUME NEW i \in 1..Len(r)
      PROVE  r[i] = IF i <= Len(s) THEN p[i] ELSE p[i + 1]
  <2>1. CASE i <= Len(s)
    <3>1. i \in 1..Len(s) /\ i \in 1..Len(p) /\ i <= Len(q)
      BY ONLY <1>1, <1>2, <1>6, <1>10, <2>1
    <3>2. r[i] = s[i]
      BY ONLY <1>4, <1>6, <2>1
    <3>. QED BY ONLY <1>1, <1>3, <2>1, <3>1, <3>2
  <2>2. CASE ~ (i <= Len(s))
    <3>1. /\ i + 1 \in 1..Len(p) /\ ~ (i + 1 <= Len(q))
          /\ (i + 1) - Len(q) = i - Len(s)
      BY ONLY <1>1, <1>2, <1>6, <1>10, <2>2
    <3>2. p[i + 1] = t[(i + 1) - Len(q)]
      BY ONLY <1>3, <3>1
    <3>3. r[i] = t[i - Len(s)]
      BY ONLY <1>4, <1>6, <2>2
    <3>. QED BY ONLY <2>2, <3>1, <3>2, <3>3
  <2>. QED BY ONLY <2>1, <2>2
<1>7. ASSUME NEW i \in 1..Len(r), NEW j \in 1..Len(r), i < j
      PROVE  r[j] = End \/ (r[i] # End /\ r[i] < r[j])
  <2> DEFINE k == IF i <= Len(s) THEN i ELSE i + 1
             l == IF j <= Len(s) THEN j ELSE j + 1
  <2>1. k \in 1..Len(p) /\ l \in 1..Len(p) /\ k < l
    BY ONLY <1>2, <1>7, <1>10
  <2>2. r[i] = p[k] /\ r[j] = p[l]
    BY <1>6
  <2> HIDE DEF k, l
  <2>3. p[l] = End \/ (p[k] # End /\ p[k] < p[l])
    BY ONLY <1>5, <2>1 DEF Ordered
  <2>. QED BY ONLY <2>2, <2>3
<1>8. ASSUME NEW i \in 1..Len(r), r[i] = End PROVE over
  <2>1. PICK k \in 1..Len(p) : r[i] = p[k]
    <3>1. i \in 1..Len(p) /\ i + 1 \in 1..Len(p)
      BY ONLY <1>2, <1>8, <1>10
    <3>. QED BY ONLY <1>6, <1>8, <3>1
  <2>. QED BY ONLY <1>5, <1>8, <2>1 DEF Ordered
<1>9. ASSUME NEW i \in 1..Len(r) PROVE r[i] \in 0..last
  <2>1. PICK k \in 1..Len(p) : r[i] = p[k]
    <3>1. i \in 1..Len(p) /\ i + 1 \in 1..Len(p)
      BY ONLY <1>2, <1>9, <1>10
    <3>. QED BY ONLY <1>6, <1>9, <3>1
  <2>2. p \in Seq(0..last)
    BY <1>5 DEF Ordered
  <2>. QED BY ONLY <2>1, <2>2, ElementOfSeq
<1>11. r \in Seq(0..last)
  BY ONLY <1>4, <1>9, SeqOfElements
<1>12. Ordered(r, last, over)
  BY ONLY <1>7, <1>8, <1>11 DEF Ordered
<1>. QED BY <1>12 DEF r

\* The last n lines printed, each once and in order, and then sentinels, at
\* least one exactly when the run is over; all lines, or no fewer than the
\* buffer holds.
Gapless(p, n, last, over) ==
    /\ n \in 0..Len(p)
    /\ n <= last
    /\ \A i \in 1..n : p[i] = last - n + i
    /\ \A i \in n+1..Len(p) : p[i] = End
    /\ n < Len(p) <=> over
    /\ n < last => n >= BufferMax

\* Appending the next line, or a sentinel, leaves no gap.
LEMMA GaplessLine ==
    ASSUME NEW p, NEW last \in Nat, p \in Seq(0..last), NEW n,
           Gapless(p, n, last, FALSE)
    PROVE  Gapless(Append(p, last + 1), n + 1, last + 1, FALSE)
<1> DEFINE q == Append(p, last + 1)
<1>1. p \in Seq(0..last + 1)
  BY SeqMonotonic
<1>2. /\ Len(q) = Len(p) + 1
      /\ \A i \in 1..Len(p) : q[i] = p[i]
      /\ q[Len(p) + 1] = last + 1
  BY <1>1, AppendProperties
<1>3. Len(p) \in Nat
  BY LenProperties
<1> HIDE DEF q
<1>4. n = Len(p)
  BY <1>3 DEF Gapless
<1>5. ASSUME NEW i \in 1..n + 1 PROVE q[i] = (last + 1) - (n + 1) + i
  <2>1. CASE i = n + 1
    BY <1>2, <1>3, <1>4, <2>1
  <2>2. CASE i # n + 1
    <3>1. i \in 1..n /\ i \in 1..Len(p)
      BY <1>3, <1>4, <2>2
    <3>2. p[i] = last - n + i
      BY <3>1 DEF Gapless
    <3>3. q[i] = p[i]
      BY <1>2, <3>1
    <3>. QED BY <1>3, <1>4, <3>1, <3>2, <3>3
  <2>. QED BY <2>1, <2>2
<1>6. Gapless(q, n + 1, last + 1, FALSE)
  BY <1>2, <1>3, <1>4, <1>5, LogStreamAssumption DEF Gapless
<1>. QED BY <1>6 DEF q

LEMMA GaplessEnd ==
    ASSUME NEW p, NEW last \in Nat, p \in Seq(0..last), NEW n,
           NEW over \in BOOLEAN,
           Gapless(p, n, last, over)
    PROVE  Gapless(Append(p, End), n, last, TRUE)
<1> DEFINE q == Append(p, End)
<1>2. /\ Len(q) = Len(p) + 1
      /\ \A i \in 1..Len(p) : q[i] = p[i]
      /\ q[Len(p) + 1] = End
  BY AppendProperties DEF End
<1>3. Len(p) \in Nat
  BY LenProperties
<1> HIDE DEF q
<1>4. n \in 0..Len(p) /\ n < Len(q) /\ n \in 0..Len(q)
  BY <1>2, <1>3 DEF Gapless
<1>5. ASSUME NEW i \in n + 1..Len(q) PROVE q[i] = End
  <2>1. CASE i = Len(p) + 1
    BY <1>2, <2>1
  <2>2. CASE i # Len(p) + 1
    <3>1. i \in n + 1..Len(p) /\ i \in 1..Len(p)
      BY <1>2, <1>3, <1>4, <2>2
    <3>2. p[i] = End
      BY <3>1 DEF Gapless
    <3>. QED BY <1>2, <3>1, <3>2
  <2>. QED BY <2>1, <2>2
<1>6. Gapless(q, n, last, TRUE)
  BY <1>2, <1>3, <1>4, <1>5 DEF Gapless
<1>. QED BY <1>6 DEF q


-----------------------------------------------------------------------------

(* The inductive invariant.                                                *)

\* The buffer holds the latest lines, as many as it may.
Buffered ==
    channel # "removed" =>
        /\ Len(buffer) = IF printed < BufferMax THEN printed ELSE BufferMax
        /\ \A i \in 1..Len(buffer) : buffer[i] = printed - Len(buffer) + i

\* Who is registered has a handler; a handler that may still be sent lines
\* is registered; who has not come yet has nothing.
Registered ==
    \A c \in Clients :
        /\ c \in subscribers => handler[c] \in Pending
        /\ handler[c] \in Pending /\ ~Over => c \in subscribers
        /\ handler[c] \in {"idle", "found"} =>
               sent[c] = <<>> /\ queue[c] = <<>> /\ ready[c] = <<>>

\* Whatever was lost, what a client has is in order.
InOrder == \A c \in Clients : Ordered(Pipeline(c), printed, Over)

StreamInv == TypeOK /\ Buffered /\ Registered /\ InOrder /\ NoGap

\* Trim keeps the last BufferMax elements.
LEMMA TrimProperties ==
    ASSUME NEW S, NEW s \in Seq(S)
    PROVE  /\ Trim(s) \in Seq(S)
           /\ Len(Trim(s)) = IF Len(s) > BufferMax THEN BufferMax ELSE Len(s)
           /\ \A i \in 1..Len(Trim(s)) :
                  Trim(s)[i] = s[Len(s) - Len(Trim(s)) + i]
<1>1. Len(s) \in Nat /\ BufferMax \in Nat \ {0}
  BY LenProperties, LogStreamAssumption
<1>2. CASE Len(s) > BufferMax
  <2> DEFINE m == Len(s) - BufferMax + 1
  <2>1. m \in Int /\ m \in 1..Len(s) /\ \A i \in m..Len(s) : i \in 1..Len(s)
    BY <1>1, <1>2
  <2>2. \A i \in m..Len(s) : s[i] \in S
    BY <2>1, ElementOfSeq
  <2>3. /\ SubSeq(s, m, Len(s)) \in Seq(S)
        /\ Len(SubSeq(s, m, Len(s))) = Len(s) - m + 1
        /\ \A i \in 1..Len(s) - m + 1 : SubSeq(s, m, Len(s))[i] = s[m + i - 1]
    BY <1>1, <2>1, <2>2, SubSeqProperties
  <2>4. Trim(s) = SubSeq(s, m, Len(s))
    BY <1>2 DEF Trim, Recent
  <2>5. Len(s) - m + 1 = BufferMax
    BY <1>1
  <2>6. /\ Trim(s) \in Seq(S) /\ Len(Trim(s)) = BufferMax
        /\ \A i \in 1..BufferMax : Trim(s)[i] = s[m + i - 1]
    BY ONLY <2>3, <2>4, <2>5
  <2>7. \A i \in 1..BufferMax : m + i - 1 = Len(s) - BufferMax + i
    BY <1>1
  <2>. QED BY ONLY <1>2, <2>6, <2>7
<1>3. CASE ~ (Len(s) > BufferMax)
  <2>1. Trim(s) = s
    BY <1>3 DEF Trim
  <2>2. \A i \in 1..Len(s) : Len(s) - Len(s) + i = i
    BY <1>1
  <2>. QED BY ONLY <1>3, <2>1, <2>2, s \in Seq(S)
<1>. QED BY <1>2, <1>3

LEMMA PushType ==
    ASSUME TypeOK, NEW x \in Items, Push(x)
    PROVE  ready' \in [Clients -> Seq(Items)]
<1>1. \A c \in Clients : Append(ready[c], x) \in Seq(Items)
  BY AppendProperties DEF TypeOK
<1>. QED BY <1>1 DEF TypeOK, Push

LEMMA TypeStep ==
    ASSUME TypeOK, [Next]_vars
    PROVE  TypeOK'
<1>1. CASE CreateChannel
  BY <1>1 DEF CreateChannel, TypeOK, Items, Pending
<1>2. CASE PublishLine
  <2>1. printed + 1 \in 1..MaxLines /\ printed + 1 \in Items
    BY <1>2, LogStreamAssumption DEF PublishLine, TypeOK, Items
  <2>2. buffer' \in Seq(1..MaxLines)
    BY <1>2, <2>1, AppendProperties, TrimProperties DEF PublishLine, TypeOK
  <2>3. ready' \in [Clients -> Seq(Items)]
    BY <1>2, <2>1, PushType DEF PublishLine
  <2>. QED BY <1>2, <2>1, <2>2, <2>3 DEF PublishLine, TypeOK, Items
<1>3. CASE CloseChannel
  <2>1. End \in Items
    BY LogStreamAssumption DEF End, Items
  <2>2. ready' \in [Clients -> Seq(Items)]
    BY <1>3, <2>1, PushType DEF CloseChannel
  <2>3. closes' \in 0..MaxCloses
    BY <1>3, LogStreamAssumption DEF CloseChannel, TypeOK
  <2>. QED BY <1>3, <2>2, <2>3 DEF CloseChannel, TypeOK
<1>4. CASE Cleanup
  <2>1. <<>> \in Seq(1..MaxLines)
    BY EmptySeq
  <2>. QED BY <1>4, <2>1 DEF Cleanup, TypeOK
<1>5. ASSUME NEW c \in Clients, Callback(c) PROVE TypeOK'
  <2>1. /\ ready[c] \in Seq(Items) /\ queue[c] \in Seq(Items) /\ ready[c] # <<>>
    BY <1>5 DEF Callback, TypeOK
  <2>2. /\ Tail(ready[c]) \in Seq(Items)
        /\ Append(queue[c], Head(ready[c])) \in Seq(Items)
    BY <2>1, HeadTailProperties, AppendProperties
  <2>3. ready' \in [Clients -> Seq(Items)]
    BY <1>5, <2>2 DEF Callback, TypeOK
  <2>4. queue' \in [Clients -> Seq(Items)]
    BY <1>5, <2>2 DEF Callback, TypeOK
  <2>5. dropped' \subseteq Clients
    BY <1>5 DEF Callback, TypeOK
  <2>. QED BY <1>5, <2>3, <2>4, <2>5 DEF Callback, TypeOK, pubVars
<1>6. ASSUME NEW c \in Clients, FindChannel(c) PROVE TypeOK'
  BY <1>6 DEF FindChannel, TypeOK, pubVars
<1>7. ASSUME NEW c \in Clients, Subscribe(c) PROVE TypeOK'
  <2>1. buffer \in Seq(Items) /\ Append(buffer, End) \in Seq(Items)
    <3>1. buffer \in Seq(Items)
      BY SeqMonotonic, LogStreamAssumption DEF TypeOK, Items
    <3>2. End \in Items
      BY LogStreamAssumption DEF End, Items
    <3>. QED BY <3>1, <3>2, AppendProperties
  <2>2. /\ queue' \in [Clients -> Seq(Items)]
        /\ subscribers' \subseteq Clients
    <3>1. CASE channel = "open"
      BY <1>7, <2>1, <3>1 DEF Subscribe, TypeOK
    <3>2. CASE channel = "finished"
      BY <1>7, <2>1, <3>2 DEF Subscribe, TypeOK
    <3>3. CASE channel \notin {"open", "finished"}
      BY <1>7, <3>3 DEF Subscribe, TypeOK
    <3>. QED BY <3>1, <3>2, <3>3
  <2>3. handler' \in [Clients -> {"idle", "found", "refused", "ended"}
                                       \union Pending]
    BY <1>7 DEF Subscribe, TypeOK, Pending
  <2>. QED BY <1>7, <2>2, <2>3 DEF Subscribe, TypeOK, pubVars
<1>8. ASSUME NEW c \in Clients, Get(c) PROVE TypeOK'
  <2>1. /\ queue[c] \in Seq(Items) /\ queue[c] # <<>>
    BY <1>8 DEF Get, TypeOK
  <2>2. Head(queue[c]) \in Items /\ Tail(queue[c]) \in Seq(Items)
    BY <2>1, HeadTailProperties
  <2>. QED BY <1>8, <2>2 DEF Get, TypeOK, Pending, pubVars
<1>9. ASSUME NEW c \in Clients, Send(c) PROVE TypeOK'
  <2>1. CASE handler[c] = "sending" /\ item[c] = End
    BY <1>9, <2>1 DEF Send, Leave, TypeOK, pubVars
  <2>2. CASE handler[c] = "meta"
    BY <1>9, <2>2 DEF Send, TypeOK, Pending, pubVars
  <2>3. CASE handler[c] = "sending" /\ item[c] # End
    <3>1. item[c] \in 1..MaxLines
      BY <2>3, LogStreamAssumption DEF TypeOK, Items, End
    <3>2. Append(sent[c], item[c]) \in Seq(1..MaxLines)
      BY <3>1, AppendProperties DEF TypeOK
    <3>3. sent' \in [Clients -> Seq(1..MaxLines)]
      BY <1>9, <2>3, <3>2 DEF Send, TypeOK
    <3>. QED BY <1>9, <2>3, <3>3 DEF Send, TypeOK, Pending, pubVars
  <2>. QED BY <1>9, <2>1, <2>2, <2>3 DEF Send
<1>10. ASSUME NEW c \in Clients, SendFails(c) PROVE TypeOK'
  BY <1>10 DEF SendFails, Leave, TypeOK, pubVars
<1>11. ASSUME NEW c \in Clients, Disconnect(c) PROVE TypeOK'
  BY <1>11 DEF Disconnect, TypeOK, pubVars
<1>12. CASE UNCHANGED vars
  BY <1>12 DEF TypeOK, vars, pubVars
<1>. QED BY <1>1, <1>2, <1>3, <1>4, <1>5, <1>6, <1>7, <1>8, <1>9, <1>10, <1>11,
            <1>12 DEF Next, Publisher, Handler

LEMMA BufferedStep ==
    ASSUME TypeOK, Buffered, [Next]_vars
    PROVE  Buffered'
<1>1. CASE CreateChannel
  BY <1>1 DEF CreateChannel, Buffered
<1>2. CASE PublishLine
  <2> DEFINE s == Append(buffer, printed + 1)
  <2>1. /\ printed \in Nat /\ BufferMax \in Nat \ {0} /\ channel # "removed"
        /\ printed + 1 \in 1..MaxLines /\ buffer \in Seq(1..MaxLines)
        /\ Len(buffer) \in Nat
    BY <1>2, LogStreamAssumption, LenProperties DEF PublishLine, TypeOK
  <2>2. /\ s \in Seq(1..MaxLines) /\ Len(s) = Len(buffer) + 1
        /\ \A i \in 1..Len(buffer) : s[i] = buffer[i]
        /\ s[Len(buffer) + 1] = printed + 1
    BY <2>1, AppendProperties
  <2> HIDE DEF s
  <2>3. /\ Len(buffer) = IF printed < BufferMax THEN printed ELSE BufferMax
        /\ \A i \in 1..Len(buffer) : buffer[i] = printed - Len(buffer) + i
    BY <2>1 DEF Buffered
  <2>4. ASSUME NEW i \in 1..Len(s) PROVE s[i] = (printed + 1) - Len(s) + i
    <3>1. CASE i = Len(buffer) + 1
      BY ONLY <2>1, <2>2, <3>1
    <3>2. CASE i # Len(buffer) + 1
      <4>1. i \in 1..Len(buffer)
        BY ONLY <2>1, <2>2, <2>4, <3>2
      <4>. QED BY ONLY <2>1, <2>2, <2>3, <4>1
    <3>. QED BY <3>1, <3>2
  <2> DEFINE t == Trim(s)
  <2>5. /\ Len(t) = IF Len(s) > BufferMax THEN BufferMax ELSE Len(s)
        /\ \A i \in 1..Len(t) : t[i] = s[Len(s) - Len(t) + i]
    BY <2>2, TrimProperties
  <2>6. buffer' = t /\ printed' = printed + 1
    BY <1>2 DEF PublishLine, s
  <2> HIDE DEF t
  <2>7. Len(t) = IF printed + 1 < BufferMax THEN printed + 1 ELSE BufferMax
    BY ONLY <2>1, <2>2, <2>3, <2>5
  <2>8. ASSUME NEW i \in 1..Len(t) PROVE t[i] = (printed + 1) - Len(t) + i
    <3>1. Len(s) - Len(t) + i \in 1..Len(s)
      BY ONLY <2>1, <2>2, <2>5, <2>8
    <3>2. t[i] = (printed + 1) - Len(s) + (Len(s) - Len(t) + i)
      BY ONLY <2>4, <2>5, <2>8, <3>1
    <3>. QED BY ONLY <2>1, <2>2, <2>5, <2>8, <3>2
  <2>. QED BY ONLY <2>6, <2>7, <2>8 DEF Buffered
<1>3. CASE CloseChannel
  BY <1>3 DEF CloseChannel, Buffered
<1>4. CASE Cleanup
  BY <1>4 DEF Cleanup, Buffered
<1>5. CASE UNCHANGED <<channel, buffer, printed>>
  BY <1>5 DEF Buffered
<1>6. CASE \E c \in Clients : Callback(c) \/ FindChannel(c) \/ Subscribe(c)
                               \/ Handler(c) \/ Disconnect(c)
  BY <1>5, <1>6 DEF Callback, FindChannel, Subscribe, Handler, Get, Send,
                    SendFails, Disconnect, pubVars
<1>7. CASE UNCHANGED vars
  BY <1>5, <1>7 DEF vars, pubVars
<1>. QED BY <1>1, <1>2, <1>3, <1>4, <1>6, <1>7 DEF Next, Publisher

LEMMA RegisteredStep ==
    ASSUME TypeOK, Registered, [Next]_vars
    PROVE  Registered'
<1> USE DEF Registered
<1>1. CASE CreateChannel
  BY <1>1 DEF CreateChannel, Over
<1>2. ASSUME NEW x, Push(x), UNCHANGED <<subscribers, queue, handler, sent>>,
             Over => Over'
      PROVE  Registered'
  <2>1. ASSUME NEW c \in Clients, handler[c] \in {"idle", "found"}
        PROVE  ready'[c] = ready[c]
    BY <1>2, <2>1 DEF Push, Pending
  <2>. QED BY <1>2, <2>1
<1>3. CASE PublishLine
  BY <1>2, <1>3 DEF PublishLine, Over
<1>4. CASE CloseChannel
  BY <1>2, <1>4 DEF CloseChannel, Over
<1>5. CASE Cleanup
  BY <1>5 DEF Cleanup, Over
<1>6. ASSUME NEW c \in Clients, Callback(c) PROVE Registered'
  BY <1>6 DEF Callback, TypeOK, Over, pubVars
<1>7. ASSUME NEW c \in Clients, FindChannel(c) PROVE Registered'
  BY <1>7 DEF FindChannel, TypeOK, Over, pubVars, Pending
<1>8. ASSUME NEW c \in Clients, Subscribe(c) PROVE Registered'
  <2>1. CASE channel = "open"
    BY <1>8, <2>1 DEF Subscribe, TypeOK, Over, pubVars, Pending
  <2>2. CASE channel = "finished"
    BY <1>8, <2>2 DEF Subscribe, TypeOK, Over, pubVars, Pending
  <2>3. CASE channel \notin {"open", "finished"}
    BY <1>8, <2>3 DEF Subscribe, TypeOK, Over, pubVars, Pending
  <2>. QED BY <2>1, <2>2, <2>3
<1>9. ASSUME NEW c \in Clients, Get(c) PROVE Registered'
  BY <1>9 DEF Get, TypeOK, Over, pubVars, Pending
<1>10. ASSUME NEW c \in Clients, Send(c) PROVE Registered'
  <2>1. CASE handler[c] = "sending" /\ item[c] = End
    BY <1>10, <2>1 DEF Send, Leave, TypeOK, Over, pubVars, Pending
  <2>2. CASE ~ (handler[c] = "sending" /\ item[c] = End)
    BY <1>10, <2>2 DEF Send, TypeOK, Over, pubVars, Pending
  <2>. QED BY <2>1, <2>2
<1>11. ASSUME NEW c \in Clients, SendFails(c) PROVE Registered'
  BY <1>11 DEF SendFails, Leave, TypeOK, Over, pubVars, Pending
<1>12. ASSUME NEW c \in Clients, Disconnect(c) PROVE Registered'
  BY <1>12 DEF Disconnect, TypeOK, Over, pubVars, Pending
<1>13. CASE UNCHANGED vars
  BY <1>13 DEF vars, pubVars, Over
<1>. QED BY <1>1, <1>3, <1>4, <1>5, <1>6, <1>7, <1>8, <1>9, <1>10, <1>11, <1>12,
            <1>13 DEF Next, Publisher, Handler

-----------------------------------------------------------------------------

(* What a step can do to the pipeline of c.                                *)

\* Nothing.
Kept(c) ==
    /\ Pipeline(c)' = Pipeline(c)
    /\ printed' = printed /\ Over' = Over
    /\ dropped \subseteq dropped'
    /\ handler'[c] \in Pending => handler[c] \in Pending

\* A line is published.
Extended(c) ==
    /\ printed' = printed + 1 /\ ~Over /\ ~Over'
    /\ Pipeline(c)' = IF c \in subscribers THEN Append(Pipeline(c), printed + 1)
                                           ELSE Pipeline(c)
    /\ UNCHANGED <<handler, dropped>>

\* The channel is closed, once more perhaps.
Ended(c) ==
    /\ printed' = printed /\ Over'
    /\ Pipeline(c)' = IF c \in subscribers THEN Append(Pipeline(c), End)
                                           ELSE Pipeline(c)
    /\ UNCHANGED <<handler, dropped>>

\* c subscribes.
Joined(c) ==
    /\ channel # "removed"
    /\ printed' = printed /\ Over' = Over
    /\ Pipeline(c)' = IF Over THEN Append(buffer, End) ELSE buffer
    /\ UNCHANGED dropped

\* One item is lost: the queue was full, or the handler is leaving.
Shortened(c) ==
    /\ \E s, t \in Seq(Items), x \in Items :
           Pipeline(c) = (s \o <<x>>) \o t /\ Pipeline(c)' = s \o t
    /\ printed' = printed /\ Over' = Over
    /\ c \in dropped' \/ handler'[c] \notin Pending

\* The parts of a pipeline are sequences of items.
LEMMA PipeType ==
    ASSUME TypeOK, NEW c \in Clients
    PROVE  /\ sent[c] \in Seq(Items) /\ InHand(c) \in Seq(Items)
           /\ queue[c] \in Seq(Items) /\ ready[c] \in Seq(Items)
           /\ sent[c] \o InHand(c) \in Seq(Items)
           /\ sent[c] \o InHand(c) \o queue[c] \in Seq(Items)
           /\ Pipeline(c) \in Seq(Items)
<1>1. sent[c] \in Seq(Items)
  BY SeqMonotonic, LogStreamAssumption DEF TypeOK, Items
<1>2. InHand(c) \in Seq(Items)
  BY DEF InHand, TypeOK
<1>3. queue[c] \in Seq(Items) /\ ready[c] \in Seq(Items)
  BY DEF TypeOK
<1>4. sent[c] \o InHand(c) \in Seq(Items)
  BY <1>1, <1>2, ConcatProperties
<1>5. sent[c] \o InHand(c) \o queue[c] \in Seq(Items)
  BY <1>3, <1>4, ConcatProperties
<1>6. Pipeline(c) \in Seq(Items)
  BY <1>3, <1>5, ConcatProperties DEF Pipeline
<1>. QED BY <1>1, <1>2, <1>3, <1>4, <1>5, <1>6

\* A step that leaves the four parts of c's pipeline alone.
LEMMA Untouched ==
    ASSUME NEW c \in Clients, sent'[c] = sent[c], queue'[c] = queue[c],
           ready'[c] = ready[c], item'[c] = item[c],
           handler'[c] = "sending" <=> handler[c] = "sending"
    PROVE  Pipeline(c)' = Pipeline(c)
  BY DEF Pipeline, InHand

\* A push appends to the pipelines of the subscribers.
LEMMA PushFlows ==
    ASSUME TypeOK, NEW x \in Items, Push(x), NEW c \in Clients,
           UNCHANGED <<sent, queue, handler, item>>
    PROVE  Pipeline(c)' = IF c \in subscribers THEN Append(Pipeline(c), x)
                                               ELSE Pipeline(c)
<1>1. ready'[c] = IF c \in subscribers THEN Append(ready[c], x) ELSE ready[c]
  BY DEF Push
<1> DEFINE u == sent[c] \o InHand(c) \o queue[c]
<1>2. u \in Seq(Items) /\ ready[c] \in Seq(Items)
  BY PipeType
<1>3. Pipeline(c) = u \o ready[c] /\ Pipeline(c)' = u \o ready'[c]
  BY DEF Pipeline, InHand
<1> HIDE DEF u
<1>4. u \o Append(ready[c], x) = Append(u \o ready[c], x)
  BY <1>2, PipeAppend
<1>. QED BY <1>1, <1>3, <1>4

\* No step does anything else to a pipeline.
LEMMA FlowStep ==
    ASSUME TypeOK, Registered, [Next]_vars, NEW c \in Clients
    PROVE  Kept(c) \/ Extended(c) \/ Ended(c) \/ Joined(c) \/ Shortened(c)
<1>1. CASE CreateChannel
  BY <1>1, Untouched DEF CreateChannel, Kept, Over
<1>2. CASE PublishLine
  <2>1. printed + 1 \in Items
    BY <1>2, LogStreamAssumption DEF PublishLine, TypeOK, Items
  <2>. QED BY <1>2, <2>1, PushFlows DEF PublishLine, Extended, Over
<1>3. CASE CloseChannel
  <2>1. End \in Items
    BY LogStreamAssumption DEF End, Items
  <2>. QED BY <1>3, <2>1, PushFlows DEF CloseChannel, Ended, Over
<1>4. CASE Cleanup
  BY <1>4, Untouched DEF Cleanup, Kept, Over
<1>5. ASSUME NEW d \in Clients, Callback(d) PROVE Kept(c) \/ Shortened(c)
  <2>1. CASE d # c
    <3>1. Pipeline(c)' = Pipeline(c)
      BY <1>5, <2>1, Untouched DEF Callback, TypeOK
    <3>. QED BY <1>5, <3>1 DEF Callback, Kept, Over, pubVars
  <2>2. CASE d = c
    <3> DEFINE u == sent[c] \o InHand(c)
    <3>1. /\ u \in Seq(Items) /\ queue[c] \in Seq(Items) /\ ready[c] \in Seq(Items)
          /\ u \o queue[c] \in Seq(Items) /\ ready[c] # <<>>
      BY <1>5, <2>2, PipeType DEF Callback
    <3>2. Head(ready[c]) \in Items /\ Tail(ready[c]) \in Seq(Items)
      BY <3>1, HeadTailProperties
    <3>3. ready'[c] = Tail(ready[c])
      BY <1>5, <2>2 DEF Callback, TypeOK
    <3>4. Pipeline(c) = u \o queue[c] \o ready[c]
      BY DEF Pipeline
    <3>5. Pipeline(c)' = u \o queue'[c] \o ready'[c]
      BY <1>5 DEF Callback, Pipeline, InHand
    <3> HIDE DEF u
    <3>8. (u \o queue[c]) \o ready[c]
             = ((u \o queue[c]) \o <<Head(ready[c])>>) \o Tail(ready[c])
      <4> DEFINE q == queue[c]
                 r == ready[c]
      <4>1. u \in Seq(Items) /\ q \in Seq(Items) /\ r \in Seq(Items) /\ r # <<>>
        BY <3>1
      <4> HIDE DEF q, r
      <4>2. (u \o q) \o r = ((u \o q) \o <<Head(r)>>) \o Tail(r)
        BY <4>1, PipeCallback
      <4>. QED BY <4>2 DEF q, r
    <3>9. <<Head(ready[c])>> \in Seq(Items)
      BY <3>2
    <3>10. u \o (queue[c] \o <<Head(ready[c])>>)
              = (u \o queue[c]) \o <<Head(ready[c])>>
      <4> DEFINE q == queue[c]
                 h == <<Head(ready[c])>>
      <4>1. u \in Seq(Items) /\ q \in Seq(Items) /\ h \in Seq(Items)
        BY <3>1, <3>9
      <4> HIDE DEF q, h
      <4>2. u \o (q \o h) = (u \o q) \o h
        BY <4>1, ConcatAssociative
      <4>. QED BY <4>2 DEF q, h
    <3>6. CASE Len(queue[c]) < QueueMax
      <4>3. queue'[c] = Append(queue[c], Head(ready[c])) /\ dropped' = dropped
        BY <1>5, <2>2, <3>6 DEF Callback, TypeOK
      <4>1. queue'[c] = queue[c] \o <<Head(ready[c])>> /\ dropped' = dropped
        BY <3>1, <3>2, <4>3, AppendIsConcat
      <4>2. Pipeline(c)' = Pipeline(c)
        BY ONLY <3>3, <3>4, <3>5, <3>8, <3>10, <4>1
      <4>. QED BY <1>5, <4>1, <4>2 DEF Callback, Kept, Over, pubVars
    <3>7. CASE ~ (Len(queue[c]) < QueueMax)
      <4>1. queue'[c] = queue[c] /\ c \in dropped'
        BY <1>5, <2>2, <3>7 DEF Callback
      <4>2. Pipeline(c) = ((u \o queue[c]) \o <<Head(ready[c])>>) \o Tail(ready[c])
        BY ONLY <3>4, <3>8
      <4>3. Pipeline(c)' = (u \o queue[c]) \o Tail(ready[c])
        BY <3>3, <3>5, <4>1
      <4>4. printed' = printed /\ Over' = Over
        BY <1>5 DEF Callback, Over, pubVars
      <4>. QED BY <3>1, <3>2, <4>1, <4>2, <4>3, <4>4 DEF Shortened
    <3>. QED BY <3>6, <3>7
  <2>. QED BY <2>1, <2>2
<1>6. ASSUME NEW d \in Clients, FindChannel(d) PROVE Kept(c)
  <2>1. /\ handler[c] = "sending" <=> handler'[c] = "sending"
        /\ handler'[c] \in Pending => handler[c] \in Pending
    BY <1>6 DEF FindChannel, TypeOK, Pending
  <2>2. Pipeline(c)' = Pipeline(c)
    BY <1>6, <2>1, Untouched DEF FindChannel
  <2>. QED BY <1>6, <2>1, <2>2 DEF FindChannel, Kept, Over, pubVars
<1>7. ASSUME NEW d \in Clients, Subscribe(d) PROVE Kept(c) \/ Joined(c)
  <2>1. UNCHANGED <<channel, printed, ready, item, sent, dropped>>
    BY <1>7 DEF Subscribe, pubVars
  <2>2. CASE d # c \/ channel \notin {"open", "finished"}
    <3>1. handler'[c] = handler[c] \/ handler'[c] = "refused"
      BY <1>7, <2>2 DEF Subscribe, TypeOK
    <3>2. handler[c] = "sending" => handler'[c] = "sending"
      BY <1>7, <2>2 DEF Subscribe, TypeOK
    <3>3. queue'[c] = queue[c]
      BY <1>7, <2>2 DEF Subscribe, TypeOK
    <3>4. Pipeline(c)' = Pipeline(c)
      BY <2>1, <3>1, <3>2, <3>3, Untouched
    <3>. QED BY <2>1, <3>1, <3>4 DEF Kept, Over, Pending
  <2>3. CASE d = c /\ channel \in {"open", "finished"}
    <3>1. sent[c] = <<>> /\ ready[c] = <<>>
      BY <1>7, <2>3 DEF Subscribe, Registered
    <3>2. handler'[c] # "sending"
      BY <1>7, <2>3 DEF Subscribe, TypeOK
    <3>3. queue'[c] = IF Over THEN Append(buffer, End) ELSE buffer
      BY <1>7, <2>3 DEF Subscribe, TypeOK, Over
    <3>4. Pipeline(c)' = <<>> \o <<>> \o queue'[c] \o <<>>
      BY <2>1, <3>1, <3>2 DEF Pipeline, InHand
    <3>5. queue'[c] \in Seq(Items)
      BY <1>7, TypeStep DEF TypeOK
    <3>6. Pipeline(c)' = queue'[c]
      BY ONLY <3>4, <3>5, ConcatEmptySeq, EmptySeq
    <3>. QED BY <2>1, <2>3, <3>3, <3>6 DEF Joined, Over
  <2>. QED BY <2>2, <2>3
<1>8. ASSUME NEW d \in Clients, Get(d) PROVE Kept(c)
  <2>1. UNCHANGED <<channel, printed, ready, sent, dropped>>
    BY <1>8 DEF Get, pubVars
  <2>2. Pipeline(c)' = Pipeline(c)
    <3>1. CASE d # c
      BY <1>8, <3>1, Untouched DEF Get, TypeOK
    <3>2. CASE d = c
      <4>1. /\ sent[c] \in Seq(Items) /\ queue[c] \in Seq(Items) /\ queue[c] # <<>>
        BY <1>8, <3>2, PipeType DEF Get
      <4>2. InHand(c) = <<>>
        BY <1>8, <3>2 DEF Get, InHand
      <4>3. /\ item'[c] = Head(queue[c]) /\ queue'[c] = Tail(queue[c])
            /\ handler'[c] = "sending"
        BY <1>8, <3>2 DEF Get, TypeOK
      <4>4. Pipeline(c)' = (sent[c] \o <<Head(queue[c])>>) \o Tail(queue[c]) \o ready[c]
        BY <2>1, <4>3 DEF Pipeline, InHand
      <4>5. Pipeline(c) = (sent[c] \o <<>>) \o queue[c] \o ready[c]
        BY <4>2 DEF Pipeline
      <4>. QED BY <4>1, <4>4, <4>5, PipeGet
    <3>. QED BY <3>1, <3>2
  <2>3. handler'[c] \in Pending => handler[c] \in Pending
    BY <1>8 DEF Get, TypeOK, Pending
  <2>. QED BY <2>1, <2>2, <2>3 DEF Kept, Over
<1>9. ASSUME NEW d \in Clients, Leave(d), d # c,
             UNCHANGED <<pubVars, ready, queue, item, sent, dropped>>
      PROVE  Kept(c)
  <2>1. handler'[c] = handler[c]
    BY <1>9 DEF Leave, TypeOK
  <2>2. Pipeline(c)' = Pipeline(c)
    BY <1>9, <2>1, Untouched
  <2>. QED BY <1>9, <2>1, <2>2 DEF Kept, Over, pubVars
<1>10. ASSUME Leave(c), handler[c] \in {"meta", "sending"},
              UNCHANGED <<pubVars, ready, queue, item, sent, dropped>>
       PROVE  Kept(c) \/ Shortened(c)
  <2>1. handler'[c] = "ended"
    BY <1>10 DEF Leave, TypeOK
  <2>2. CASE handler[c] = "meta"
    <3>1. Pipeline(c)' = Pipeline(c)
      BY <1>10, <2>1, <2>2, Untouched
    <3>. QED BY <1>10, <2>1, <3>1 DEF Kept, Over, pubVars, Pending
  <2>3. CASE handler[c] = "sending"
    <3> DEFINE t == queue[c] \o ready[c]
    <3>1. /\ sent[c] \in Seq(Items) /\ queue[c] \in Seq(Items)
          /\ ready[c] \in Seq(Items) /\ item[c] \in Items
          /\ <<item[c]>> \in Seq(Items)
          /\ sent[c] \o <<item[c]>> \in Seq(Items)
          /\ t \in Seq(Items)
      BY <2>3, PipeType, ConcatProperties DEF InHand, TypeOK
    <3>2. Pipeline(c) = (sent[c] \o <<item[c]>>) \o queue[c] \o ready[c]
      BY <2>3 DEF Pipeline, InHand
    <3>3. Pipeline(c)' = (sent[c] \o <<>>) \o queue[c] \o ready[c]
      BY <1>10, <2>1 DEF Pipeline, InHand
    <3> HIDE DEF t
    <3>7. \A u \in Seq(Items) : u \o queue[c] \o ready[c] = u \o t
      <4> DEFINE q == queue[c]
                 r == ready[c]
      <4>1. q \in Seq(Items) /\ r \in Seq(Items)
        BY <3>1
      <4> HIDE DEF q, r
      <4>2. \A u \in Seq(Items) : (u \o q) \o r = u \o (q \o r)
        BY ONLY <4>1, ConcatAssociative
      <4>. QED BY <4>2 DEF q, r, t
    <3>8. sent[c] \o <<>> = sent[c]
      BY ONLY <3>1, ConcatEmptySeq
    <3>4. Pipeline(c) = (sent[c] \o <<item[c]>>) \o t
      BY ONLY <3>1, <3>2, <3>7
    <3>5. Pipeline(c)' = sent[c] \o t
      BY ONLY <3>1, <3>3, <3>7, <3>8
    <3>6. printed' = printed /\ Over' = Over /\ handler'[c] \notin Pending
      BY <1>10, <2>1 DEF Over, pubVars, Pending
    <3>. QED BY <3>1, <3>4, <3>5, <3>6 DEF Shortened
  <2>. QED BY <1>10, <2>2, <2>3
<1>11. ASSUME NEW d \in Clients, Send(d) PROVE Kept(c) \/ Shortened(c)
  <2>1. UNCHANGED <<pubVars, ready, queue, item, dropped>>
    BY <1>11 DEF Send
  <2>2. CASE handler[d] = "sending" /\ item[d] = End
    <3>1. Leave(d) /\ sent' = sent
      BY <1>11, <2>2 DEF Send
    <3>. QED BY <1>9, <1>10, <2>1, <2>2, <3>1
  <2>3. CASE ~ (handler[d] = "sending" /\ item[d] = End)
    <3>1. /\ handler' = [handler EXCEPT ![d] = "waiting"]
          /\ sent' = IF handler[d] = "meta" THEN sent
                     ELSE [sent EXCEPT ![d] = Append(@, item[d])]
      BY <1>11, <2>3 DEF Send
    <3>2. Pipeline(c)' = Pipeline(c)
      <4>1. CASE d # c \/ handler[d] = "meta"
        <5>1. /\ handler[c] = "sending" <=> handler'[c] = "sending"
              /\ sent'[c] = sent[c]
          BY <1>11, <3>1, <4>1 DEF Send, TypeOK
        <5>. QED BY <2>1, <5>1, Untouched
      <4>2. CASE d = c /\ handler[d] # "meta"
        <5>1. /\ handler[c] = "sending" /\ handler'[c] = "waiting"
              /\ sent'[c] = Append(sent[c], item[c])
          BY <1>11, <3>1, <4>2 DEF Send, TypeOK
        <5>2. Pipeline(c)' = (Append(sent[c], item[c]) \o <<>>) \o queue[c] \o ready[c]
          BY <2>1, <5>1 DEF Pipeline, InHand
        <5>3. Pipeline(c) = (sent[c] \o <<item[c]>>) \o queue[c] \o ready[c]
          BY <5>1 DEF Pipeline, InHand
        <5>4. sent[c] \in Seq(Items) /\ item[c] \in Items
          BY PipeType DEF TypeOK
        <5>5. Append(sent[c], item[c]) \o <<>> = sent[c] \o <<item[c]>>
          BY <5>4, PipeSend
        <5>. QED BY <5>2, <5>3, <5>5
      <4>. QED BY <4>1, <4>2
    <3>3. handler'[c] \in Pending => handler[c] \in Pending
      BY <1>11, <3>1 DEF Send, TypeOK, Pending
    <3>. QED BY <2>1, <3>2, <3>3 DEF Kept, Over, pubVars
  <2>. QED BY <2>2, <2>3
<1>12. ASSUME NEW d \in Clients, SendFails(d) PROVE Kept(c) \/ Shortened(c)
  BY <1>9, <1>10, <1>12 DEF SendFails
<1>13. ASSUME NEW d \in Clients, Disconnect(d) PROVE Kept(c)
  BY <1>13, Untouched DEF Disconnect, Kept, Over, pubVars
<1>14. CASE UNCHANGED vars
  BY <1>14, Untouched DEF vars, pubVars, Kept, Over
<1>. QED BY <1>1, <1>2, <1>3, <1>4, <1>5, <1>6, <1>7, <1>8, <1>11, <1>12, <1>13,
            <1>14 DEF Next, Publisher, Handler

\* What subscribe hands a new client is in order and has no gap.
LEMMA BufferOrdered ==
    ASSUME TypeOK, Buffered, channel # "removed"
    PROVE  /\ Ordered(buffer, printed, FALSE)
           /\ Gapless(buffer, Len(buffer), printed, FALSE)
<1>1. /\ printed \in Nat /\ BufferMax \in Nat \ {0} /\ Len(buffer) \in Nat
      /\ buffer \in Seq(1..MaxLines)
  BY LogStreamAssumption, LenProperties DEF TypeOK
<1>2. /\ Len(buffer) = IF printed < BufferMax THEN printed ELSE BufferMax
      /\ \A i \in 1..Len(buffer) : buffer[i] = printed - Len(buffer) + i
  BY DEF Buffered
<1>3. \A i \in 1..Len(buffer) : buffer[i] \in 0..printed /\ buffer[i] # End
  BY ONLY <1>1, <1>2 DEF End
<1>4. buffer \in Seq(0..printed)
  BY ONLY <1>1, <1>3, SeqOfElements
<1>5. \A i, j \in 1..Len(buffer) : i < j => buffer[i] < buffer[j]
  BY ONLY <1>1, <1>2
<1>6. Ordered(buffer, printed, FALSE)
  BY ONLY <1>3, <1>4, <1>5 DEF Ordered
<1>7. Gapless(buffer, Len(buffer), printed, FALSE)
  BY ONLY <1>1, <1>2 DEF Gapless
<1>. QED BY <1>6, <1>7

LEMMA OrderStep ==
    ASSUME StreamInv, [Next]_vars
    PROVE  InOrder'
<1> USE DEF StreamInv
<1> SUFFICES ASSUME NEW c \in Clients
             PROVE  Ordered(Pipeline(c)', printed', Over')
  BY DEF InOrder
<1>1. /\ printed \in Nat /\ Over \in BOOLEAN
      /\ Ordered(Pipeline(c), printed, Over)
  BY LogStreamAssumption DEF TypeOK, InOrder, Over
<1>2. CASE Kept(c)
  BY <1>1, <1>2 DEF Kept
<1>3. CASE Extended(c)
  <2>1. Over = FALSE /\ Over' = FALSE /\ printed' = printed + 1
    BY <1>1, <1>3 DEF Extended, Over
  <2>2. Ordered(Pipeline(c), printed, FALSE)
    BY <1>1, <2>1
  <2>3. /\ Ordered(Append(Pipeline(c), printed + 1), printed + 1, FALSE)
        /\ Ordered(Pipeline(c), printed + 1, FALSE)
    BY ONLY <1>1, <2>2, OrderedLine, OrderedLater
  <2>. QED BY <1>3, <2>1, <2>3 DEF Extended
<1>4. CASE Ended(c)
  <2>1. /\ Ordered(Append(Pipeline(c), End), printed, TRUE)
        /\ Ordered(Pipeline(c), printed, TRUE)
    BY ONLY <1>1, OrderedEnd, OrderedLater
  <2>2. Over' = TRUE
    BY <1>4 DEF Ended, Over
  <2>. QED BY <1>4, <2>1, <2>2 DEF Ended
<1>5. CASE Joined(c)
  <2>1. Ordered(buffer, printed, FALSE)
    BY <1>5, BufferOrdered DEF Joined
  <2>2. Ordered(Append(buffer, End), printed, TRUE)
    BY ONLY <1>1, <2>1, OrderedEnd
  <2>3. CASE Over
    <3>1. Over' = TRUE /\ Pipeline(c)' = Append(buffer, End) /\ printed' = printed
      BY <1>1, <1>5, <2>3 DEF Joined
    <3>. QED BY <2>2, <3>1
  <2>4. CASE ~Over
    <3>1. Over' = FALSE /\ Pipeline(c)' = buffer /\ printed' = printed
      BY <1>1, <1>5, <2>4 DEF Joined
    <3>. QED BY <2>1, <3>1
  <2>. QED BY <2>3, <2>4
<1>6. CASE Shortened(c)
  <2>1. PICK s \in Seq(Items), t \in Seq(Items), x \in Items :
            Pipeline(c) = (s \o <<x>>) \o t /\ Pipeline(c)' = s \o t
    BY <1>6 DEF Shortened
  <2>2. Ordered(s \o t, printed, Over)
    BY ONLY <1>1, <2>1, OrderedWithout
  <2>. QED BY <1>6, <2>1, <2>2 DEF Shortened
<1>. QED BY <1>2, <1>3, <1>4, <1>5, <1>6, FlowStep

LEMMA NoGapIs ==
    NoGap <=> \A c \in Clients \ dropped : handler[c] \in Pending =>
                  \E n : Gapless(Pipeline(c), n, printed, Over)
  BY DEF NoGap, Gapless

LEMMA NoGapStep ==
    ASSUME StreamInv, [Next]_vars
    PROVE  NoGap'
<1> USE DEF StreamInv
<1> SUFFICES ASSUME NEW c \in Clients, c \notin dropped', handler'[c] \in Pending
             PROVE  \E n : Gapless(Pipeline(c)', n, printed', Over')
  BY DEF NoGap, Gapless
<1>1. /\ printed \in Nat /\ Over \in BOOLEAN
      /\ Pipeline(c) \in Seq(0..printed)
  BY LogStreamAssumption DEF TypeOK, InOrder, Ordered, Over
<1>2. ASSUME c \notin dropped, handler[c] \in Pending
      PROVE  \E n : Gapless(Pipeline(c), n, printed, Over)
  BY <1>2, NoGapIs
<1>3. CASE Kept(c)
  <2>1. c \notin dropped /\ handler[c] \in Pending
    BY <1>3 DEF Kept
  <2>. QED BY <1>2, <1>3, <2>1 DEF Kept
<1>4. CASE Extended(c)
  <2>1. c \notin dropped /\ handler[c] \in Pending /\ c \in subscribers
    BY <1>4 DEF Extended, Registered
  <2>2. Over = FALSE /\ Over' = FALSE /\ printed' = printed + 1
    BY <1>1, <1>4 DEF Extended, Over
  <2>3. PICK n : Gapless(Pipeline(c), n, printed, FALSE)
    BY <1>2, <2>1, <2>2
  <2>4. Gapless(Append(Pipeline(c), printed + 1), n + 1, printed + 1, FALSE)
    BY ONLY <1>1, <2>3, GaplessLine
  <2>5. Pipeline(c)' = Append(Pipeline(c), printed + 1)
    BY <1>4, <2>1 DEF Extended
  <2>. QED BY <2>2, <2>4, <2>5
<1>5. CASE Ended(c)
  <2>1. c \notin dropped /\ handler[c] \in Pending
    BY <1>5 DEF Ended
  <2>2. PICK n : Gapless(Pipeline(c), n, printed, Over)
    BY <1>2, <2>1
  <2>3. Over' = TRUE /\ printed' = printed
    BY <1>5 DEF Ended, Over
  <2>4. CASE c \in subscribers
    <3>1. Gapless(Append(Pipeline(c), End), n, printed, TRUE)
      BY ONLY <1>1, <2>2, GaplessEnd
    <3>2. Pipeline(c)' = Append(Pipeline(c), End)
      BY <1>5, <2>4 DEF Ended
    <3>. QED BY <2>3, <3>1, <3>2
  <2>5. CASE c \notin subscribers
    <3>1. Over = TRUE
      BY <1>1, <2>1, <2>5 DEF Registered
    <3>2. Pipeline(c)' = Pipeline(c)
      BY <1>5, <2>5 DEF Ended
    <3>. QED BY <2>2, <2>3, <3>1, <3>2
  <2>. QED BY <2>4, <2>5
<1>6. CASE Joined(c)
  <2>1. /\ Ordered(buffer, printed, FALSE)
        /\ Gapless(buffer, Len(buffer), printed, FALSE)
    BY <1>6, BufferOrdered DEF Joined
  <2>2. buffer \in Seq(0..printed)
    BY <2>1 DEF Ordered
  <2>3. Gapless(Append(buffer, End), Len(buffer), printed, TRUE)
    BY ONLY <1>1, <2>1, <2>2, GaplessEnd
  <2>4. CASE Over
    <3>1. Over' = TRUE /\ Pipeline(c)' = Append(buffer, End) /\ printed' = printed
      BY <1>1, <1>6, <2>4 DEF Joined
    <3>. QED BY <2>3, <3>1
  <2>5. CASE ~Over
    <3>1. Over' = FALSE /\ Pipeline(c)' = buffer /\ printed' = printed
      BY <1>1, <1>6, <2>5 DEF Joined
    <3>. QED BY <2>1, <3>1
  <2>. QED BY <2>4, <2>5
<1>7. CASE Shortened(c)
  BY <1>7 DEF Shortened
<1>. QED BY <1>3, <1>4, <1>5, <1>6, <1>7, FlowStep

LEMMA InitStream == Init => StreamInv
<1> SUFFICES ASSUME Init PROVE StreamInv
  OBVIOUS
<1> USE DEF Init
<1>1. /\ <<>> \in Seq(Items) /\ <<>> \in Seq(1..MaxLines)
  BY EmptySeq
<1>2. TypeOK
  BY <1>1, LogStreamAssumption DEF TypeOK, Items, End
<1>3. Buffered
  BY <1>1, LogStreamAssumption DEF Buffered
<1>4. Registered
  BY DEF Registered, Pending
<1>5. ASSUME NEW c \in Clients PROVE Pipeline(c) = <<>>
  <2>1. Pipeline(c) = <<>> \o <<>> \o <<>> \o <<>>
    BY <1>5 DEF Pipeline, InHand
  <2>. QED BY ONLY <1>1, <2>1, ConcatEmptySeq
<1>6. Ordered(<<>>, 0, Over)
  BY EmptySeq DEF Ordered
<1>7. InOrder
  BY <1>5, <1>6 DEF InOrder
<1>8. NoGap
  BY DEF NoGap, Pending
<1>. QED BY <1>2, <1>3, <1>4, <1>7, <1>8 DEF StreamInv

LEMMA StreamStep == StreamInv /\ [Next]_vars => StreamInv'
  BY TypeStep, BufferedStep, RegisteredStep, OrderStep, NoGapStep DEF StreamInv

LEMMA StreamHolds == Spec => []StreamInv
  BY InitStream, StreamStep, PTL DEF Spec

\* The variables keep their types: the buffer and what clients are sent are
\* printed lines, never the sentinel.
THEOREM TypeCorrect == Spec => []TypeOK
<1>1. StreamInv => TypeOK
  BY DEF StreamInv
<1>. QED BY <1>1, StreamHolds, PTL

\* A client whose queue never was full misses no line from its first one on,
\* gets none twice, and gets the sentinel after them: publish_line,
\* close_channel and subscribe run under one lock, so a client gets each line
\* either with the buffer or as a subscriber.
THEOREM NoGapHolds == Spec => []NoGap
<1>1. StreamInv => NoGap
  BY DEF StreamInv
<1>. QED BY <1>1, StreamHolds, PTL

-----------------------------------------------------------------------------

\* A step that changes none of what the feed sees.
LEMMA FeedStutter ==
    ASSUME UNCHANGED <<printed, sent>>, Over' = Over,
           \A c \in Clients : (c \in Told)' <=> c \in Told
    PROVE  UNCHANGED Feed!vars
<1>1. Told' = Told
  BY DEF Told
<1>2. [c \in Clients |-> Position(c)]' = [c \in Clients |-> Position(c)]
  BY DEF Position
<1>. QED BY <1>1, <1>2 DEF Feed!vars

\* What a handler is sending is a line the client has not been sent and
\* none below it, or the sentinel, and then the run is over.
LEMMA InHandNext ==
    ASSUME StreamInv, NEW c \in Clients, handler[c] = "sending"
    PROVE  /\ item[c] # End => item[c] \in Position(c)..printed
           /\ item[c] = End => Over
<1> DEFINE p == Pipeline(c)
           k == Len(sent[c])
           h == sent[c] \o <<item[c]>>
           t == queue[c] \o ready[c]
<1>1. /\ sent[c] \in Seq(Items) /\ <<item[c]>> \in Seq(Items)
      /\ queue[c] \in Seq(Items) /\ ready[c] \in Seq(Items) /\ k \in Nat
      /\ sent[c] \in Seq(1..MaxLines)
  BY PipeType, LenProperties DEF StreamInv, InHand, TypeOK
<1>2. /\ h \in Seq(Items) /\ Len(h) = k + 1
      /\ \A i \in 1..k : h[i] = sent[c][i]
      /\ h[k + 1] = item[c]
  BY <1>1, ConcatProperties
<1>3. t \in Seq(Items) /\ Len(t) \in Nat
  BY <1>1, ConcatProperties, LenProperties
<1>4. p = h \o t
  <2> DEFINE q == queue[c]
             r == ready[c]
  <2>1. p = h \o q \o r
    BY DEF Pipeline, InHand
  <2>2. h \in Seq(Items) /\ q \in Seq(Items) /\ r \in Seq(Items)
    BY <1>1, <1>2
  <2> HIDE DEF p, h, q, r
  <2>3. (h \o q) \o r = h \o (q \o r)
    BY <2>2, ConcatAssociative
  <2>. QED BY <2>1, <2>3 DEF q, r
<1>5. Ordered(p, printed, Over) /\ printed \in Nat
  BY LogStreamAssumption DEF StreamInv, InOrder, TypeOK
<1> HIDE DEF p, h, t
<1>6. /\ k + 1 \in 1..Len(p) /\ p[k + 1] = item[c]
      /\ \A i \in 1..k : i \in 1..Len(p) /\ p[i] = sent[c][i]
  <2>1. /\ Len(p) = k + 1 + Len(t)
        /\ \A i \in 1..Len(p) : i <= k + 1 => p[i] = h[i]
    <3>1. /\ Len(h \o t) = Len(h) + Len(t)
          /\ \A i \in 1..Len(h) + Len(t) :
                (h \o t)[i] = IF i <= Len(h) THEN h[i] ELSE t[i - Len(h)]
      BY ONLY <1>2, <1>3, ConcatProperties
    <3>2. \A i \in 1..Len(h) + Len(t) : i <= k + 1 => (h \o t)[i] = h[i]
      BY ONLY <1>2, <3>1
    <3>. QED BY ONLY <1>2, <1>4, <3>1, <3>2
  <2>2. \A i \in 1..k + 1 : i \in 1..Len(p) /\ i <= k + 1
    BY ONLY <1>1, <1>3, <2>1
  <2>. QED BY ONLY <1>1, <1>2, <2>1, <2>2
<1>7. item[c] = End => Over
  BY ONLY <1>5, <1>6 DEF Ordered
<1>8. item[c] \in 0..printed
  BY ONLY <1>5, <1>6, ElementOfSeq DEF Ordered
<1>9. CASE sent[c] = <<>>
  <2>1. Position(c) = 1
    BY <1>9 DEF Position
  <2>. QED BY <1>5, <1>7, <1>8, <2>1 DEF End
<1>10. CASE sent[c] # <<>>
  <2>1. k \in 1..k /\ k < k + 1 /\ Position(c) = sent[c][k] + 1
    BY <1>1, <1>10, EmptySeq DEF Position, Last
  <2>2. item[c] = End \/ sent[c][k] < item[c]
    BY ONLY <1>5, <1>6, <2>1 DEF Ordered
  <2>3. sent[c][k] \in 1..MaxLines
    BY ONLY <1>1, <2>1, ElementOfSeq
  <2>. QED BY <1>5, <1>7, <1>8, <2>1, <2>2, <2>3, LogStreamAssumption
<1>. QED BY <1>9, <1>10

\* Every step maps to a step of the feed or to a stutter.
LEMMA FeedStep ==
    ASSUME StreamInv, [Next]_vars
    PROVE  [Feed!Next]_(Feed!vars)
<1> USE DEF StreamInv
<1>1. CASE CreateChannel
  BY <1>1, FeedStutter DEF CreateChannel, Over, Told
<1>2. CASE PublishLine
  <2>1. [c \in Clients |-> Position(c)]' = [c \in Clients |-> Position(c)]
    BY <1>2 DEF PublishLine, Position
  <2>2. Feed!PrintLine
    BY <1>2, <2>1 DEF PublishLine, Feed!PrintLine, Over, Told
  <2>. QED BY <2>2 DEF Feed!Next
<1>3. CASE CloseChannel
  <2>1. [c \in Clients |-> Position(c)]' = [c \in Clients |-> Position(c)]
    BY <1>3 DEF CloseChannel, Position
  <2>2. Feed!Finish
    BY <1>3, <2>1 DEF CloseChannel, Feed!Finish, Over, Told
  <2>. QED BY <2>2 DEF Feed!Next
<1>4. CASE Cleanup
  BY <1>4, FeedStutter DEF Cleanup, Over, Told
<1>5. ASSUME NEW c \in Clients, Callback(c) PROVE UNCHANGED Feed!vars
  BY <1>5, FeedStutter DEF Callback, Over, Told, pubVars
<1>6. ASSUME NEW c \in Clients, FindChannel(c) PROVE UNCHANGED Feed!vars
  <2>1. \A d \in Clients : handler'[d] = "ended" <=> handler[d] = "ended"
    BY <1>6 DEF FindChannel, TypeOK
  <2>. QED BY <1>6, <2>1, FeedStutter DEF FindChannel, Over, Told, pubVars
<1>7. ASSUME NEW c \in Clients, Subscribe(c) PROVE UNCHANGED Feed!vars
  <2>1. \A d \in Clients : handler'[d] = "ended" <=> handler[d] = "ended"
    BY <1>7 DEF Subscribe, TypeOK
  <2>2. UNCHANGED <<pubVars, item, sent, closed>>
    BY <1>7 DEF Subscribe
  <2>. QED BY <2>1, <2>2, FeedStutter DEF Over, Told, pubVars
<1>8. ASSUME NEW c \in Clients, Get(c) PROVE UNCHANGED Feed!vars
  <2>1. \A d \in Clients : (d \in Told)' <=> d \in Told
    BY <1>8 DEF Get, Told, TypeOK
  <2>. QED BY <1>8, <2>1, FeedStutter DEF Get, Over, pubVars
<1>9. ASSUME NEW c \in Clients, Send(c) PROVE [Feed!Next]_(Feed!vars)
  <2>1. UNCHANGED <<pubVars, item, closed>> /\ c \notin closed
    BY <1>9 DEF Send
  <2>2. printed' = printed /\ Over' = Over
    BY <2>1 DEF pubVars, Over
  <2>3. CASE handler[c] = "sending" /\ item[c] = End
    <3>1. /\ handler' = [handler EXCEPT ![c] = "ended"] /\ sent' = sent
      BY <1>9, <2>3 DEF Send, Leave
    <3>2. [d \in Clients |-> Position(d)]' = [d \in Clients |-> Position(d)]
      BY <3>1 DEF Position
    <3>3. Told' = Told \union {c} /\ c \notin Told
      BY <2>1, <2>3, <3>1 DEF Told, TypeOK
    <3>4. Over
      BY <2>3, InHandNext
    <3>5. Feed!Tell(c)
      BY <2>2, <3>2, <3>3, <3>4 DEF Feed!Tell
    <3>. QED BY <3>5 DEF Feed!Next
  <2>4. CASE handler[c] = "meta"
    <3>1. /\ handler' = [handler EXCEPT ![c] = "waiting"] /\ sent' = sent
      BY <1>9, <2>4 DEF Send
    <3>2. \A d \in Clients : handler'[d] = "ended" <=> handler[d] = "ended"
      BY <2>4, <3>1 DEF TypeOK
    <3>. QED BY <2>1, <2>2, <3>1, <3>2, FeedStutter DEF Told
  <2>5. CASE handler[c] = "sending" /\ item[c] # End
    <3>1. /\ handler' = [handler EXCEPT ![c] = "waiting"]
          /\ sent' = [sent EXCEPT ![c] = Append(@, item[c])]
      BY <1>9, <2>5 DEF Send
    <3>2. item[c] \in Position(c)..printed
      BY <2>5, InHandNext
    <3>3. Told' = Told /\ c \notin Told
      BY <2>1, <2>5, <3>1 DEF Told, TypeOK
    <3>4. Position(c)' = item[c] + 1
      <4>1. sent'[c] = Append(sent[c], item[c])
        BY <3>1 DEF TypeOK
      <4>2. sent[c] \in Seq(Items) /\ item[c] \in Items
        BY PipeType DEF TypeOK
      <4>3. /\ sent'[c] # <<>>
            /\ Len(sent'[c]) = Len(sent[c]) + 1
            /\ sent'[c][Len(sent[c]) + 1] = item[c]
        BY <4>1, <4>2, AppendProperties
      <4>. QED BY ONLY <4>3 DEF Position, Last
    <3>5. \A d \in Clients \ {c} : Position(d)' = Position(d)
      BY <3>1 DEF TypeOK, Position
    <3>6. [d \in Clients |-> Position(d)]'
             = [[d \in Clients |-> Position(d)] EXCEPT ![c] = item[c] + 1]
      BY <3>4, <3>5
    <3>7. Feed!Deliver(c)
      BY <2>2, <3>2, <3>3, <3>6 DEF Feed!Deliver
    <3>. QED BY <3>7 DEF Feed!Next
  <2>. QED BY <1>9, <2>3, <2>4, <2>5 DEF Send
<1>10. ASSUME NEW c \in Clients, SendFails(c) PROVE UNCHANGED Feed!vars
  <2>1. \A d \in Clients : (d \in Told)' <=> d \in Told
    BY <1>10 DEF SendFails, Leave, Told, TypeOK
  <2>. QED BY <1>10, <2>1, FeedStutter DEF SendFails, Over, pubVars
<1>11. ASSUME NEW c \in Clients, Disconnect(c) PROVE UNCHANGED Feed!vars
  <2>1. \A d \in Clients : (d \in Told)' <=> d \in Told
    BY <1>11 DEF Disconnect, Told, Pending
  <2>. QED BY <1>11, <2>1, FeedStutter DEF Disconnect, Over, pubVars
<1>12. CASE UNCHANGED vars
  BY <1>12, FeedStutter DEF vars, pubVars, Over, Told
<1>. QED BY <1>1, <1>2, <1>3, <1>4, <1>5, <1>6, <1>7, <1>8, <1>9, <1>10, <1>11,
            <1>12 DEF Next, Publisher, Handler

LEMMA FeedInit == Init => Feed!Init
<1> SUFFICES ASSUME Init PROVE Feed!Init
  OBVIOUS
<1>1. Over = FALSE /\ Told = {}
  BY DEF Init, Over, Told
<1>2. [c \in Clients |-> Position(c)] = [c \in Clients |-> 1]
  BY DEF Init, Position
<1>. QED BY <1>1, <1>2 DEF Feed!Init, Init

\* Live streaming implements the abstract feed, whatever is lost on the way:
\* Send of a line is Deliver, Send of the sentinel is Tell.
THEOREM FeedRefined == Spec => FeedImplemented
  BY FeedInit, FeedStep, StreamHolds, PTL DEF Spec, FeedImplemented, Feed!Spec
=============================================================================
