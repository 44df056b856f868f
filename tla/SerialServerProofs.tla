-------------------------- MODULE SerialServerProofs --------------------------
(***************************************************************************)
(* Proofs about SerialServer, for any settings, frames, size of the        *)
(* message buffer and number of disturbances.                              *)
(***************************************************************************)
EXTENDS SerialServer, SequenceTheorems, TLAPS

\* s is how a request begins.
Begins(s, k) == Len(s) <= Shape[k].size /\ \A i \in 1 .. Len(s) : s[i] = <<k, i>>

(***************************************************************************)
(* What length_to_read was reckoned from: the slave and the function; then *)
(* the function; then the number of data.  They are those of a request if  *)
(* the bytes read are its first ones.                                      *)
(***************************************************************************)
Reckoned ==
    /\ step = "function" => Len(got) + need = 2
    /\ step \in Classes => Len(got) >= 2
    /\ \A k \in Own : Begins(got, k) =>
         /\ step \in Classes =>
              step = Shape[k].class /\ Len(got) + need = 2 + MetaLength(step)
         /\ step = "data" => Len(got) + need = Shape[k].size

Inv == TypeOK /\ Reckoned

-----------------------------------------------------------------------------
\* What the proofs need of the constants.
LEMMA Numbers ==
    /\ MaxAdu \in Nat /\ MaxAdu >= 11 /\ MaxMsg \in Nat /\ MaxEvent \in Nat
    /\ \A class \in Classes : MetaLength(class) \in 0 .. 9
    /\ \A k \in Kind : Shape[k].class \in Classes /\ Shape[k].data \in Nat
                       /\ Shape[k].size \in 1 .. MaxAdu
<1>1. \A class \in Classes : MetaLength(class) \in 0 .. 9
  BY DEF Classes, MetaLength
<1> QED  BY <1>1, SerialAssumption

\* The smaller of two numbers.
LEMMA Least ==
    ASSUME NEW a \in Nat, NEW b \in Nat
    PROVE  Min({a, b}) \in Nat /\ Min({a, b}) = IF a <= b THEN a ELSE b
<1>1. CASE a <= b
  <2>1. \A x \in {a, b} : (\A y \in {a, b} : x =< y) => x = a
    BY <1>1
  <2>2. a \in {a, b} /\ \A y \in {a, b} : a =< y
    BY <1>1
  <2>3. Min({a, b}) \in {a, b} /\ \A y \in {a, b} : Min({a, b}) =< y
    BY <2>2 DEF Min
  <2> QED  BY <1>1, <2>1, <2>3
<1>2. CASE ~(a <= b)
  <2>1. \A x \in {a, b} : (\A y \in {a, b} : x =< y) => x = b
    BY <1>2
  <2>2. b \in {a, b} /\ \A y \in {a, b} : b =< y
    BY <1>2
  <2>3. Min({a, b}) \in {a, b} /\ \A y \in {a, b} : Min({a, b}) =< y
    BY <2>2 DEF Min
  <2> QED  BY <1>2, <2>1, <2>3
<1> QED  BY <1>1, <1>2

\* A frame is a sequence of its bytes.
LEMMA FrameType ==
    ASSUME NEW k \in Kind
    PROVE  /\ Frame(k) \in Seq(Byte) /\ Len(Frame(k)) = Shape[k].size
           /\ \A i \in 1 .. Shape[k].size : Frame(k)[i] = <<k, i>>
<1>1. Shape[k].size \in Nat /\ Shape[k].size <= MaxAdu /\ MaxAdu \in Nat
  BY Numbers
<1>2. \A i \in 1 .. Shape[k].size : i \in 1 .. MaxAdu
  BY <1>1
<1>3. \A i \in 1 .. Shape[k].size : <<k, i>> \in Byte
  BY <1>2 DEF Byte
<1> QED  BY <1>1, <1>3 DEF Frame

\* The prefixes of a frame begin as it does.
LEMMA PrefixBegins ==
    ASSUME NEW k \in Kind, NEW s \in Seq(Byte), IsPrefix(s, Frame(k))
    PROVE  Begins(s, k)
<1>1. Len(s) \in Nat /\ Shape[k].size \in Nat
  BY Numbers
<1>2. Len(s) <= Shape[k].size /\ SubSeq(s, 1, Len(s)) = SubSeq(Frame(k), 1, Len(s))
  BY FrameType DEF IsPrefix
<1>3. ASSUME NEW i \in 1 .. Len(s)
      PROVE  s[i] = <<k, i>>
  <2>1. SubSeq(s, 1, Len(s))[i] = s[i]
    BY <1>1
  <2>2. SubSeq(Frame(k), 1, Len(s))[i] = Frame(k)[i]
    BY <1>1, <1>2, FrameType
  <2>3. i \in 1 .. Shape[k].size
    BY <1>1, <1>2
  <2> QED  BY <1>2, <2>1, <2>2, <2>3, FrameType
<1> QED  BY <1>2, <1>3 DEF Begins

\* What begins as a frame does, began so.
LEMMA BeganSo ==
    ASSUME NEW s \in Seq(Byte), NEW t \in Seq(Byte), NEW k \in Kind, Begins(s \o t, k)
    PROVE  Begins(s, k)
<1>1. Len(s) \in Nat /\ Len(t) \in Nat /\ Len(s \o t) = Len(s) + Len(t)
      /\ Shape[k].size \in Nat
  BY Numbers
<1>2. \A i \in 1 .. Len(s) : i \in 1 .. Len(s \o t) /\ (s \o t)[i] = s[i]
  BY <1>1
<1> QED  BY <1>1, <1>2 DEF Begins

\* A bound on what compute_data_length_after_meta may say.
LEMMA DataLengthType ==
    ASSUME NEW s, NEW class
    PROVE  DataLength(class, s) \subseteq Nat
  BY Numbers DEF DataLength

\* The number of data is the last byte of what comes before the data.
LEMMA CountPlace ==
    \A class \in {"multiple", "rw"} : CountAt(class) = 2 + MetaLength(class)
  BY DEF CountAt, MetaLength

\* How much of the input is read.
LEMMA ReadSome ==
    ASSUME TypeOK
    PROVE  /\ Min({Len(rx), need}) \in Nat
           /\ Min({Len(rx), need}) <= Len(rx) /\ Min({Len(rx), need}) <= need
           /\ SubSeq(rx, 1, Min({Len(rx), need})) \in Seq(Byte)
           /\ Len(SubSeq(rx, 1, Min({Len(rx), need}))) = Min({Len(rx), need})
           /\ SubSeq(rx, Min({Len(rx), need}) + 1, Len(rx)) \in Seq(Byte)
<1> DEFINE n == Min({Len(rx), need})
<1>1. rx \in Seq(Byte) /\ Len(rx) \in Nat /\ need \in Nat
  BY Numbers DEF TypeOK
<1>2. n \in Nat /\ n <= Len(rx) /\ n <= need
  BY <1>1, Least
<1> HIDE DEF n
<1>3. \A i \in 1 .. n : rx[i] \in Byte
  BY <1>1, <1>2
<1>4. \A i \in (n + 1) .. Len(rx) : rx[i] \in Byte
  BY <1>1, <1>2
<1>5. SubSeq(rx, 1, n) \in Seq(Byte) /\ Len(SubSeq(rx, 1, n)) = n
  BY <1>2, <1>3, SubSeqProperties
<1>6. SubSeq(rx, n + 1, Len(rx)) \in Seq(Byte)
  BY <1>1, <1>2, <1>4, SubSeqProperties
<1> QED  BY <1>2, <1>5, <1>6 DEF n

-----------------------------------------------------------------------------
\* Inv, by what the steps change together.
Rest ==
    /\ want \in Code /\ msgs \in 0 .. MaxMsg
    /\ port \in Port /\ up \in BOOLEAN
    /\ asking \in Own \cup {"nobody"}
    /\ line \in Seq(Byte) /\ rx \in Seq(Byte) /\ silent \in BOOLEAN
    /\ events \in 0 .. MaxEvent

Receiving ==
    /\ pc \in {"wait", "read", "sleep"}
    /\ step \in Classes \cup {"function", "data"}
    /\ got \in Seq(Byte) /\ need \in 1 .. MaxAdu /\ Len(got) + need <= MaxAdu
    /\ deaf \in BOOLEAN
    /\ deaf => got # << >> \/ pc # "wait"
    /\ Reckoned

LEMMA Parts == (Inv <=> Rest /\ Receiving) /\ (Inv' <=> Rest' /\ Receiving')
  BY DEF Inv, TypeOK, Rest, Receiving

\* A receive that begins anew.
LEMMA FreshReceiving ==
    ASSUME Fresh
    PROVE  Receiving'
<1>1. pc' = "wait" /\ step' = "function" /\ got' = << >> /\ need' = 2 /\ deaf' = FALSE
  BY DEF Fresh
<1>2. MaxAdu \in Nat /\ MaxAdu >= 11
  BY Numbers
<1>3. << >> \in Seq(Byte) /\ Len(<< >>) = 0
  BY EmptySeq
<1>4. "function" \notin Classes
  BY DEF Classes
<1>5. Reckoned'
  BY <1>1, <1>3, <1>4 DEF Reckoned
<1>6. deaf' \in BOOLEAN /\ ~deaf'
  BY <1>1
<1>7. 2 \in 1 .. MaxAdu /\ 0 + 2 <= MaxAdu
  BY <1>2
<1> QED  BY <1>1, <1>3, <1>5, <1>6, <1>7 DEF Receiving

\* The thread stands elsewhere in the same receive.
LEMMA SameReceiving ==
    ASSUME Receiving, pc' \in {"wait", "read", "sleep"}, UNCHANGED <<step, got, need>>,
           deaf' \in BOOLEAN, deaf' => got # << >> \/ pc' # "wait"
    PROVE  Receiving'
  BY DEF Receiving, Reckoned

LEMMA NotReceiving ==
    ASSUME Receiving, UNCHANGED receive
    PROVE  Receiving'
<1>1. UNCHANGED <<step, got, need>> /\ pc' = pc /\ deaf' = deaf
  BY DEF receive
<1>2. pc \in {"wait", "read", "sleep"} /\ deaf \in BOOLEAN
      /\ (deaf => got # << >> \/ pc # "wait")
  BY DEF Receiving
<1> QED  BY <1>1, <1>2, SameReceiving

\* The line, the master and the settings: the receive is left alone.
LEMMA OthersInv ==
    ASSUME Inv, Others
    PROVE  Inv'
<1>0. Rest /\ Receiving
  BY Parts
<1>1. /\ MaxMsg \in Nat /\ MaxEvent \in Nat /\ want \in Code /\ msgs \in 0 .. MaxMsg
      /\ port \in Port /\ up \in BOOLEAN /\ asking \in Own \cup {"nobody"}
      /\ line \in Seq(Byte) /\ rx \in Seq(Byte) /\ silent \in BOOLEAN
      /\ events \in 0 .. MaxEvent
  BY <1>0, Numbers DEF Rest
<1>2. Event => events' \in 0 .. MaxEvent
  BY <1>1 DEF Event
<1>3. line # << >> => Tail(line) \in Seq(Byte) /\ Append(rx, Head(line)) \in Seq(Byte)
  BY <1>1
<1>4. Append(rx, Noise) \in Seq(Byte)
  BY <1>1 DEF Byte
<1>5. ASSUME NEW c \in Code, Store(c)
      PROVE  Inv'
  <2>1. UNCHANGED receive /\ Rest'
    BY <1>1, <1>2, <1>5 DEF Store, Rest, master, receive
  <2> QED  BY <1>0, <2>1, Parts, NotReceiving
<1>6. CASE Announce
  <2>1. UNCHANGED receive /\ Rest'
    BY <1>1, <1>2, <1>6 DEF Announce, Rest, master, receive
  <2> QED  BY <1>0, <2>1, Parts, NotReceiving
<1>7. ASSUME NEW k \in Own, Ask(k)
      PROVE  Inv'
  <2>1. Frame(k) \in Seq(Byte)
    BY FrameType DEF Kind
  <2>2. UNCHANGED receive /\ Rest'
    BY <1>1, <1>7, <2>1 DEF Ask, PutOnLine, Rest, config, receive
  <2> QED  BY <1>0, <2>2, Parts, NotReceiving
<1>8. ASSUME NEW k \in Alien, Foreign(k)
      PROVE  Inv'
  <2>1. Frame(k) \in Seq(Byte)
    BY FrameType DEF Kind
  <2>2. UNCHANGED receive /\ Rest'
    BY <1>1, <1>2, <1>8, <2>1 DEF Foreign, PutOnLine, Rest, config, receive
  <2> QED  BY <1>0, <2>2, Parts, NotReceiving
<1>9. CASE ByteComes
  <2>1. UNCHANGED receive /\ Rest'
    BY <1>1, <1>3, <1>9 DEF ByteComes, Rest, config, receive
  <2> QED  BY <1>0, <2>1, Parts, NotReceiving
<1>10. CASE ByteDisturbed
  <2>1. UNCHANGED receive /\ Rest'
    BY <1>1, <1>2, <1>3, <1>4, <1>10 DEF ByteDisturbed, Rest, config, receive
  <2> QED  BY <1>0, <2>1, Parts, NotReceiving
<1>11. CASE Silence
  <2>1. UNCHANGED receive /\ Rest'
    BY <1>1, <1>11 DEF Silence, Rest, config, receive
  <2> QED  BY <1>0, <2>1, Parts, NotReceiving
<1> QED  BY <1>5, <1>6, <1>7, <1>8, <1>9, <1>10, <1>11 DEF Others

\* A message breaks the receive, or leaves it where it was.
LEMMA MessageInv ==
    ASSUME Inv, ServeMessage
    PROVE  Inv'
<1>0. Rest /\ Receiving /\ want \in Code /\ port \in Port /\ msgs \in 0 .. MaxMsg
      /\ MaxMsg \in Nat /\ deaf \in BOOLEAN
  BY Parts, Numbers DEF Rest, Receiving
<1>1. Meant(want, Default) \in Port
  BY <1>0 DEF Meant, Port
<1>2. /\ msgs > 0 /\ msgs' = msgs - 1 /\ deaf' = (deaf \/ rx = << >>)
      /\ pc' \in {"read", "sleep"} /\ port' \in Port
      /\ UNCHANGED <<want, up, asking, line, silent, rx, step, got, need, events>>
  BY <1>0, <1>1 DEF ServeMessage, master
<1>3. Rest'
  BY <1>0, <1>2 DEF Rest
<1>4. Receiving'
  <2>1. deaf' \in BOOLEAN /\ pc' # "wait" /\ pc' \in {"wait", "read", "sleep"}
    BY <1>2
  <2> QED  BY <1>0, <1>2, <2>1, SameReceiving
<1> QED  BY <1>3, <1>4, Parts

\* The port is opened again.
LEMMA ReopenInv ==
    ASSUME Inv, Reopen
    PROVE  Inv'
<1>0. Rest /\ Receiving /\ events \in 0 .. MaxEvent /\ MaxEvent \in Nat
  BY Parts, Numbers DEF Rest
<1>1. rx' = << >> /\ UNCHANGED <<want, msgs, port, asking, line, silent>>
  BY DEF Reopen, master
<1>2. Rest'
  <2>1. up' \in BOOLEAN
    BY DEF Reopen
  <2>2. events' \in 0 .. MaxEvent
    BY <1>0 DEF Reopen, Event
  <2> QED  BY <1>0, <1>1, <2>1, <2>2, EmptySeq DEF Rest
<1>3. CASE Fresh
  BY <1>2, <1>3, FreshReceiving, Parts
<1>4. CASE pc' = "read" /\ UNCHANGED <<step, got, need, deaf>>
  <2>1. deaf' \in BOOLEAN
    BY <1>0, <1>4 DEF Receiving
  <2>2. Receiving'
    BY <1>0, <1>4, <2>1, SameReceiving
  <2> QED  BY <1>2, <2>2, Parts
<1> QED  BY <1>3, <1>4 DEF Reopen

\* A silence in a request.
LEMMA TimeoutInv ==
    ASSUME Inv, Timeout
    PROVE  Inv'
<1>1. Rest /\ Fresh /\ UNCHANGED <<config, master, rx, events>>
  BY Parts DEF Timeout
<1>2. Rest'
  BY <1>1 DEF Rest, config, master
<1> QED  BY <1>1, <1>2, FreshReceiving, Parts

-----------------------------------------------------------------------------
\* length_to_read has come to 0.
LEMMA NextStepInv ==
    ASSUME Inv, NEW s \in Seq(Byte), Len(s) = Len(got) + need,
           \A k \in Own : Begins(s, k) => Begins(got, k),
           NextStep(s)
    PROVE  Receiving' /\ asking' \in Own \cup {"nobody"}
<1>0. /\ step \in Classes \cup {"function", "data"} /\ Reckoned
      /\ got \in Seq(Byte) /\ Len(got) \in Nat /\ need \in 1 .. MaxAdu
      /\ Len(got) + need <= MaxAdu /\ deaf \in BOOLEAN
      /\ asking \in Own \cup {"nobody"} /\ MaxAdu \in Nat /\ MaxAdu >= 11
      /\ Len(s) \in Nat /\ Len(s) >= 1 /\ s # << >>
  <2>1. /\ step \in Classes \cup {"function", "data"} /\ Reckoned
        /\ got \in Seq(Byte) /\ need \in 1 .. MaxAdu
        /\ Len(got) + need <= MaxAdu /\ deaf \in BOOLEAN
        /\ asking \in Own \cup {"nobody"} /\ MaxAdu \in Nat /\ MaxAdu >= 11
    BY Numbers DEF Inv, TypeOK
  <2>2. Len(got) \in Nat /\ Len(s) \in Nat
    BY <2>1
  <2>3. Len(s) >= 1
    BY <2>1, <2>2
  <2>4. s # << >>
    BY <2>3, EmptySeq
  <2> QED  BY <2>1, <2>2, <2>3, <2>4
<1>1. "function" \notin Classes /\ "data" \notin Classes /\ "none" \in Classes
  BY DEF Classes
<1>2. \A k \in Own : Begins(s, k) /\ Len(s) >= 2 => s[2] = <<k, 2>>
  BY <1>0 DEF Begins
<1>3. ASSUME step = "function",
             NEW class \in ClassOf(s[2]),
             step' = IF class = "none" THEN "data" ELSE class,
             need' = IF class = "none" THEN 2 ELSE MetaLength(class),
             got' = s, pc' = "wait", UNCHANGED <<asking, deaf>>
      PROVE  Receiving' /\ asking' \in Own \cup {"nobody"}
  <2>1. Len(s) = 2 /\ Len(s) >= 2
    BY <1>0, <1>3 DEF Reckoned
  <2>2. class \in Classes
    BY <1>3, Numbers DEF ClassOf
  <2>3. need' \in 1 .. 9
    BY <1>3, <2>2 DEF Classes, MetaLength
  <2>4. step' \in Classes \cup {"data"} /\ step' # "function"
    BY <1>1, <1>3, <2>2
  <2>5. ASSUME NEW k \in Own, Begins(s, k)
        PROVE  class = Shape[k].class /\ class # "none"
    <3>1. s[2] = <<k, 2>> /\ k \in Kind
      BY <1>2, <2>1, <2>5 DEF Kind
    <3>2. ClassOf(s[2]) = {Shape[k].class}
      BY <3>1 DEF ClassOf
    <3> QED  BY <1>3, <3>2, OwnAssumption
  <2>6. Reckoned'
    <3>1. ASSUME NEW k \in Own, Begins(s, k)
          PROVE  /\ step' = Shape[k].class /\ Len(s) + need' = 2 + MetaLength(step')
                 /\ step' # "data"
      BY <1>1, <1>3, <2>1, <2>2, <2>5, <3>1
    <3>2. \A k \in Own : Begins(got, k)' <=> Begins(s, k)
      BY <1>3 DEF Begins
    <3>3. Len(got') >= 2 /\ got' = s
      BY <1>3, <2>1
    <3> QED  BY <2>4, <3>1, <3>2, <3>3 DEF Reckoned
  <2>7. deaf' \in BOOLEAN /\ got' # << >> /\ got' \in Seq(Byte) /\ pc' = "wait"
    BY <1>0, <1>3
  <2>8. need' \in 1 .. MaxAdu /\ Len(got') + need' <= MaxAdu
    <3>1. MaxAdu \in Nat /\ MaxAdu >= 11
      BY Numbers
    <3>2. need' \in 1 .. MaxAdu
      BY <2>3, <3>1
    <3>3. Len(got') = 2 /\ Len(got') \in Nat
      BY <1>0, <1>3, <2>1
    <3>4. ASSUME NEW a \in Nat, NEW b \in 1 .. 9, a = 2
          PROVE  a + b <= MaxAdu
      BY <3>1, <3>4
    <3>5. Len(got') + need' <= MaxAdu
      BY <2>3, <3>3, <3>4
    <3> QED  BY <3>2, <3>5
  <2> QED  BY <1>0, <1>3, <2>4, <2>6, <2>7, <2>8 DEF Receiving
<1>4. ASSUME step \in Classes, NEW n \in DataLength(step, s), Len(s) + n + 2 <= MaxAdu,
             got' = s, pc' = "wait", step' = "data", need' = n + 2, UNCHANGED <<asking, deaf>>
      PROVE  Receiving' /\ asking' \in Own \cup {"nobody"}
  <2>1. n \in Nat
    BY DataLengthType
  <2>2. need' \in 1 .. MaxAdu /\ Len(s) + need' <= MaxAdu
    BY <1>0, <1>4, <2>1
  <2>3. ASSUME NEW k \in Own, Begins(s, k)
        PROVE  Len(s) + need' = Shape[k].size
    <3>1. step = Shape[k].class /\ Len(s) = 2 + MetaLength(step) /\ k \in Kind
      BY <1>0, <1>4, <2>3 DEF Reckoned, Kind
    <3>2. Shape[k].data \in Nat /\ MetaLength(step) \in Nat
      BY <1>4, <3>1, Numbers
    <3>3. n = Shape[k].data
      <4>1. CASE step = "single"
        <5>1. n = 0
          BY <4>1 DEF DataLength
        <5> QED  BY <3>1, <4>1, <5>1, OwnAssumption
      <4>2. CASE step \in {"multiple", "rw"}
        <5>1. CountAt(step) = Len(s) /\ CountAt(step) \in 1 .. Len(s)
          <6>1. Len(s) \in 1 .. Len(s)
            BY <1>0
          <6> QED  BY <3>1, <4>2, <6>1, CountPlace
        <5>2. s[CountAt(step)] = <<k, CountAt(step)>>
          BY <2>3, <5>1 DEF Begins
        <5>3. DataLength(step, s) = {Shape[k].data}
          BY <3>1, <4>2, <5>2 DEF DataLength
        <5> QED  BY <5>3
      <4> QED  BY <1>4, <3>1, <4>1, <4>2, OwnAssumption DEF Classes
    <3>4. Shape[k].size = 2 + MetaLength(step) + Shape[k].data + 2
      BY <3>1, OwnAssumption
    <3>5. need' = n + 2 /\ Len(s) = 2 + MetaLength(step)
      BY <1>4, <3>1
    <3> HIDE DEF MetaLength
    <3>6. ASSUME NEW a \in Nat, NEW m \in Nat
          PROVE  (2 + m) + (a + 2) = 2 + m + a + 2
      OBVIOUS
    <3> QED  BY <3>2, <3>3, <3>4, <3>5, <3>6
  <2>4. Reckoned'
    BY <1>1, <1>4, <2>3 DEF Reckoned, Begins
  <2> QED  BY <1>0, <1>4, <2>2, <2>4 DEF Receiving
<1>5. ASSUME Fresh, asking' = asking \/ asking' = "nobody"
      PROVE  Receiving' /\ asking' \in Own \cup {"nobody"}
  BY <1>0, <1>5, FreshReceiving
<1>6. ASSUME NEW n \in Nat, ~(Len(s) + n + 2 > MaxAdu)
      PROVE  Len(s) + n + 2 <= MaxAdu
  BY <1>0, <1>6
<1>7. CASE step = "function"
  BY <1>1, <1>3, <1>7 DEF NextStep
<1>8. CASE step \in Classes
  <2>1. PICK n \in DataLength(step, s) :
             IF Len(s) + n + 2 > MaxAdu
             THEN Fresh
             ELSE got' = s /\ pc' = "wait" /\ step' = "data" /\ need' = n + 2 /\ UNCHANGED deaf
    BY <1>1, <1>8 DEF NextStep
  <2>2. n \in Nat /\ asking' = asking
    BY <1>1, <1>8, DataLengthType DEF NextStep
  <2>3. CASE Len(s) + n + 2 > MaxAdu
    BY <1>5, <2>1, <2>2, <2>3
  <2>4. CASE ~(Len(s) + n + 2 > MaxAdu)
    BY <1>4, <1>6, <1>8, <2>1, <2>2, <2>4
  <2> QED  BY <2>3, <2>4
<1>9. CASE step = "data"
  <2>1. Finish(s)
    BY <1>1, <1>9 DEF NextStep
  <2> QED  BY <1>5, <2>1 DEF Finish
<1> QED  BY <1>0, <1>7, <1>8, <1>9

\* A read.
LEMMA ReadInv ==
    ASSUME Inv, Read
    PROVE  Inv'
<1> DEFINE n == Min({Len(rx), need})
           s == got \o SubSeq(rx, 1, n)
<1>0. Rest /\ Receiving /\ TypeOK
  BY Parts DEF Inv
<1>1. /\ n \in Nat /\ n <= need /\ SubSeq(rx, 1, n) \in Seq(Byte)
      /\ Len(SubSeq(rx, 1, n)) = n /\ SubSeq(rx, n + 1, Len(rx)) \in Seq(Byte)
  BY <1>0, ReadSome
<1>2. /\ rx' = SubSeq(rx, n + 1, Len(rx)) /\ UNCHANGED <<config, line, silent, events>>
      /\ IF n = 0 THEN Fresh /\ UNCHANGED asking
         ELSE IF n = need THEN NextStep(s)
         ELSE /\ got' = s /\ need' = need - n /\ pc' = "wait"
              /\ UNCHANGED <<step, deaf, asking>>
  BY DEF Read
<1> HIDE DEF n
<1>3. asking' \in Own \cup {"nobody"} => Rest'
  BY <1>0, <1>1, <1>2 DEF Rest, config
<1>4. got \in Seq(Byte) /\ Len(got) \in Nat /\ need \in 1 .. MaxAdu /\ MaxAdu \in Nat
      /\ Len(got) + need <= MaxAdu /\ Reckoned /\ deaf \in BOOLEAN
      /\ asking \in Own \cup {"nobody"} /\ step \in Classes \cup {"function", "data"}
  BY <1>0, Numbers DEF Receiving, Rest
<1>5. s \in Seq(Byte) /\ Len(s) = Len(got) + n
  BY <1>1, <1>4
<1>6. \A k \in Own : Begins(s, k) => Begins(got, k)
  BY <1>1, <1>4, BeganSo DEF Kind
<1> HIDE DEF s
<1>7. CASE n = 0
  BY <1>2, <1>3, <1>4, <1>7, FreshReceiving, Parts
<1>8. CASE n # 0 /\ n = need
  <2>1. Receiving' /\ asking' \in Own \cup {"nobody"}
    BY <1>2, <1>5, <1>6, <1>8, NextStepInv
  <2> QED  BY <1>3, <2>1, Parts
<1>9. CASE n # 0 /\ n # need
  <2>1. got' = s /\ need' = need - n /\ pc' = "wait" /\ UNCHANGED <<step, deaf, asking>>
    BY <1>2, <1>9
  <2>2. Len(s) + (need - n) = Len(got) + need /\ need - n \in 1 .. MaxAdu /\ Len(s) >= 1
        /\ Len(s) >= Len(got)
    BY <1>1, <1>4, <1>5, <1>9
  <2>3. s # << >>
    BY <2>2, EmptySeq
  <2>4. Reckoned'
    <3>1. ASSUME NEW k \in Own, Begins(s, k)
          PROVE  /\ step \in Classes =>
                       step = Shape[k].class /\ Len(s) + (need - n) = 2 + MetaLength(step)
                 /\ step = "data" => Len(s) + (need - n) = Shape[k].size
      BY <1>4, <1>6, <2>2, <3>1 DEF Reckoned
    <3>2. step = "function" => Len(s) + (need - n) = 2
      BY <1>4, <2>2 DEF Reckoned
    <3>3. step \in Classes => Len(s) >= 2
      BY <1>4, <1>5, <2>2 DEF Reckoned
    <3> QED  BY <2>1, <3>1, <3>2, <3>3 DEF Reckoned, Begins
  <2>5. Receiving'
    BY <1>4, <1>5, <2>1, <2>2, <2>3, <2>4 DEF Receiving
  <2> QED  BY <1>3, <1>4, <2>1, <2>5, Parts
<1> QED  BY <1>7, <1>8, <1>9

-----------------------------------------------------------------------------
\* The receive has just been called.
LEMMA InitInv == Init => Inv
<1> SUFFICES ASSUME Init PROVE Inv
  OBVIOUS
<1>1. /\ MaxMsg \in Nat /\ MaxEvent \in Nat /\ MaxAdu \in Nat /\ MaxAdu >= 11
      /\ "function" \notin Classes
  BY Numbers DEF Classes
<1>2. << >> \in Seq(Byte) /\ Len(<< >>) = 0
  BY EmptySeq
<1>3. Meant(want, Conf) \in Port
  BY DEF Init, Meant, Port
<1>4. Rest
  <2>1. up \in BOOLEAN /\ silent \in BOOLEAN
    BY DEF Init
  <2>2. msgs \in 0 .. MaxMsg /\ events \in 0 .. MaxEvent
    BY <1>1 DEF Init
  <2> QED  BY <1>2, <1>3, <2>1, <2>2 DEF Init, Rest
<1>5. Receiving
  <2>1. deaf \in BOOLEAN /\ ~deaf
    BY DEF Init
  <2>2. 2 \in 1 .. MaxAdu /\ 0 + 2 <= MaxAdu
    BY <1>1
  <2>3. Reckoned
    BY <1>1, <1>2 DEF Init, Reckoned
  <2> QED  BY <1>2, <2>1, <2>2, <2>3 DEF Init, Receiving
<1> QED  BY <1>4, <1>5, Parts

LEMMA Invariance == Spec => []Inv
<1>1. Init => Inv
  BY InitInv
<1>2. Inv /\ [Next]_vars => Inv'
  <2>1. Inv /\ Next => Inv'
    BY OthersInv, MessageInv, ReopenInv, TimeoutInv, ReadInv DEF Next, Thread
  <2>2. Inv /\ UNCHANGED vars => Inv'
    <3> SUFFICES ASSUME Inv, UNCHANGED vars PROVE Inv'
      OBVIOUS
    <3>1. UNCHANGED receive /\ UNCHANGED <<config, master, rx, events>>
      BY DEF vars
    <3>2. Rest'
      BY <3>1, Parts DEF Rest, config, master
    <3> QED  BY <3>1, <3>2, Parts, NotReceiving
  <2> QED  BY <2>1, <2>2
<1> QED  BY <1>1, <1>2, PTL DEF Spec

(***************************************************************************)
(* Type correctness of the serial servers.  It says that receive_msg never *)
(* asks read() for more than the message buffer still holds, whatever is   *)
(* on the line and wherever a message breaks in.                           *)
(***************************************************************************)
THEOREM Types == Spec => []TypeOK
<1>1. Inv => TypeOK
  BY DEF Inv
<1> QED  BY <1>1, Invariance, PTL

(***************************************************************************)
(* A receive that began with a request wants no byte beyond its end, for   *)
(* requests of any functions and lengths.                                  *)
(***************************************************************************)
THEOREM EndsWithRequest == Spec => []NoOverrun
<1>1. Inv => NoOverrun
  <2> SUFFICES ASSUME Inv, NEW k \in Own, got # << >>, IsPrefix(got, Frame(k))
               PROVE  Len(got) + need <= Shape[k].size
    BY DEF NoOverrun
  <2>1. /\ got \in Seq(Byte) /\ need \in 1 .. MaxAdu /\ k \in Kind
        /\ step \in Classes \cup {"function", "data"} /\ Reckoned
    BY DEF Inv, TypeOK, Kind
  <2>2. Begins(got, k)
    BY <2>1, PrefixBegins
  <2>3. /\ Shape[k].size = 2 + MetaLength(Shape[k].class) + Shape[k].data + 2
        /\ MetaLength(Shape[k].class) \in Nat /\ Shape[k].data \in Nat
        /\ Shape[k].size \in Nat
    BY <2>1, Numbers, OwnAssumption
  <2>4. \/ Len(got) + need = 2
        \/ Len(got) + need = 2 + MetaLength(Shape[k].class)
        \/ Len(got) + need = Shape[k].size
    BY <2>1, <2>2 DEF Reckoned
  <2> QED  BY <2>3, <2>4
<1> QED  BY <1>1, Invariance, PTL

===============================================================================
