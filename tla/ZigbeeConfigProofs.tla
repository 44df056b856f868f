------------------------- MODULE ZigbeeConfigProofs -------------------------
(***************************************************************************)
(* Proofs about ZigbeeConfig, for any settings, parameters, number of      *)
(* tries and bounds.                                                       *)
(***************************************************************************)
EXTENDS ZigbeeConfig, TLAPS

-----------------------------------------------------------------------------
(***************************************************************************)
(* The inductive invariant.                                                *)
(***************************************************************************)
\* The step of a call that has the radio store its settings.
StoreStep == Len(Setting) + 2

\* The replies on the way to the thread.
Coming == ToSet(line) \cup ToSet(rx)

\* A call that waits, or that another call interrupts, is past the orders;
\* one that is about to send has a try left.
PastOrders ==
    /\ \A i \in 1 .. Len(stack) - 1 : stack[i].step > 1
    /\ stack # << >> /\ pc # "send" => Top.step > 1
    /\ pc = "send" => Top.tries < Resend

\* The radio has the settings the thread thinks it has, and has stored them.
Working(s) == radio[s] = saved
Stored == \A s \in Settings : kept[s] = saved
InPlace == Stored /\ \A s \in Settings : Working(s)

\* The call c sets the newest parameters: what it is past, and every reply
\* that is still on the way, stands for what the radio has.
Progress(c) ==
    /\ c.par = saved
    /\ \A i \in 1 .. c.step - 1 : Steps[i] \in Settings => Working(Steps[i])
    /\ c.step > StoreStep => Stored
    /\ c.step > 1 =>
         /\ \A s \in Settings \cap Coming : Working(s)
         /\ "WR" \in Coming => Stored

\* Unless an exchange was given up, older settings were sent or old replies left
\* over, the settings are in place or the innermost call is on the way to put
\* them there.
Converging ==
    ~gaveUp /\ ~stale /\ ~leftover => InPlace \/ (stack # << >> /\ Progress(Top))

Inv == TypeOK /\ PastOrders /\ Converging

-----------------------------------------------------------------------------
(***************************************************************************)
(* Sequences.                                                              *)
(***************************************************************************)
\* Adding and taking a member.
LEMMA SeqSets ==
    ASSUME NEW T, NEW s \in Seq(T)
    PROVE  /\ ToSet(s) \subseteq T /\ Len(s) \in Nat /\ (s # << >> <=> Len(s) > 0)
           /\ \A e \in T : /\ Append(s, e) \in Seq(T) /\ Len(Append(s, e)) = Len(s) + 1
                           /\ ToSet(Append(s, e)) = ToSet(s) \cup {e}
           /\ s # << >> => /\ Head(s) \in ToSet(s) /\ Head(s) \in T
                           /\ Tail(s) \in Seq(T) /\ Len(Tail(s)) = Len(s) - 1
                           /\ ToSet(Tail(s)) \subseteq ToSet(s)
<1>1. ToSet(s) \subseteq T /\ Len(s) \in Nat /\ (s # << >> <=> Len(s) > 0)
  BY DEF ToSet
<1>2. ASSUME NEW e \in T
      PROVE  /\ Append(s, e) \in Seq(T) /\ Len(Append(s, e)) = Len(s) + 1
             /\ ToSet(Append(s, e)) = ToSet(s) \cup {e}
  <2>1. Append(s, e) \in Seq(T) /\ Len(Append(s, e)) = Len(s) + 1
    OBVIOUS
  <2>2. \A i \in 1 .. Len(s) : Append(s, e)[i] = s[i]
    OBVIOUS
  <2>3. Append(s, e)[Len(s) + 1] = e
    OBVIOUS
  <2>4. DOMAIN Append(s, e) = DOMAIN s \cup {Len(s) + 1} /\ DOMAIN s = 1 .. Len(s)
    BY <2>1
  <2> QED BY <2>1, <2>2, <2>3, <2>4 DEF ToSet
<1>3. ASSUME s # << >>
      PROVE  /\ Head(s) \in ToSet(s) /\ Head(s) \in T
             /\ Tail(s) \in Seq(T) /\ Len(Tail(s)) = Len(s) - 1
             /\ ToSet(Tail(s)) \subseteq ToSet(s)
  <2>1. Head(s) = s[1] /\ 1 \in 1 .. Len(s)
    BY <1>3
  <2>2. /\ Tail(s) \in Seq(T) /\ Len(Tail(s)) = Len(s) - 1
        /\ \A i \in 1 .. Len(s) - 1 : Tail(s)[i] = s[i + 1]
    BY <1>3
  <2>3. DOMAIN Tail(s) = 1 .. Len(s) - 1 /\ DOMAIN s = 1 .. Len(s)
    BY <1>1, <2>2
  <2>4. \A i \in DOMAIN Tail(s) : i + 1 \in DOMAIN s
    BY <1>1, <2>3
  <2>5. ToSet(Tail(s)) \subseteq ToSet(s)
    BY <2>2, <2>3, <2>4 DEF ToSet
  <2> QED BY <2>1, <2>2, <2>5 DEF ToSet
<1> QED BY <1>1, <1>2, <1>3

\* A sequence cut in two, and two put together.
LEMMA SeqParts ==
    ASSUME NEW T, NEW s \in Seq(T), NEW n \in 0 .. Len(s)
    PROVE  /\ SubSeq(s, 1, n) \in Seq(T) /\ Len(SubSeq(s, 1, n)) = n
           /\ SubSeq(s, n + 1, Len(s)) \in Seq(T)
           /\ Len(SubSeq(s, n + 1, Len(s))) = Len(s) - n
OBVIOUS

LEMMA SeqJoin ==
    ASSUME NEW T, NEW r \in Seq(T), NEW s \in Seq(T)
    PROVE  r \o s \in Seq(T) /\ Len(r \o s) = Len(r) + Len(s)
OBVIOUS

\* A stack of calls: a call is added, its top is replaced, a call is removed.
LEMMA StackPush ==
    ASSUME NEW T, NEW s \in Seq(T), NEW c \in T
    PROVE  /\ Append(s, c) \in Seq(T) /\ Append(s, c) # << >> /\ Last(Append(s, c)) = c
           /\ Len(Append(s, c)) = Len(s) + 1
           /\ \A i \in 1 .. Len(s) : Append(s, c)[i] = s[i]
BY DEF Last

LEMMA StackTop ==
    ASSUME NEW T, NEW s \in Seq(T), s # << >>
    PROVE  Last(s) \in T /\ Len(s) \in Nat \ {0} /\ Last(s) = s[Len(s)]
BY DEF Last

LEMMA StackPop ==
    ASSUME NEW T, NEW s \in Seq(T), s # << >>, NEW r, r = Front(s)
    PROVE  /\ r \in Seq(T) /\ Len(r) = Len(s) - 1
           /\ \A i \in 1 .. Len(s) - 1 : r[i] = s[i]
           /\ r # << >> => Last(r) = s[Len(s) - 1] /\ Len(s) - 1 > 0
<1>1. PICK n \in Nat : n = Len(s) - 1
  BY StackTop
<1>2. r = SubSeq(s, 1, n) /\ n <= Len(s) /\ \A i \in 1 .. n : s[i] \in T
  BY <1>1 DEF Front
<1>3. r \in Seq(T) /\ Len(r) = n
  BY <1>2
<1>4. \A i \in 1 .. n : r[i] = s[i]
  BY <1>2
<1>5. r # << >> => Last(r) = s[n] /\ n > 0
  BY <1>3, <1>4 DEF Last
<1> QED BY <1>1, <1>3, <1>4, <1>5

\* A sequence between a first and two last members.
LEMMA Framed ==
    ASSUME NEW T, NEW s \in Seq(T), NEW a \in T, NEW b \in T, NEW c \in T,
           NEW r, r = <<a>> \o s \o <<b, c>>
    PROVE  /\ Len(r) = Len(s) + 3 /\ DOMAIN r = 1 .. Len(s) + 3
           /\ r[1] = a /\ r[Len(s) + 2] = b /\ r[Len(s) + 3] = c
           /\ \A i \in 1 .. Len(s) : r[i + 1] = s[i]
<1>1. PICK p \in Seq(T) : p = <<a>> \o s
  <2>1. <<a>> \in Seq(T)
    OBVIOUS
  <2>2. <<a>> \o s \in Seq(T)
    BY <2>1
  <2> QED BY <2>2
<1>2. Len(p) = Len(s) + 1 /\ p[1] = a /\ \A i \in 1 .. Len(s) : p[i + 1] = s[i]
  BY <1>1
<1>3. r = p \o <<b, c>>
  BY <1>1
<1>4. Len(r) = Len(p) + 2 /\ DOMAIN r = 1 .. Len(p) + 2
  BY <1>3
<1>5. r[Len(p) + 1] = b /\ r[Len(p) + 2] = c
  BY <1>3
<1>6. \A i \in 1 .. Len(p) : r[i] = p[i]
  BY <1>3
<1> QED BY <1>2, <1>4, <1>5, <1>6

-----------------------------------------------------------------------------
(***************************************************************************)
(* The steps of a call.                                                    *)
(***************************************************************************)
\* at, the settings in order, WR, NR.
LEMMA StepsAre ==
    /\ Len(Setting) \in Nat /\ Len(Steps) = Len(Setting) + 3
    /\ DOMAIN Steps = 1 .. Len(Setting) + 3
    /\ Steps[1] = "at" /\ Steps[StoreStep] = "WR" /\ Steps[StoreStep + 1] = "NR"
    /\ \A i \in 1 .. Len(Setting) : Steps[i + 1] = Setting[i]
<1>1. Setting \in Seq(STRING) /\ Len(Setting) \in Nat
  BY ZigbeeAssumption
<1>2. /\ Len(Steps) = Len(Setting) + 3 /\ DOMAIN Steps = 1 .. Len(Setting) + 3
      /\ Steps[1] = "at" /\ Steps[Len(Setting) + 2] = "WR" /\ Steps[Len(Setting) + 3] = "NR"
      /\ \A i \in 1 .. Len(Setting) : Steps[i + 1] = Setting[i]
  <2> DEFINE S == ToSet(Setting) \cup {"at", "WR", "NR"}
  <2>1. "at" \in S /\ "WR" \in S /\ "NR" \in S
    OBVIOUS
  <2>2. Setting \in Seq(S)
    BY <1>1 DEF ToSet
  <2> HIDE DEF S
  <2> QED BY <2>1, <2>2, Framed DEF Steps
<1> QED BY <1>1, <1>2 DEF StoreStep

\* The names of the steps that are not settings are no names of settings.
LEMMA StepNames ==
    /\ {"at", "WR", "NR", "junk"} \cap Settings = {}
    /\ \A s \in Settings : \E i \in 2 .. StoreStep - 1 : Steps[i] = s
    /\ \A i \in DOMAIN Steps : Steps[i] \in Settings => i < StoreStep
    /\ \A i \in DOMAIN Steps : Steps[i] = "WR" => i = StoreStep
    /\ \A i \in DOMAIN Steps : Steps[i] = "at" => i = 1
    /\ \A i \in DOMAIN Steps : Steps[i] \in ToSet(Steps) /\ Steps[i] # "junk"
    /\ StoreStep \in Nat /\ StoreStep > 1 /\ Len(Steps) = StoreStep + 1
    /\ DOMAIN Steps = 1 .. StoreStep + 1
<1>1. StoreStep \in Nat /\ StoreStep > 1 /\ Len(Steps) = StoreStep + 1
      /\ DOMAIN Steps = 1 .. StoreStep + 1
  BY StepsAre DEF StoreStep
<1>2. /\ \A i \in 1 .. Len(Setting) : Setting[i] \in Settings
      /\ \A s \in Settings : \E i \in 1 .. Len(Setting) : Setting[i] = s
  BY ZigbeeAssumption DEF Settings, ToSet
<1>3. {"at", "WR", "NR", "junk"} \cap Settings = {}
  BY <1>2, ZigbeeAssumption
<1>4. \A s \in Settings : \E i \in 2 .. StoreStep - 1 : Steps[i] = s
  <2> SUFFICES ASSUME NEW s \in Settings PROVE \E i \in 2 .. StoreStep - 1 : Steps[i] = s
    OBVIOUS
  <2>1. PICK i \in 1 .. Len(Setting) : Setting[i] = s
    BY <1>2
  <2>2. i + 1 \in 2 .. StoreStep - 1 /\ Steps[i + 1] = Setting[i]
    BY StepsAre DEF StoreStep
  <2> QED BY <2>1, <2>2
<1>5. ASSUME NEW i \in DOMAIN Steps
      PROVE  \/ i = 1 /\ Steps[i] = "at"
             \/ i \in 2 .. StoreStep - 1 /\ Steps[i] \in Settings
             \/ i = StoreStep /\ Steps[i] = "WR"
             \/ i = StoreStep + 1 /\ Steps[i] = "NR"
  <2>1. CASE i \in 2 .. StoreStep - 1
    <3>1. i - 1 \in 1 .. Len(Setting) /\ (i - 1) + 1 = i
      BY <2>1, StepsAre DEF StoreStep
    <3>2. Steps[i] = Setting[i - 1]
      BY <3>1, StepsAre
    <3> QED BY <1>2, <2>1, <3>1, <3>2
  <2>2. CASE i \notin 2 .. StoreStep - 1
    BY <1>1, <2>2, StepsAre
  <2> QED BY <2>1, <2>2
<1>6. \A i \in DOMAIN Steps : Steps[i] \in ToSet(Steps)
  BY StepsAre DEF ToSet
<1>7. \A i \in DOMAIN Steps : Steps[i] \in Settings => i < StoreStep
  BY <1>1, <1>3, <1>5
<1>8. \A i \in DOMAIN Steps : Steps[i] = "WR" => i = StoreStep
  BY <1>3, <1>5
<1>9. \A i \in DOMAIN Steps : Steps[i] = "at" => i = 1
  BY <1>3, <1>5
<1>10. \A i \in DOMAIN Steps : Steps[i] # "junk"
  BY <1>3, <1>5
<1> QED BY <1>1, <1>3, <1>4, <1>6, <1>7, <1>8, <1>9, <1>10

-----------------------------------------------------------------------------
(***************************************************************************)
(* What the steps make of the stack and of the frames on the way.          *)
(***************************************************************************)
\* The innermost call, and what becomes of it.
LEMMA TopType ==
    ASSUME TypeOK, stack # << >>
    PROVE  /\ Top \in Call /\ Top.par \in Param /\ Top.step \in 1 .. StoreStep + 1
           /\ Top.tries \in 0 .. Resend /\ Top.back \in {"wait", "read"}
           /\ Step \in ToSet(Steps) /\ Step = Steps[Top.step]
<1>1. Top \in Call
  BY StackTop DEF TypeOK, Top
<1>2. /\ Top.par \in Param /\ Top.step \in 1 .. StoreStep + 1
      /\ Top.tries \in 0 .. Resend /\ Top.back \in {"wait", "read"}
  BY <1>1, StepNames DEF Call
<1> QED BY <1>1, <1>2, StepNames DEF Step

LEMMA CallType ==
    ASSUME NEW c \in Call
    PROVE  /\ \A n \in 1 .. StoreStep + 1 :
                LET d == [c EXCEPT !.step = n]
                IN  d \in Call /\ d.step = n /\ d.par = c.par /\ d.tries = c.tries
           /\ \A n \in 1 .. StoreStep + 1 :
                LET d == [c EXCEPT !.step = n, !.tries = 0]
                IN  d \in Call /\ d.step = n /\ d.par = c.par /\ d.tries = 0
           /\ \A n \in 0 .. Resend :
                LET d == [c EXCEPT !.tries = n]
                IN  d \in Call /\ d.step = c.step /\ d.par = c.par
<1>1. Call = [par : Param, step : 1 .. StoreStep + 1, tries : 0 .. Resend,
              back : {"wait", "read"}]
  BY StepNames DEF Call
<1>2. 0 \in 0 .. Resend
  BY ZigbeeAssumption
<1> QED BY <1>1, <1>2

LEMMA NewCallType ==
    ASSUME NEW p \in Param, NEW back \in {"wait", "read"}
    PROVE  LET c == NewCall(p, back)
           IN  c \in Call /\ c.par = p /\ c.step = 1 /\ c.tries = 0
BY StepNames, ZigbeeAssumption DEF NewCall, Call

\* The top is replaced.
LEMMA TopReplaced ==
    ASSUME TypeOK, stack # << >>, NEW c \in Call, SetTop(c)
    PROVE  /\ stack' \in Seq(Call) /\ stack' # << >>
           /\ Top' = c /\ Len(stack') = Len(stack)
           /\ \A i \in 1 .. Len(stack) - 1 : stack'[i] = stack[i]
<1>1. stack \in Seq(Call)
  BY DEF TypeOK
<1>2. stack' = [stack EXCEPT ![Len(stack)] = c]
  BY DEF SetTop
<1>3. Top' = Last(stack')
  BY DEF Top
<1>4. stack' \in Seq(Call) /\ Len(stack') = Len(stack) /\ stack'[Len(stack)] = c
  BY <1>1, <1>2, StackTop
<1>5. \A i \in 1 .. Len(stack) - 1 : stack'[i] = stack[i]
  BY <1>1, <1>2, StackTop
<1>6. stack' # << >> /\ Last(stack') = c
  BY <1>1, <1>4, StackTop DEF Last
<1> QED BY <1>3, <1>4, <1>5, <1>6

\* Where a call is after a step: at its next one, or over.
LEMMA StepDone ==
    ASSUME TypeOK, PastOrders, stack # << >>, pc # "send", NextStep
    PROVE  /\ stack' \in Seq(Call) /\ pc' \in {"send", "wait", "read"}
           /\ pc' = "send" => stack' # << >>
           /\ PastOrders'
           /\ \/ /\ Top.step < StoreStep + 1 /\ stack' # << >>
                 /\ (Top.par)' = Top.par /\ (Top.step)' = Top.step + 1
              \/ Top.step = StoreStep + 1
<1>1. /\ stack \in Seq(Call) /\ Top \in Call /\ Top.step \in 1 .. StoreStep + 1
      /\ Top.back \in {"wait", "read"} /\ Top.step > 1
  BY TopType DEF TypeOK, PastOrders
<1>2. Len(Steps) = StoreStep + 1 /\ StoreStep \in Nat
  BY StepNames
<1>3. Len(stack) \in Nat \ {0}
  BY <1>1, StackTop
<1>4. CASE Top.step < Len(Steps)
  <2> DEFINE c == [Top EXCEPT !.step = Top.step + 1, !.tries = 0]
  <2>1. SetTop(c) /\ pc' = "send"
    BY <1>4 DEF NextStep
  <2>2. Top.step + 1 \in 1 .. StoreStep + 1
    BY <1>1, <1>2, <1>4
  <2>3. c \in Call /\ c.step = Top.step + 1 /\ c.par = Top.par /\ c.tries = 0
    BY <1>1, <2>2, CallType
  <2> HIDE DEF c
  <2>4. /\ stack' \in Seq(Call) /\ stack' # << >>
        /\ Top' = c /\ Len(stack') = Len(stack)
        /\ \A i \in 1 .. Len(stack) - 1 : stack'[i] = stack[i]
    BY <2>1, <2>3, TopReplaced
  <2>5. PastOrders'
    BY <2>1, <2>3, <2>4, ZigbeeAssumption DEF PastOrders
  <2> QED BY <1>2, <1>4, <2>1, <2>3, <2>4, <2>5
<1>5. CASE ~(Top.step < Len(Steps))
  <2>1. pc' = Top.back /\ stack' = Front(stack)
    BY <1>5 DEF NextStep
  <2>2. /\ stack' \in Seq(Call) /\ Len(stack') = Len(stack) - 1
        /\ \A i \in 1 .. Len(stack) - 1 : stack'[i] = stack[i]
        /\ stack' # << >> => Last(stack') = stack[Len(stack) - 1] /\ Len(stack) - 1 > 0
    BY <1>1, <2>1, StackPop
  <2>3. \A i \in 1 .. Len(stack') - 1 : (stack'[i]).step > 1
    BY <1>3, <2>2 DEF PastOrders
  <2>4. stack' # << >> => (Top.step)' > 1
    <3>1. stack' # << >> => Len(stack) - 1 \in 1 .. Len(stack) - 1
      BY <1>3, <2>2
    <3> QED BY <2>2, <3>1 DEF PastOrders, Top
  <2>5. PastOrders'
    BY <1>1, <2>1, <2>3, <2>4 DEF PastOrders
  <2>6. Top.step = StoreStep + 1
    BY <1>1, <1>2, <1>5
  <2> QED BY <1>1, <2>1, <2>2, <2>5, <2>6
<1> QED BY <1>4, <1>5

\* After a failed try there is another one, or the exchange is given up.
LEMMA TryFailed ==
    ASSUME TypeOK, PastOrders, stack # << >>, pc # "send", Failed
    PROVE  /\ stack' \in Seq(Call) /\ pc' \in {"send", "wait", "read"}
           /\ pc' = "send" => stack' # << >>
           /\ PastOrders' /\ gaveUp' \in BOOLEAN
           /\ gaveUp' \/ (stack' = stack /\ gaveUp' = gaveUp)
<1>1. CASE Top.tries < Resend
  <2>1. pc' = "send" /\ stack' = stack /\ gaveUp' = gaveUp
    BY <1>1 DEF Failed
  <2>2. Top' = Top
    BY <2>1 DEF Top
  <2>3. PastOrders'
    BY <1>1, <2>1, <2>2 DEF PastOrders
  <2> QED BY <2>1, <2>3 DEF TypeOK
<1>2. CASE ~(Top.tries < Resend)
  <2>1. gaveUp' = TRUE /\ NextStep
    BY <1>2 DEF Failed
  <2> QED BY <2>1, StepDone
<1> QED BY <1>1, <1>2

\* Frames that are taken or lost, and frames of meters, stand for nothing.
LEMMA FramesPass ==
    ASSUME Converging, UNCHANGED <<saved, radio, kept>>, gaveUp' = gaveUp, stale' = stale,
           leftover' = leftover,
           stack' = stack, Coming' \subseteq Coming \cup {"junk"}
    PROVE  Converging'
<1>1. /\ Stored' = Stored /\ InPlace' = InPlace /\ Top' = Top
      /\ \A s : Working(s)' = Working(s)
  BY DEF Stored, InPlace, Working, Top
<1>2. Settings \cap Coming' \subseteq Settings \cap Coming
  BY StepNames
<1>3. "WR" \in Coming' => "WR" \in Coming
  OBVIOUS
<1>4. Progress(Top) => Progress(Top)'
  BY <1>1, <1>2, <1>3 DEF Progress
<1> QED BY <1>1, <1>4 DEF Converging

-----------------------------------------------------------------------------
(***************************************************************************)
(* The invariant holds at the start, and each step keeps it.               *)
(***************************************************************************)
\* A call with the newest parameters that has done nothing is converging.
LEMMA FreshCall ==
    ASSUME NEW p \in Param, NEW back \in {"wait", "read"}, saved' = p,
           stack' # << >>, Top' = NewCall(p, back)
    PROVE  Converging'
<1>1. (Top.par)' = p /\ (Top.step)' = 1
  BY NewCallType
<1>2. Progress(Top)'
  <2>1. 1 .. (Top.step)' - 1 = {} /\ ~((Top.step)' > 1)
    BY <1>1
  <2>2. ~((Top.step)' > StoreStep)
    BY <1>1, StepNames
  <2> QED BY <1>1, <2>1, <2>2 DEF Progress
<1> QED BY <1>2 DEF Converging

\* The first call, at the start and at each restart.
LEMMA FirstCall ==
    ASSUME NEW s, NEW p \in Param, s = <<NewCall(p, "wait")>>
    PROVE  /\ s \in Seq(Call) /\ s # << >> /\ Last(s) = NewCall(p, "wait")
           /\ Len(s) = 1 /\ Last(s).tries < Resend
<1>1. NewCall(p, "wait") \in Call /\ NewCall(p, "wait").tries = 0
  BY NewCallType
<1> QED BY <1>1, ZigbeeAssumption DEF Last

\* The thread starts.
LEMMA InitInv == Init => Inv
<1> SUFFICES ASSUME Init PROVE Inv
  OBVIOUS
<1>1. /\ stack = <<NewCall(want, "wait")>> /\ want \in Param /\ saved = want
      /\ pc = "send" /\ line = << >> /\ rx = << >> /\ gaveUp = FALSE /\ stale = FALSE
      /\ leftover = FALSE
  BY DEF Init
<1>2. /\ stack \in Seq(Call) /\ stack # << >> /\ Top = NewCall(want, "wait")
      /\ Len(stack) = 1 /\ Top.tries < Resend
  BY <1>1, FirstCall DEF Top
<1>3. TypeOK
  <2>1. radio \in [Settings -> Param] /\ kept \in [Settings -> Param]
    BY DEF Init
  <2>2. line \in Seq(ToSet(Steps)) /\ rx \in Seq(ToSet(Steps) \cup {"junk"}) /\ Len(line) + Len(rx) <= MaxRx
    BY <1>1, ZigbeeAssumption
  <2>3. queue \in Seq({"start", "sync"}) /\ Len(queue) <= MaxMsg
    BY ZigbeeAssumption DEF Init
  <2>4. events \in 0 .. MaxEvent
    BY ZigbeeAssumption DEF Init
  <2>7. api \in BOOLEAN
    BY DEF Init
  <2>5. gaveUp \in BOOLEAN /\ stale \in BOOLEAN /\ leftover \in BOOLEAN
    BY <1>1
  <2>6. want \in Param /\ saved \in Param /\ pc \in {"send", "wait", "read"}
    BY <1>1
  <2> QED BY <1>2, <2>1, <2>2, <2>3, <2>4, <2>5, <2>6, <2>7 DEF TypeOK
<1>4. PastOrders
  BY <1>1, <1>2 DEF PastOrders
<1>5. Progress(Top)
  <2>1. Top.par = saved /\ Top.step = 1
    BY <1>1, <1>2, NewCallType
  <2>2. 1 .. Top.step - 1 = {} /\ ~(Top.step > 1) /\ ~(Top.step > StoreStep)
    BY <2>1, StepNames
  <2> QED BY <2>1, <2>2 DEF Progress
<1> QED BY <1>2, <1>3, <1>4, <1>5 DEF Inv, Converging

\* The rest of the RTU, the radio and the meters.
LEMMA OthersInv == ASSUME Inv, Others PROVE Inv'
<1>0. /\ TypeOK /\ PastOrders /\ Converging
      /\ stack \in Seq(Call)
      /\ line \in Seq(ToSet(Steps)) /\ rx \in Seq(ToSet(Steps) \cup {"junk"})
  BY DEF Inv, TypeOK
<1>1. ASSUME NEW p \in Param, Store(p) PROVE Inv'
  <2>1. TypeOK'
    BY <1>0, <1>1, ZigbeeAssumption DEF Store, TypeOK, calls, radios, input, ghosts
  <2>2. PastOrders'
    BY <1>0, <1>1 DEF Store, PastOrders, Top, calls
  <2>3. Converging'
    BY <1>0, <1>1, FramesPass DEF Store, calls, radios, input, ghosts, Coming
  <2> QED BY <2>1, <2>2, <2>3 DEF Inv
<1>2. ASSUME NEW m \in {"start", "sync"}, Send(m) PROVE Inv'
  <2>1. TypeOK'
    <3>1. Append(queue, m) \in Seq({"start", "sync"}) /\ Len(Append(queue, m)) = Len(queue) + 1
      BY <1>0 DEF TypeOK
    <3> QED BY <1>0, <1>2, <3>1, ZigbeeAssumption DEF Send, TypeOK, calls, radios, input, ghosts
  <2>2. PastOrders'
    BY <1>0, <1>2 DEF Send, PastOrders, Top, calls
  <2>3. Converging'
    BY <1>0, <1>2, FramesPass DEF Send, calls, radios, input, ghosts, Coming
  <2> QED BY <2>1, <2>2, <2>3 DEF Inv
<1>3. ASSUME ReplyComes PROVE Inv'
  <2>1. /\ Head(line) \in ToSet(line) /\ Head(line) \in ToSet(Steps)
        /\ Tail(line) \in Seq(ToSet(Steps)) /\ Len(Tail(line)) = Len(line) - 1
        /\ ToSet(Tail(line)) \subseteq ToSet(line)
        /\ Len(line) \in Nat /\ Len(rx) \in Nat
        /\ Append(rx, Head(line)) \in Seq(ToSet(Steps) \cup {"junk"})
        /\ Len(Append(rx, Head(line))) = Len(rx) + 1
        /\ ToSet(Append(rx, Head(line))) = ToSet(rx) \cup {Head(line)}
    <3>1. line # << >>
      BY <1>3 DEF ReplyComes
    <3>2. /\ Head(line) \in ToSet(line) /\ Head(line) \in ToSet(Steps)
          /\ Tail(line) \in Seq(ToSet(Steps)) /\ Len(Tail(line)) = Len(line) - 1
          /\ ToSet(Tail(line)) \subseteq ToSet(line) /\ Len(line) \in Nat
      BY <1>0, <3>1, SeqSets
    <3> QED BY <1>0, <3>2, SeqSets
  <2>2. TypeOK'
    BY <1>0, <1>3, <2>1 DEF ReplyComes, TypeOK, calls, radios, ghosts
  <2>3. PastOrders'
    BY <1>0, <1>3 DEF ReplyComes, PastOrders, Top, calls
  <2>4. Coming' \subseteq Coming
    BY <1>3, <2>1 DEF ReplyComes, Coming
  <2>5. Converging'
    BY <1>0, <1>3, <2>4, FramesPass DEF ReplyComes, calls, radios, ghosts
  <2> QED BY <2>2, <2>3, <2>5 DEF Inv
<1>4. ASSUME Junk PROVE Inv'
  <2>1. /\ Append(rx, "junk") \in Seq(ToSet(Steps) \cup {"junk"})
        /\ Len(Append(rx, "junk")) = Len(rx) + 1 /\ Len(line) \in Nat /\ Len(rx) \in Nat
        /\ ToSet(Append(rx, "junk")) = ToSet(rx) \cup {"junk"}
    BY <1>0, SeqSets
  <2>2. TypeOK'
    BY <1>0, <1>4, <2>1, ZigbeeAssumption DEF Junk, TypeOK, calls, radios, ghosts
  <2>3. PastOrders'
    BY <1>0, <1>4 DEF Junk, PastOrders, Top, calls
  <2>4. Coming' \subseteq Coming \cup {"junk"}
    BY <1>4, <2>1 DEF Junk, Coming
  <2>5. Converging'
    BY <1>0, <1>4, <2>4, FramesPass DEF Junk, calls, radios, ghosts
  <2> QED BY <2>2, <2>3, <2>5 DEF Inv
<1>5. ASSUME Restart PROVE Inv'
  <2>1. /\ stack' = <<NewCall(want, "wait")>> /\ want \in Param /\ saved' = want /\ pc' = "send"
        /\ line' = << >> /\ rx' = << >>
    BY <1>0, <1>5 DEF Restart, TypeOK
  <2>2. /\ stack' \in Seq(Call) /\ stack' # << >> /\ Top' = NewCall(want, "wait")
        /\ Len(stack') = 1 /\ (Top.tries)' < Resend
    BY <2>1, FirstCall DEF Top
  <2>3. TypeOK'
    <3>1. /\ line' \in Seq(ToSet(Steps)) /\ rx' \in Seq(ToSet(Steps) \cup {"junk"})
          /\ Len(line') + Len(rx') <= MaxRx
      BY <2>1, ZigbeeAssumption
    <3>2. queue' \in Seq({"start", "sync"}) /\ Len(queue') <= MaxMsg
      BY <1>5, ZigbeeAssumption DEF Restart
    <3>3. events' \in 0 .. MaxEvent
      BY <1>0, <1>5, ZigbeeAssumption DEF Restart, TypeOK
    <3>5. gaveUp' \in BOOLEAN /\ stale' \in BOOLEAN /\ leftover' \in BOOLEAN
      BY <1>5 DEF Restart
    <3>4. /\ want' \in Param /\ saved' \in Param /\ pc' \in {"send", "wait", "read"}
          /\ api' \in BOOLEAN
          /\ radio' \in [Settings -> Param] /\ kept' \in [Settings -> Param]
      BY <1>0, <1>5, <2>1 DEF Restart, TypeOK, radios
    <3> QED BY <2>2, <3>1, <3>2, <3>3, <3>4, <3>5 DEF TypeOK
  <2>4. PastOrders'
    BY <2>1, <2>2 DEF PastOrders
  <2>5. Converging'
    BY <2>1, <2>2, FreshCall
  <2> QED BY <2>3, <2>4, <2>5 DEF Inv
<1> QED BY <1>1, <1>2, <1>3, <1>4, <1>5 DEF Others

\* Taking the first of the frames that have come in.
LEMMA FrameTaken ==
    ASSUME TypeOK, rx' = IF rx = << >> THEN rx ELSE Tail(rx), line' = line
    PROVE  /\ line' \in Seq(ToSet(Steps)) /\ rx' \in Seq(ToSet(Steps) \cup {"junk"})
           /\ Len(line') + Len(rx') <= MaxRx
           /\ Coming' \subseteq Coming
<1>1. /\ line \in Seq(ToSet(Steps)) /\ rx \in Seq(ToSet(Steps) \cup {"junk"})
      /\ Len(line) + Len(rx) <= MaxRx /\ Len(line) \in Nat /\ Len(rx) \in Nat /\ MaxRx \in Nat
  BY ZigbeeAssumption, SeqSets DEF TypeOK
<1>2. CASE rx = << >>
  BY <1>1, <1>2 DEF Coming
<1>3. CASE rx # << >>
  <2>1. /\ rx' = Tail(rx) /\ Tail(rx) \in Seq(ToSet(Steps) \cup {"junk"})
        /\ Len(Tail(rx)) = Len(rx) - 1 /\ ToSet(Tail(rx)) \subseteq ToSet(rx)
    BY <1>1, <1>3, SeqSets
  <2>2. Coming' \subseteq Coming
    BY <2>1 DEF Coming
  <2> QED BY <1>1, <2>1, <2>2
<1> QED BY <1>2, <1>3

\* A message is served; it may start a call inside the running one.
LEMMA ServeMessageInv == ASSUME Inv, ServeMessage PROVE Inv'
<1>1. /\ TypeOK /\ PastOrders /\ Converging /\ stack \in Seq(Call)
      /\ pc = "wait" /\ queue # << >> /\ queue' = Tail(queue)
      /\ UNCHANGED <<want, api, radio, kept, line, rx, events>>
  BY DEF Inv, TypeOK, ServeMessage, radios, input
<1>2. queue' \in Seq({"start", "sync"}) /\ Len(queue') <= MaxMsg
  <2>1. queue \in Seq({"start", "sync"}) /\ Len(queue) <= MaxMsg /\ MaxMsg \in Nat
    BY <1>1, ZigbeeAssumption DEF TypeOK
  <2>2. Tail(queue) \in Seq({"start", "sync"}) /\ Len(Tail(queue)) = Len(queue) - 1
        /\ Len(queue) \in Nat
    BY <1>1, <2>1, SeqSets
  <2> QED BY <1>1, <2>1, <2>2
<1>3. CASE pc' = "read" /\ UNCHANGED <<saved, stack, ghosts>>
  <2>1. TypeOK'
    BY <1>1, <1>2, <1>3 DEF TypeOK, ghosts
  <2>2. PastOrders'
    BY <1>1, <1>3 DEF PastOrders, Top
  <2>3. Converging'
    BY <1>1, <1>3, FramesPass DEF Coming, ghosts
  <2> QED BY <2>1, <2>2, <2>3 DEF Inv
<1>4. CASE /\ saved' = want
           /\ stack' = Append(stack, NewCall(want, "read")) /\ pc' = "send"
           /\ gaveUp' = FALSE /\ stale' = FALSE /\ leftover' = FALSE
  <2>1. /\ want \in Param /\ NewCall(want, "read") \in Call
        /\ NewCall(want, "read").tries = 0
    BY <1>1, NewCallType DEF TypeOK
  <2>2. /\ stack' \in Seq(Call) /\ stack' # << >> /\ Last(stack') = NewCall(want, "read")
        /\ Len(stack') = Len(stack) + 1 /\ \A i \in 1 .. Len(stack) : stack'[i] = stack[i]
    <3>1. stack' = Append(stack, NewCall(want, "read"))
      BY <1>4
    <3> QED BY <1>1, <2>1, <3>1, StackPush
  <2>3. Top' = NewCall(want, "read")
    BY <2>2 DEF Top
  <2>4. TypeOK'
    <3>1. gaveUp' \in BOOLEAN /\ stale' \in BOOLEAN /\ leftover' \in BOOLEAN
      BY <1>4
    <3> QED BY <1>1, <1>2, <1>4, <2>1, <2>2, <3>1 DEF TypeOK
  <2>5. PastOrders'
    <3>1. ASSUME NEW i \in 1 .. Len(stack') - 1 PROVE (stack'[i]).step > 1
      <4>1. Len(stack) \in Nat /\ i \in 1 .. Len(stack) /\ stack'[i] = stack[i]
        BY <1>1, <2>2, SeqSets
      <4>2. CASE i < Len(stack)
        BY <1>1, <4>1, <4>2 DEF PastOrders
      <4>3. CASE i = Len(stack)
        BY <1>1, <4>1, <4>3, StackTop DEF PastOrders, Top
      <4> QED BY <4>1, <4>2, <4>3
    <3> QED BY <1>4, <2>1, <2>3, <3>1, ZigbeeAssumption DEF PastOrders
  <2>6. Converging'
    BY <1>4, <2>1, <2>2, <2>3, FreshCall
  <2> QED BY <2>4, <2>5, <2>6 DEF Inv
<1> QED BY <1>3, <1>4 DEF ServeMessage, Start, Sync

\* The orders take frames from the input and may break one.
LEMMA OrdersTake ==
    ASSUME TypeOK, AtOrders
    PROVE  /\ line' \in Seq(ToSet(Steps)) /\ rx' \in Seq(ToSet(Steps) \cup {"junk"})
           /\ Len(line') + Len(rx') <= MaxRx
<1> DEFINE F == ToSet(Steps) \cup {"junk"}
<1>1. /\ line \in Seq(ToSet(Steps)) /\ rx \in Seq(F)
      /\ Len(line) + Len(rx) <= MaxRx /\ MaxRx \in Nat
  BY ZigbeeAssumption DEF TypeOK
<1>2. /\ line \in Seq(F) /\ Len(line) \in Nat /\ Len(rx) \in Nat
      /\ <<"junk">> \in Seq(F) /\ Len(<<"junk">>) = 1
  <2>1. "junk" \in F /\ ToSet(Steps) \subseteq F
    OBVIOUS
  <2> HIDE DEF F
  <2>2. line \in Seq(F)
    BY <1>1, <2>1
  <2>3. Len(line) \in Nat /\ Len(rx) \in Nat
    BY <1>1
  <2>4. <<"junk">> \in Seq(F) /\ Len(<<"junk">>) = 1
    BY <2>1
  <2> QED  BY <2>2, <2>3, <2>4
<1> HIDE DEF F
<1>3. PICK n \in 0 .. Len(line) :
        /\ line' = SubSeq(line, n + 1, Len(line))
        /\ \E m \in 0 .. Len(rx \o SubSeq(line, 1, n)) :
             LET in == rx \o SubSeq(line, 1, n)
             IN  \/ rx' = SubSeq(in, m + 1, Len(in))
                 \/ m > 0 /\ rx' = <<"junk">> \o SubSeq(in, m + 1, Len(in))
  BY DEF AtOrders
<1>4. /\ line' \in Seq(ToSet(Steps)) /\ Len(line') = Len(line) - n
      /\ SubSeq(line, 1, n) \in Seq(F) /\ Len(SubSeq(line, 1, n)) = n
  BY <1>1, <1>2, <1>3, SeqParts
<1>5. PICK in \in Seq(F) : in = rx \o SubSeq(line, 1, n) /\ Len(in) = Len(rx) + n
  <2>1. /\ rx \o SubSeq(line, 1, n) \in Seq(F)
        /\ Len(rx \o SubSeq(line, 1, n)) = Len(rx) + Len(SubSeq(line, 1, n))
    BY <1>1, <1>4, SeqJoin
  <2> QED  BY <1>4, <2>1
<1>6. PICK m \in 0 .. Len(in) : \/ rx' = SubSeq(in, m + 1, Len(in))
                                \/ m > 0 /\ rx' = <<"junk">> \o SubSeq(in, m + 1, Len(in))
  BY <1>3, <1>5
<1>7. /\ SubSeq(in, m + 1, Len(in)) \in Seq(F)
      /\ Len(SubSeq(in, m + 1, Len(in))) = Len(in) - m
  BY SeqParts
<1>8. rx' \in Seq(F) /\ Len(rx') <= Len(in)
  <2>1. CASE rx' = SubSeq(in, m + 1, Len(in))
    BY <1>7, <2>1
  <2>2. CASE m > 0 /\ rx' = <<"junk">> \o SubSeq(in, m + 1, Len(in))
    <3>1. rx' \in Seq(F) /\ Len(rx') = 1 + (Len(in) - m)
      BY <1>1, <1>2, <1>7, <2>2, SeqJoin
    <3> QED  BY <2>2, <3>1
  <2> QED  BY <1>6, <2>1, <2>2
<1>9. Len(line') + Len(rx') <= MaxRx
  BY <1>1, <1>2, <1>4, <1>5, <1>8
<1> QED  BY <1>4, <1>8, <1>9 DEF F

\* After the orders no old reply is left, or it is remembered that one is.
LEMMA AtOrdersInv == ASSUME Inv, AtOrders PROVE Inv'
<1>1. /\ TypeOK /\ PastOrders /\ Converging /\ pc = "send" /\ Step = "at" /\ stack # << >>
      /\ api' \in BOOLEAN /\ leftover \in BOOLEAN
      /\ UNCHANGED <<want, queue, saved, pc, radio, kept, gaveUp, stale, events>>
  BY DEF Inv, TypeOK, AtOrders
<1>2. /\ Top \in Call /\ Top.step = 1 /\ StoreStep \in Nat /\ StoreStep > 1
      /\ 2 \in 1 .. StoreStep + 1
  BY <1>1, TopType, StepNames
<1> DEFINE c == [Top EXCEPT !.step = 2]
<1>3. c \in Call /\ c.step = 2 /\ c.par = Top.par /\ c.tries = Top.tries /\ SetTop(c)
  <2>1. c \in Call /\ c.step = 2 /\ c.par = Top.par /\ c.tries = Top.tries
    BY <1>2, CallType
  <2>2. SetTop(c)
    BY DEF AtOrders
  <2> QED  BY <2>1, <2>2
<1> HIDE DEF c
<1>4. /\ stack' \in Seq(Call) /\ stack' # << >> /\ Top' = c /\ Len(stack') = Len(stack)
      /\ \A i \in 1 .. Len(stack) - 1 : stack'[i] = stack[i]
  BY <1>1, <1>3, TopReplaced
<1>5. /\ line' \in Seq(ToSet(Steps)) /\ rx' \in Seq(ToSet(Steps) \cup {"junk"})
      /\ Len(line') + Len(rx') <= MaxRx
  BY <1>1, OrdersTake
<1>6. leftover' = (leftover \/ ~(Coming' \subseteq {"junk"}))
  BY DEF AtOrders, Coming
<1>7. TypeOK'
  <2>1. leftover' \in BOOLEAN
    BY <1>1, <1>6
  <2> QED  BY <1>1, <1>4, <1>5, <2>1 DEF TypeOK
<1>8. PastOrders'
  BY <1>1, <1>3, <1>4 DEF PastOrders
<1>9. Converging'
  <2> SUFFICES ASSUME ~gaveUp, ~stale, ~leftover, Coming' \subseteq {"junk"}
               PROVE  InPlace' \/ Progress(Top)'
    BY <1>1, <1>4, <1>6 DEF Converging
  <2>1. InPlace => InPlace'
    BY <1>1 DEF InPlace, Stored, Working
  <2>2. ASSUME Progress(Top) PROVE Progress(Top)'
    <3>1. (Top.par)' = saved' /\ (Top.step)' = 2
      BY <1>1, <1>3, <1>4, <2>2 DEF Progress
    <3>2. \A i \in 1 .. 2 - 1 : Steps[i] \notin Settings
      BY StepsAre, StepNames
    <3>3. ~(2 > StoreStep)
      BY <1>2
    <3>4. Settings \cap Coming' = {} /\ "WR" \notin Coming'
      BY StepNames
    <3> QED BY <3>1, <3>2, <3>3, <3>4 DEF Progress
  <2> QED BY <1>1, <2>1, <2>2 DEF Converging
<1> QED BY <1>7, <1>8, <1>9 DEF Inv

\* Nothing comes in time.
LEMMA TimeoutInv == ASSUME Inv, Timeout PROVE Inv'
<1>1. /\ TypeOK /\ PastOrders /\ Converging /\ pc # "send" /\ stack # << >> /\ Failed
      /\ UNCHANGED <<want, queue, saved, api, radio, kept, line, rx, stale, leftover, events>>
  BY DEF Inv, Timeout, radios, input
<1>2. /\ stack' \in Seq(Call) /\ pc' \in {"send", "wait", "read"}
      /\ pc' = "send" => stack' # << >>
      /\ PastOrders' /\ gaveUp' \in BOOLEAN
      /\ gaveUp' \/ (stack' = stack /\ gaveUp' = gaveUp)
  BY <1>1, TryFailed
<1>3. TypeOK'
  BY <1>1, <1>2 DEF TypeOK
<1>4. Converging'
  <2>1. CASE gaveUp'
    BY <2>1 DEF Converging
  <2>2. CASE stack' = stack /\ gaveUp' = gaveUp
    BY <1>1, <2>2, FramesPass DEF Coming
  <2> QED BY <1>2, <2>1, <2>2
<1> QED BY <1>2, <1>3, <1>4 DEF Inv

\* The read of the loop.
LEMMA ReadLoopInv == ASSUME Inv, ReadLoop PROVE Inv'
<1>1. /\ TypeOK /\ PastOrders /\ Converging /\ stack = << >> /\ pc' = "wait"
      /\ rx' = IF rx = << >> THEN rx ELSE Tail(rx)
      /\ UNCHANGED <<want, queue, saved, stack, api, radio, kept, line, gaveUp, stale, leftover, events>>
  BY DEF Inv, ReadLoop, radios, ghosts
<1>2. /\ line' \in Seq(ToSet(Steps)) /\ rx' \in Seq(ToSet(Steps) \cup {"junk"})
      /\ Len(line') + Len(rx') <= MaxRx /\ Coming' \subseteq Coming
  BY <1>1, FrameTaken
<1>3. TypeOK'
  BY <1>1, <1>2 DEF TypeOK
<1>4. PastOrders'
  BY <1>1 DEF PastOrders, Top
<1>5. Converging'
  BY <1>1, <1>2, FramesPass
<1> QED BY <1>3, <1>4, <1>5 DEF Inv

\* What a frame does to the radio: settings of the newest parameters put
\* nothing out of place, and a setting or WR that was heard is obeyed.
LEMMA Heard ==
    ASSUME TypeOK, stack # << >>, Step # "at", saved' = saved,
           Obey \/ UNCHANGED <<radio, kept>>, Step \in Settings => Top.par = saved,
           Step = "WR" => \A s \in Settings : Working(s)
    PROVE  /\ \A s \in Settings : Working(s) => Working(s)'
           /\ Stored => Stored'
           /\ Obey => \A s \in Settings : s = Step => Working(s)'
           /\ Obey /\ Step = "WR" => Stored'
<1>1. radio \in [Settings -> Param] /\ kept \in [Settings -> Param] /\ "WR" \notin Settings
  BY StepNames DEF TypeOK
<1>2. CASE UNCHANGED <<radio, kept>> /\ ~Obey
  BY <1>2 DEF Working, Stored
<1>3. CASE Obey
  <2>1. CASE Step \in Settings
    <3>1. radio' = [radio EXCEPT ![Step] = saved] /\ kept' = kept
      BY <1>1, <1>3, <2>1 DEF Obey
    <3>2. /\ \A s \in Settings : radio'[s] = IF s = Step THEN saved ELSE radio[s]
          /\ Step # "WR"
      BY <1>1, <2>1, <3>1
    <3>3. \A s \in Settings : Working(s) => Working(s)'
      BY <3>2 DEF Working
    <3>4. Stored' = Stored
      BY <3>1 DEF Stored
    <3>5. \A s \in Settings : s = Step => Working(s)'
      BY <2>1, <3>2 DEF Working
    <3> QED BY <3>2, <3>3, <3>4, <3>5
  <2>2. CASE Step = "WR"
    <3>1. kept' = radio /\ radio' = radio
      BY <1>1, <1>3, <2>2 DEF Obey
    <3> QED BY <1>1, <2>2, <3>1 DEF Working, Stored
  <2>3. CASE Step \notin Settings /\ Step # "WR"
    <3>1. kept' = kept /\ radio' = radio
      BY <1>3, <2>3 DEF Obey
    <3> QED BY <2>3, <3>1 DEF Working, Stored
  <2> QED BY <2>1, <2>2, <2>3
<1> QED BY <1>2, <1>3

\* A call that is past its settings has put them in place.
LEMMA PastSettings ==
    ASSUME NEW c \in Call, Progress(c), c.step >= StoreStep
    PROVE  \A s \in Settings : Working(s)
<1> SUFFICES ASSUME NEW s \in Settings PROVE Working(s)
  OBVIOUS
<1>1. PICK i \in 2 .. StoreStep - 1 : Steps[i] = s
  BY StepNames
<1>2. c.step \in 1 .. StoreStep + 1 /\ StoreStep \in Nat
  BY StepNames DEF Call
<1>3. i \in 1 .. c.step - 1
  BY <1>1, <1>2
<1> QED BY <1>1, <1>3 DEF Progress

\* A frame goes out.
LEMMA SendFrameInv == ASSUME Inv, SendFrame PROVE Inv'
<1>1. /\ TypeOK /\ PastOrders /\ Converging /\ stack # << >> /\ pc = "send" /\ pc' = "wait"
      /\ Step # "at" /\ SetTop([Top EXCEPT !.tries = Top.tries + 1])
      /\ UNCHANGED <<want, queue, saved, api, rx, gaveUp, leftover, events>>
      /\ stale' = (stale \/ (Step \in Settings /\ Top.par # saved))
  BY DEF Inv, TypeOK, SendFrame
<1>2. \/ /\ Obey
         /\ \/ Len(line) + Len(rx) < MaxRx /\ line' = Append(line, Step)
            \/ line' = line
      \/ UNCHANGED <<radio, kept, line>>
  BY DEF SendFrame
<1>3. /\ Top \in Call /\ Top.step \in 1 .. StoreStep + 1 /\ Top.tries \in 0 .. Resend
      /\ Step \in ToSet(Steps) /\ Step = Steps[Top.step] /\ Top.par \in Param
      /\ Top.step \in DOMAIN Steps
  BY <1>1, TopType, StepNames
<1>4. Top.step > 1
  BY <1>1, <1>3, StepsAre
<1>5. Top.tries + 1 \in 0 .. Resend
  BY <1>1, <1>3, ZigbeeAssumption DEF PastOrders
<1> DEFINE c == [Top EXCEPT !.tries = Top.tries + 1]
<1>6. c \in Call /\ c.step = Top.step /\ c.par = Top.par
  BY <1>3, <1>5, CallType
<1> HIDE DEF c
<1>7. /\ stack' \in Seq(Call) /\ stack' # << >> /\ Top' = c /\ Len(stack') = Len(stack)
      /\ \A i \in 1 .. Len(stack) - 1 : stack'[i] = stack[i]
  BY <1>1, <1>6, TopReplaced DEF c
<1>8. /\ line' \in Seq(ToSet(Steps)) /\ Len(line') + Len(rx') <= MaxRx
      /\ Coming' \subseteq Coming \cup {Step}
  <2>1. /\ line \in Seq(ToSet(Steps)) /\ rx \in Seq(ToSet(Steps) \cup {"junk"})
        /\ Len(line) + Len(rx) <= MaxRx /\ Len(line) \in Nat /\ Len(rx) \in Nat
        /\ MaxRx \in Nat
    BY <1>1, ZigbeeAssumption, SeqSets DEF TypeOK
  <2>2. CASE line' = line
    BY <1>1, <2>1, <2>2 DEF Coming
  <2>3. CASE Len(line) + Len(rx) < MaxRx /\ line' = Append(line, Step)
    <3>1. /\ Append(line, Step) \in Seq(ToSet(Steps)) /\ Len(Append(line, Step)) = Len(line) + 1
          /\ ToSet(Append(line, Step)) = ToSet(line) \cup {Step}
      BY <1>3, <2>1, SeqSets
    <3>2. Coming' \subseteq Coming \cup {Step}
      BY <1>1, <2>3, <3>1 DEF Coming
    <3> QED BY <1>1, <2>1, <2>3, <3>1, <3>2
  <2> QED BY <1>2, <2>2, <2>3
<1>9. Obey \/ (UNCHANGED <<radio, kept>> /\ Coming' = Coming)
  BY <1>1, <1>2 DEF Coming
<1>10. TypeOK'
  <2>1. radio' \in [Settings -> Param] /\ kept' \in [Settings -> Param]
    <3>1. radio \in [Settings -> Param] /\ kept \in [Settings -> Param]
      BY <1>1 DEF TypeOK
    <3>2. CASE UNCHANGED <<radio, kept>>
      BY <3>1, <3>2
    <3>3. CASE Obey
      <4>1. /\ radio' \in {radio, [radio EXCEPT ![Step] = Top.par]}
            /\ kept' \in {kept, radio}
        BY <3>3 DEF Obey
      <4> QED BY <1>3, <3>1, <4>1
    <3> QED BY <1>9, <3>2, <3>3
  <2>2. stale' \in BOOLEAN
    BY <1>1
  <2>3. rx' \in Seq(ToSet(Steps) \cup {"junk"})
    BY <1>1 DEF TypeOK
  <2> QED BY <1>1, <1>7, <1>8, <2>1, <2>2, <2>3 DEF TypeOK
<1>11. PastOrders'
  BY <1>1, <1>4, <1>6, <1>7 DEF PastOrders
<1>12. Converging'
  <2> SUFFICES ASSUME ~gaveUp, ~stale, ~leftover, Step \in Settings => Top.par = saved
               PROVE  InPlace' \/ Progress(Top)'
    BY <1>1, <1>7 DEF Converging
  <2>1. Progress(Top) /\ Step = "WR" => \A s \in Settings : Working(s)
    <3>1. Step = "WR" => Top.step >= StoreStep
      <4>1. Step = "WR" => Top.step = StoreStep
        BY <1>3, StepNames, Zenon
      <4>2. StoreStep \in Nat
        BY StepNames
      <4> QED BY <4>1, <4>2
    <3> QED BY <1>3, <3>1, PastSettings
  <2>2. (InPlace \/ Progress(Top)) =>
          /\ \A s \in Settings : Working(s) => Working(s)'
          /\ Stored => Stored'
          /\ Obey => \A s \in Settings : s = Step => Working(s)'
          /\ Obey /\ Step = "WR" => Stored'
    <3> SUFFICES ASSUME InPlace \/ Progress(Top)
                 PROVE  /\ \A s \in Settings : Working(s) => Working(s)'
                        /\ Stored => Stored'
                        /\ Obey => \A s \in Settings : s = Step => Working(s)'
                        /\ Obey /\ Step = "WR" => Stored'
      OBVIOUS
    <3>1. Step = "WR" => \A s \in Settings : Working(s)
      BY <2>1 DEF InPlace
    <3>2. Obey \/ UNCHANGED <<radio, kept>>
      BY <1>9
    <3>3. saved' = saved
      BY <1>1
    <3> QED BY <1>1, <3>1, <3>2, <3>3, Heard
  <2>3. InPlace => InPlace'
    BY <2>2 DEF InPlace
  <2>4. ASSUME Progress(Top) PROVE Progress(Top)'
    <3>1. (Top.par)' = saved' /\ (Top.step)' = Top.step
      BY <1>1, <1>6, <1>7, <2>4 DEF Progress
    <3>2. \A i \in 1 .. Top.step - 1 : Steps[i] \in Settings => Working(Steps[i])'
      BY <2>2, <2>4 DEF Progress
    <3>3. Top.step > StoreStep => Stored'
      BY <2>2, <2>4 DEF Progress
    <3>4. ASSUME NEW s \in Settings, s \in Coming' PROVE Working(s)'
      <4>1. CASE s \in Coming
        BY <1>4, <2>2, <2>4, <4>1 DEF Progress
      <4>2. CASE s \notin Coming
        <5>1. s = Step /\ Obey
          BY <1>8, <1>9, <3>4, <4>2
        <5> QED BY <2>2, <2>4, <5>1
      <4> QED BY <4>1, <4>2
    <3>5. ASSUME "WR" \in Coming' PROVE Stored'
      <4>1. CASE "WR" \in Coming
        BY <1>4, <2>2, <2>4, <4>1 DEF Progress
      <4>2. CASE "WR" \notin Coming
        BY <1>8, <1>9, <2>2, <2>4, <3>5, <4>2
      <4> QED BY <4>1, <4>2
    <3> QED BY <3>1, <3>2, <3>3, <3>4, <3>5 DEF Progress
  <2> QED BY <1>1, <2>3, <2>4 DEF Converging
<1> QED BY <1>10, <1>11, <1>12 DEF Inv

\* A reply ends its step: the radio has obeyed it, whichever try it answers.
LEMMA ReplyInv ==
    ASSUME TypeOK, PastOrders, Converging, stack # << >>, pc # "send", NextStep,
           Step \in Coming, Coming' \subseteq Coming,
           UNCHANGED <<saved, radio, kept, gaveUp, stale, leftover>>
    PROVE  Converging'
<1>1. /\ Top \in Call /\ Top.step \in 1 .. StoreStep + 1 /\ Step = Steps[Top.step]
      /\ Top.step > 1 /\ StoreStep \in Nat /\ StoreStep > 1 /\ Steps[StoreStep] = "WR"
  BY TopType, StepNames, StepsAre DEF PastOrders
<1>2. /\ Stored' = Stored /\ InPlace' = InPlace /\ \A s : Working(s)' = Working(s)
  BY DEF Stored, InPlace, Working
<1> SUFFICES ASSUME ~gaveUp, ~stale, ~leftover PROVE InPlace' \/ (stack' # << >> /\ Progress(Top)')
  BY DEF Converging
<1>3. CASE InPlace
  BY <1>2, <1>3
<1>4. CASE Progress(Top) /\ Top.step = StoreStep + 1
  <2>1. Stored /\ \A s \in Settings : Working(s)
    BY <1>1, <1>4, PastSettings DEF Progress
  <2> QED BY <1>2, <2>1 DEF InPlace
<1>5. CASE /\ Progress(Top) /\ Top.step < StoreStep + 1 /\ stack' # << >>
           /\ (Top.par)' = Top.par /\ (Top.step)' = Top.step + 1
  <2>1. (Top.par)' = saved'
    BY <1>5 DEF Progress
  <2>2. ASSUME NEW i \in 1 .. Top.step, Steps[i] \in Settings PROVE Working(Steps[i])'
    <3>1. CASE i = Top.step
      BY <1>1, <1>2, <1>5, <2>2, <3>1 DEF Progress
    <3>2. CASE i # Top.step
      <4>1. i \in 1 .. Top.step - 1
        BY <1>1, <3>2
      <4> QED BY <1>2, <1>5, <2>2, <4>1 DEF Progress
    <3> QED BY <3>1, <3>2
  <2>3. Top.step + 1 > StoreStep => Stored'
    BY <1>1, <1>2, <1>5 DEF Progress
  <2>4. /\ \A s \in Settings \cap Coming' : Working(s)'
        /\ "WR" \in Coming' => Stored'
    BY <1>1, <1>2, <1>5 DEF Progress
  <2>5. Progress(Top)'
    <3>1. \A i \in 1 .. (Top.step)' - 1 : Steps[i] \in Settings => Working(Steps[i])'
      <4>1. (Top.step)' - 1 = Top.step
        BY <1>1, <1>5
      <4> QED BY <2>2, <4>1
    <3>2. (Top.step)' > StoreStep => Stored'
      BY <1>5, <2>3
    <3> QED BY <2>1, <2>4, <3>1, <3>2 DEF Progress
  <2> QED BY <1>5, <2>5
<1> QED BY <1>3, <1>4, <1>5, StepDone DEF Converging

\* The read of an exchange.
LEMMA ReadInv == ASSUME Inv, Read PROVE Inv'
<1>1. /\ TypeOK /\ PastOrders /\ Converging /\ pc # "send" /\ stack # << >>
      /\ rx' = IF rx = << >> THEN rx ELSE Tail(rx)
      /\ UNCHANGED <<want, queue, saved, api, radio, kept, line, stale, leftover, events>>
  BY DEF Inv, Read, Reading, radios
<1>2. /\ line' \in Seq(ToSet(Steps)) /\ rx' \in Seq(ToSet(Steps) \cup {"junk"})
      /\ Len(line') + Len(rx') <= MaxRx /\ Coming' \subseteq Coming
  BY <1>1, FrameTaken
<1>3. CASE Failed
  <2>1. /\ stack' \in Seq(Call) /\ pc' \in {"send", "wait", "read"}
        /\ pc' = "send" => stack' # << >>
        /\ PastOrders' /\ gaveUp' \in BOOLEAN
        /\ gaveUp' \/ (stack' = stack /\ gaveUp' = gaveUp)
    BY <1>1, <1>3, TryFailed
  <2>2. TypeOK'
    BY <1>1, <1>2, <2>1 DEF TypeOK
  <2>3. Converging'
    <3>1. CASE gaveUp'
      BY <3>1 DEF Converging
    <3>2. CASE stack' = stack /\ gaveUp' = gaveUp
      BY <1>1, <1>2, <3>2, FramesPass
    <3> QED BY <2>1, <3>1, <3>2
  <2> QED BY <2>1, <2>2, <2>3 DEF Inv
<1>4. CASE rx # << >> /\ Head(rx) = Step /\ NextStep /\ gaveUp' = gaveUp
  <2>1. /\ stack' \in Seq(Call) /\ pc' \in {"send", "wait", "read"}
        /\ pc' = "send" => stack' # << >>
        /\ PastOrders'
    BY <1>1, <1>4, StepDone
  <2>2. TypeOK'
    BY <1>1, <1>2, <1>4, <2>1 DEF TypeOK
  <2>3. Step \in Coming
    <3>1. rx \in Seq(ToSet(Steps) \cup {"junk"})
      BY <1>1 DEF TypeOK
    <3> QED BY <1>4, <3>1, SeqSets DEF Coming
  <2>4. Converging'
    BY <1>1, <1>2, <1>4, <2>3, ReplyInv
  <2> QED BY <2>1, <2>2, <2>4 DEF Inv
<1> QED BY <1>3, <1>4 DEF Read

\* Every step keeps the invariant.
LEMMA NextInv == Inv /\ [Next]_vars => Inv'
<1> SUFFICES ASSUME Inv, [Next]_vars PROVE Inv'
  OBVIOUS
<1>1. CASE UNCHANGED vars
  <2>1. /\ UNCHANGED <<want, queue, saved, stack, pc, api, radio, kept, line, rx>>
        /\ UNCHANGED <<gaveUp, stale, leftover, events>>
    BY <1>1 DEF vars, calls, radios, input, ghosts
  <2>2. TypeOK'
    BY <2>1 DEF Inv, TypeOK
  <2>3. PastOrders'
    BY <2>1 DEF Inv, PastOrders, Top
  <2>4. Converging'
    BY <2>1, FramesPass DEF Inv, Coming
  <2> QED BY <2>2, <2>3, <2>4 DEF Inv
<1>2. CASE Others
  BY <1>2, OthersInv
<1>3. CASE Thread
  BY <1>3, ServeMessageInv, AtOrdersInv, SendFrameInv, TimeoutInv, ReadInv, ReadLoopInv
     DEF Thread
<1> QED BY <1>1, <1>2, <1>3 DEF Next

-----------------------------------------------------------------------------
(***************************************************************************)
(* Theorems.                                                               *)
(***************************************************************************)
\* The invariant holds in every state the thread can be in.
THEOREM Invariance == Spec => []Inv
BY InitInv, NextInv, PTL DEF Spec

\* set_zigbee_para is never past its last order, however deep calls nest, and
\* never tries an exchange more than RESEND_NUM times.
THEOREM TypeCorrect == Spec => []TypeOK
<1>1. Inv => TypeOK
  BY DEF Inv
<1> QED BY <1>1, Invariance, PTL

\* set_zigbee_para and msg_handler: back in its loop the thread has the radio
\* set and stored as it last applied the registers, unless in the meantime an
\* exchange was given up, an older call went on, or set_at_order left replies to
\* an earlier call in the input.
THEOREM SettingsAcknowledged == Spec => []Acknowledged
<1>1. Inv => Acknowledged
  BY DEF Inv, Converging, InPlace, Stored, Working, Acknowledged
<1> QED BY <1>1, Invariance, PTL

-----------------------------------------------------------------------------
(***************************************************************************)
(* Calls nest no deeper than the settings change, and come to their end.   *)
(***************************************************************************)
\* A change that has not been taken up makes room for one more call; a call
\* inside another one goes back to the read of the receive it came in.
Nesting ==
    /\ Len(stack) + (IF saved = want THEN 0 ELSE 1) <= 1 + events
    /\ \A i \in 2 .. Len(stack) : stack[i].back = "read"

ToGo == [wait |-> 2, read |-> 1, send |-> 0]

\* msg_handler starts a call with parameters that have changed.
Nested == saved # want /\ saved' = want /\ stack' = Append(stack, NewCall(want, "read"))

\* The innermost call is past its last step; the one around it is past the
\* wait it was in.
Over ==
    /\ Top.step = Len(Steps) /\ stack' = Front(stack)
    /\ stack' # << >> => pc' = "read"

\* The innermost call gets to its next step, to the next try of its step, or
\* nearer to the end of a try; the calls around it stay where they are.
Advances ==
    /\ Len(stack') = Len(stack)
    /\ \A i \in 1 .. Len(stack) - 1 : stack'[i] = stack[i]
    /\ (Top.par)' = Top.par /\ (Top.back)' = Top.back
    /\ \/ (Top.step)' = Top.step + 1 /\ (Top.step)' <= Len(Steps)
       \/ /\ (Top.step)' = Top.step
          /\ (Top.tries)' = Top.tries + 1 /\ (Top.tries)' <= Resend
       \/ Top' = Top /\ ToGo[pc'] < ToGo[pc]

CallAdvances ==
    stack # << >> =>
        IF Thread THEN Nested \/ Over \/ Advances ELSE Restart \/ UNCHANGED calls

\* What a step does not change of a call.
LEMMA CallKeeps ==
    ASSUME NEW c \in Call, NEW m, NEW n
    PROVE  /\ [c EXCEPT !.step = m].back = c.back
           /\ [c EXCEPT !.step = m, !.tries = n].back = c.back
           /\ [c EXCEPT !.tries = n].back = c.back
           /\ [c EXCEPT !.tries = n].tries = n
BY DEF Call

\* The end of an exchange.
LEMMA DoneAdvances ==
    ASSUME TypeOK, PastOrders, Nesting, stack # << >>, pc # "send", NextStep
    PROVE  Over \/ Advances
<1>1. /\ stack \in Seq(Call) /\ Top \in Call /\ Top.step \in 1 .. StoreStep + 1
      /\ Len(Steps) = StoreStep + 1 /\ StoreStep \in Nat
  BY TopType, StepNames DEF TypeOK
<1>2. CASE Top.step < Len(Steps)
  <2> DEFINE c == [Top EXCEPT !.step = Top.step + 1, !.tries = 0]
  <2>1. SetTop(c)
    BY <1>2 DEF NextStep
  <2>2. Top.step + 1 \in 1 .. StoreStep + 1
    BY <1>1, <1>2
  <2>3. c \in Call /\ c.step = Top.step + 1 /\ c.par = Top.par
    BY <1>1, <2>2, CallType
  <2>7. c.back = Top.back
    BY <1>1, CallKeeps
  <2> HIDE DEF c
  <2>4. /\ Top' = c /\ Len(stack') = Len(stack)
        /\ \A i \in 1 .. Len(stack) - 1 : stack'[i] = stack[i]
    BY <2>1, <2>3, TopReplaced
  <2>5. (Top.step)' = Top.step + 1 /\ (Top.step)' <= Len(Steps)
    BY <1>1, <2>2, <2>3, <2>4, <2>7
  <2>6. (Top.par)' = Top.par /\ (Top.back)' = Top.back
    BY <2>3, <2>4, <2>7
  <2> QED BY <2>4, <2>5, <2>6 DEF Advances
<1>3. CASE ~(Top.step < Len(Steps))
  <2>1. Top.step = Len(Steps) /\ pc' = Top.back /\ stack' = Front(stack)
    BY <1>1, <1>3 DEF NextStep
  <2>2. stack' # << >> => Len(stack) - 1 > 0
    BY <1>1, <2>1, StackPop
  <2>3. Top = stack[Len(stack)] /\ Len(stack) \in Nat \ {0}
    BY <1>1, StackTop DEF Top
  <2>4. stack' # << >> => pc' = "read"
    <3> SUFFICES ASSUME stack' # << >> PROVE pc' = "read"
      OBVIOUS
    <3>1. Len(stack) \in 2 .. Len(stack)
      BY <2>2, <2>3
    <3>2. stack[Len(stack)].back = "read"
      BY <3>1 DEF Nesting
    <3> QED BY <2>1, <2>3, <3>2
  <2> QED BY <2>1, <2>4 DEF Over
<1> QED BY <1>2, <1>3

\* A try that fails.
LEMMA FailedAdvances ==
    ASSUME TypeOK, PastOrders, Nesting, stack # << >>, pc # "send", Failed
    PROVE  Over \/ Advances
<1>1. CASE Top.tries < Resend
  <2>1. pc' = "send" /\ stack' = stack /\ Top' = Top
    BY <1>1 DEF Failed, Top
  <2>2. pc \in {"wait", "read"}
    BY DEF TypeOK
  <2>3. ToGo[pc'] < ToGo[pc]
    BY <2>1, <2>2 DEF ToGo
  <2> QED BY <2>1, <2>3 DEF Advances
<1>2. CASE ~(Top.tries < Resend)
  BY <1>2, DoneAdvances DEF Failed
<1> QED BY <1>1, <1>2

\* A step of the thread inside a call.
LEMMA ThreadAdvances ==
    ASSUME Inv, Nesting, Thread, stack # << >>
    PROVE  Nested \/ Over \/ Advances
<1>1. /\ TypeOK /\ PastOrders /\ stack \in Seq(Call) /\ Top \in Call
      /\ Top.step \in 1 .. StoreStep + 1 /\ Top.tries \in 0 .. Resend
      /\ Len(Steps) = StoreStep + 1 /\ StoreStep \in Nat /\ StoreStep > 1 /\ Resend \in Nat
  BY TopType, StepNames, ZigbeeAssumption DEF Inv, TypeOK
<1>2. CASE ServeMessage
  <2>1. CASE pc' = "read" /\ UNCHANGED stack
    <3>1. pc = "wait" /\ Top' = Top
      BY <1>2, <2>1 DEF ServeMessage, Top
    <3>2. ToGo[pc'] < ToGo[pc]
      BY <2>1, <3>1 DEF ToGo
    <3> QED BY <2>1, <3>1, <3>2 DEF Advances
  <2>2. CASE saved # want /\ saved' = want /\ stack' = Append(stack, NewCall(want, "read"))
    BY <2>2 DEF Nested
  <2> QED BY <1>2, <2>1, <2>2 DEF ServeMessage, Start, Sync
<1>3. CASE AtOrders
  <2> DEFINE c == [Top EXCEPT !.step = 2]
  <2>1. SetTop(c) /\ Step = "at"
    BY <1>3 DEF AtOrders
  <2>2. Top.step = 1 /\ 2 \in 1 .. StoreStep + 1
    BY <1>1, <2>1, StepNames DEF Step
  <2>3. c \in Call /\ c.step = 2 /\ c.par = Top.par
    BY <1>1, <2>2, CallType
  <2>7. c.back = Top.back
    BY <1>1, CallKeeps
  <2> HIDE DEF c
  <2>4. /\ Top' = c /\ Len(stack') = Len(stack)
        /\ \A i \in 1 .. Len(stack) - 1 : stack'[i] = stack[i]
    BY <1>1, <2>1, <2>3, TopReplaced
  <2>5. (Top.step)' = Top.step + 1 /\ (Top.step)' <= Len(Steps)
    BY <1>1, <2>2, <2>3, <2>4, <2>7
  <2>6. (Top.par)' = Top.par /\ (Top.back)' = Top.back
    BY <2>3, <2>4, <2>7
  <2> QED BY <2>4, <2>5, <2>6 DEF Advances
<1>4. CASE SendFrame
  <2> DEFINE c == [Top EXCEPT !.tries = Top.tries + 1]
  <2>1. SetTop(c) /\ pc = "send"
    BY <1>4 DEF SendFrame
  <2>2. Top.tries + 1 \in 0 .. Resend
    BY <1>1, <2>1 DEF PastOrders
  <2>3. c \in Call /\ c.step = Top.step /\ c.par = Top.par
    BY <1>1, <2>2, CallType
  <2>7. c.back = Top.back /\ c.tries = Top.tries + 1
    BY <1>1, CallKeeps
  <2> HIDE DEF c
  <2>4. /\ Top' = c /\ Len(stack') = Len(stack)
        /\ \A i \in 1 .. Len(stack) - 1 : stack'[i] = stack[i]
    BY <1>1, <2>1, <2>3, TopReplaced
  <2>5. /\ (Top.step)' = Top.step
        /\ (Top.tries)' = Top.tries + 1 /\ (Top.tries)' <= Resend
    BY <1>1, <2>2, <2>3, <2>4, <2>7
  <2>6. (Top.par)' = Top.par /\ (Top.back)' = Top.back
    BY <2>3, <2>4, <2>7
  <2> QED BY <2>4, <2>5, <2>6 DEF Advances
<1>5. CASE Timeout
  BY <1>1, <1>5, FailedAdvances DEF Timeout
<1>6. CASE Read
  <2>1. pc # "send" /\ (NextStep \/ Failed)
    BY <1>6 DEF Read, Reading
  <2> QED BY <1>1, <2>1, DoneAdvances, FailedAdvances
<1>7. ~ReadLoop
  BY DEF ReadLoop
<1> QED BY <1>2, <1>3, <1>4, <1>5, <1>6, <1>7 DEF Thread

\* Every step of the rest keeps the calls, but for a new start.
LEMMA OthersLeaveCalls == Others => Restart \/ UNCHANGED calls
BY DEF Others, Store, Send, ReplyComes, Junk

\* The thread starts with one call, and its settings are the registers.
LEMMA NestingInit == Init => Nesting
<1> SUFFICES ASSUME Init PROVE Nesting
  OBVIOUS
<1>1. stack = <<NewCall(want, "wait")>> /\ saved = want /\ events = 0
  BY DEF Init
<1>2. Len(stack) = 1 /\ 2 .. Len(stack) = {}
  BY <1>1
<1> QED BY <1>1, <1>2 DEF Nesting

\* The length of the stack and what it owes to changes of the settings.
LEMMA NestingCounts ==
    ASSUME Nesting, Inv, Len(stack') = Len(stack),
           \A i \in 2 .. Len(stack) : (stack'[i]).back = "read",
           events' \in Nat,
           \/ events' = events /\ saved' \in {saved, want} /\ want' = want
           \/ events' = events + 1 /\ saved' = saved
    PROVE  Nesting'
<1>1. Len(stack) \in Nat /\ events \in Nat
  BY ZigbeeAssumption DEF Inv, TypeOK
<1>2. Len(stack) + (IF saved = want THEN 0 ELSE 1) <= 1 + events
  BY DEF Nesting
<1>3. Len(stack') + (IF saved' = want' THEN 0 ELSE 1) <= 1 + events'
  BY <1>1, <1>2
<1> QED BY <1>3 DEF Nesting

\* A call ends, or another one starts.
LEMMA OverNests ==
    ASSUME Nesting, Inv, stack # << >>, stack' = Front(stack),
           UNCHANGED <<want, events>>, saved' \in {saved, want}
    PROVE  Nesting'
<1>1. stack \in Seq(Call) /\ events \in Nat
  BY ZigbeeAssumption DEF Inv, TypeOK
<1>2. Len(stack') = Len(stack) - 1 /\ \A i \in 1 .. Len(stack) - 1 : stack'[i] = stack[i]
  BY <1>1, StackPop
<1>3. Len(stack) \in Nat \ {0}
  BY <1>1, StackTop
<1>4. Len(stack') + (IF saved' = want' THEN 0 ELSE 1) <= 1 + events'
  <2>1. Len(stack) + (IF saved = want THEN 0 ELSE 1) <= 1 + events
    BY DEF Nesting
  <2> QED BY <1>1, <1>2, <1>3, <2>1
<1>5. ASSUME NEW i \in 2 .. Len(stack') PROVE (stack'[i]).back = "read"
  <2>1. i \in 1 .. Len(stack) - 1 /\ i \in 2 .. Len(stack)
    BY <1>2, <1>3
  <2> QED BY <1>2, <2>1 DEF Nesting
<1> QED BY <1>4, <1>5 DEF Nesting

LEMMA NestedNests ==
    ASSUME Nesting, Inv, Nested, UNCHANGED <<want, events>>
    PROVE  Nesting'
<1>1. stack \in Seq(Call) /\ events \in Nat /\ want \in Param /\ Len(stack) \in Nat
  BY ZigbeeAssumption DEF Inv, TypeOK
<1>2. PICK c \in Call : c = NewCall(want, "read") /\ c.back = "read"
  <2>1. NewCall(want, "read") \in Call
    BY <1>1, NewCallType
  <2> QED BY <2>1 DEF NewCall
<1>3. stack' = Append(stack, c)
  BY <1>2 DEF Nested
<1>4. /\ Len(stack') = Len(stack) + 1 /\ stack'[Len(stack) + 1] = c
      /\ \A i \in 1 .. Len(stack) : stack'[i] = stack[i]
  BY <1>1, <1>3
<1>5. Len(stack') + (IF saved' = want' THEN 0 ELSE 1) <= 1 + events'
  <2>1. Len(stack) + 1 <= 1 + events
    BY DEF Nesting, Nested
  <2>2. saved' = want' /\ events' = events
    BY DEF Nested
  <2> QED BY <1>1, <1>4, <2>1, <2>2
<1>6. ASSUME NEW i \in 2 .. Len(stack') PROVE (stack'[i]).back = "read"
  <2>1. CASE i = Len(stack) + 1
    BY <1>2, <1>4, <2>1
  <2>2. CASE i # Len(stack) + 1
    <3>1. i \in 2 .. Len(stack) /\ i \in 1 .. Len(stack)
      BY <1>1, <1>4, <2>2
    <3> QED BY <1>4, <3>1 DEF Nesting
  <2> QED BY <2>1, <2>2
<1> QED BY <1>5, <1>6 DEF Nesting

\* Every step keeps the bound.
LEMMA NestingStep == Inv /\ Inv' /\ Nesting /\ [Next]_vars => Nesting'
<1> SUFFICES ASSUME Inv, Inv', Nesting, [Next]_vars PROVE Nesting'
  OBVIOUS
<1>1. events' \in Nat /\ events \in Nat /\ stack \in Seq(Call) /\ Len(stack) \in Nat
  BY ZigbeeAssumption DEF Inv, TypeOK
<1>2. ASSUME UNCHANGED stack,
             \/ events' = events /\ saved' \in {saved, want} /\ want' = want
             \/ events' = events + 1 /\ saved' = saved
      PROVE  Nesting'
  <2>1. Len(stack') = Len(stack) /\ \A i \in 2 .. Len(stack) : (stack'[i]).back = "read"
    BY <1>2 DEF Nesting
  <2> QED BY <1>1, <1>2, <2>1, NestingCounts
<1>3. CASE UNCHANGED vars
  BY <1>2, <1>3 DEF vars, calls
<1>4. CASE Thread
  <2>1. UNCHANGED <<want, events>>
    BY <1>4 DEF Thread, ServeMessage, AtOrders, SendFrame, Timeout, Read, ReadLoop
  <2>2. saved' \in {saved, want}
    BY <1>4 DEF Thread, ServeMessage, Start, Sync, AtOrders, SendFrame, Timeout, Read, ReadLoop
  <2>3. CASE stack = << >>
    <3>1. ServeMessage \/ ReadLoop
      BY <1>4, <2>3 DEF Thread, AtOrders, SendFrame, Timeout, Read, Inv, TypeOK
    <3>2. UNCHANGED stack \/ Nested
      BY <3>1 DEF ServeMessage, Start, Sync, ReadLoop, Nested
    <3> QED BY <1>2, <2>1, <2>2, <3>2, NestedNests
  <2>4. CASE stack # << >>
    <3>1. CASE Nested
      BY <2>1, <3>1, NestedNests
    <3>2. CASE Over
      BY <2>1, <2>2, <2>4, <3>2, OverNests DEF Over
    <3>3. CASE Advances
      <4>1. Len(stack') = Len(stack) /\ Len(stack) \in Nat \ {0}
        BY <1>1, <2>4, <3>3, StackTop DEF Advances
      <4>2. stack' \in Seq(Call)
        BY DEF Inv, TypeOK
      <4>3. Top = stack[Len(stack)] /\ Top' = stack'[Len(stack)]
        <5>1. stack' # << >> /\ Top' = Last(stack')
          BY <4>1, <4>2 DEF Top
        <5> QED BY <1>1, <2>4, <4>1, <4>2, <5>1, StackTop DEF Top
      <4>4. ASSUME NEW i \in 2 .. Len(stack) PROVE (stack'[i]).back = "read"
        <5>1. stack[i].back = "read"
          BY DEF Nesting
        <5>2. CASE i = Len(stack)
          BY <3>3, <4>3, <5>1, <5>2 DEF Advances
        <5>3. CASE i # Len(stack)
          <6>1. i \in 1 .. Len(stack) - 1
            BY <4>1, <5>3
          <6> QED BY <3>3, <5>1, <6>1 DEF Advances
        <5> QED BY <5>2, <5>3
      <4> QED BY <1>1, <2>1, <2>2, <4>1, <4>4, NestingCounts
    <3> QED BY <1>4, <2>4, <3>1, <3>2, <3>3, ThreadAdvances
  <2> QED BY <2>3, <2>4
<1>5. CASE Others
  <2>1. CASE Restart
    <3>1. stack' = <<NewCall(want, "wait")>> /\ saved' = want /\ want' = want
      BY <2>1 DEF Restart
    <3>2. Len(stack') = 1 /\ 2 .. Len(stack') = {}
      BY <3>1
    <3>3. Len(stack') + (IF saved' = want' THEN 0 ELSE 1) <= 1 + events'
      <4>1. saved' = want' /\ Len(stack') = 1
        BY <3>1, <3>2
      <4>2. ASSUME NEW n \in Nat PROVE 1 <= 1 + n
        OBVIOUS
      <4>3. Len(stack') <= 1 + events'
        BY <1>1, <4>1, <4>2
      <4> QED BY <4>1, <4>3
    <3>4. \A i \in 2 .. Len(stack') : (stack'[i]).back = "read"
      BY <3>2
    <3> QED BY <3>3, <3>4 DEF Nesting
  <2>2. CASE ~Restart
    <3>1. UNCHANGED <<stack, saved>>
      BY <1>5, <2>2 DEF Others, Store, Send, ReplyComes, Junk, calls
    <3>2. (events' = events /\ want' = want) \/ events' = events + 1
      BY <1>5, <2>2 DEF Others, Store, Send, ReplyComes, Junk
    <3> QED BY <1>2, <3>1, <3>2
  <2> QED BY <2>1, <2>2
<1> QED BY <1>3, <1>4, <1>5 DEF Next

\* msg_handler, called by set_zigbee_para: the stack of the thread holds no more
\* calls than the settings have changed since the first one, however many
\* MSG_CONFIG_START come in.
THEOREM CallsNestBounded == Spec => []NestingBounded
<1>1. Inv /\ Nesting => NestingBounded
  <2> SUFFICES ASSUME Inv, Nesting PROVE NestingBounded
    OBVIOUS
  <2>1. Len(stack) \in Nat /\ events \in Nat
    BY ZigbeeAssumption DEF Inv, TypeOK
  <2> QED BY <2>1 DEF Nesting, NestingBounded
<1> QED BY <1>1, InitInv, NextInv, NestingInit, NestingStep, PTL DEF Spec

\* set_zigbee_para: a call has no step that could be repeated for ever, and a
\* call inside another one leaves that further on than it found it; what
\* CallsEnd needs beyond this is that the thread runs.
THEOREM CallsAdvance == Spec => [][CallAdvances]_vars
<1>1. Inv /\ Nesting /\ [Next]_vars => [CallAdvances]_vars
  <2> SUFFICES ASSUME Inv, Nesting, Next, stack # << >>
               PROVE  IF Thread THEN Nested \/ Over \/ Advances
                                ELSE Restart \/ UNCHANGED calls
    BY DEF CallAdvances
  <2> QED BY ThreadAdvances, OthersLeaveCalls DEF Next
<1> QED BY <1>1, InitInv, NextInv, NestingInit, NestingStep, PTL DEF Spec

=============================================================================
