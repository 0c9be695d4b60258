-------------------------- MODULE HandshakeProofs --------------------------
(***************************************************************************)
(* What the two ends of a connection agree on, for every pair of versions  *)
(* and every number of frames in the session. The inductive invariant      *)
(* says, for each direction, that the frames under way continue what the   *)
(* reader has seen and end where the writer stands (InStep), and what each *)
(* of them stands for (Meaning, Progress).                                 *)
(***************************************************************************)
EXTENDS SessionHandshake, TLAPS

\* The frame that p reads next, while its connection is open.
Expected(p) ==
    IF pc[p] \in {"tls", "hello"} THEN "hello"
    ELSE IF pc[p] = "availability" THEN "availability"
    ELSE IF pc[p] = "confirm" /\ peerResult[p] = "none" THEN "confirmation"
    ELSE "session"

\* The frame that q writes next, while its connection is open.
Upcoming(q) ==
    IF pc[q] = "tls" THEN "hello"
    ELSE IF pc[q] = "hello" /\ q = "in" THEN "availability"
    ELSE IF pc[q] \in {"hello", "availability"} THEN "confirmation"
    ELSE IF pc[q] = "confirm" /\ ~confirmed[q] THEN "confirmation"
    ELSE "session"

\* What follows a frame on the way to p.
After(type, p) ==
    IF type = "hello" THEN (IF p = "out" THEN "availability" ELSE "confirmation")
    ELSE IF type = "availability" THEN "confirmation"
    ELSE "session"

\* The frames in s continue each other from e on, and u comes after them.
Chain(s, p, e) ==
    /\ s # << >> => s[1].type = e
    /\ \A k \in 1..(Len(s) - 1): s[k + 1].type = After(s[k].type, p)

EndsBefore(s, p, e, u) ==
    /\ s # << >> => After(s[Len(s)].type, p) = u
    /\ s = << >> => e = u

InStep(p) ==
    pc[p] # "ended" =>
        /\ Chain(wire[p], p, Expected(p))
        /\ pc[Other(p)] # "ended" => EndsBefore(wire[p], p, Expected(p), Upcoming(Other(p)))

\* A negative frame is the last word of its writer.
FrameMeans(f, p) ==
    /\ f.type = "availability" =>
         IF f.flag THEN ~busy ELSE busy /\ reason[Other(p)] = "turned away"
    /\ f.type = "confirmation" =>
         IF f.flag THEN answer[Other(p)] = "yes"
         ELSE answer[Other(p)] = "no" /\ reason[Other(p)] = "rejected"

Meaning(p) == \A k \in 1..Len(wire[p]): FrameMeans(wire[p][k], p)

Progress(p) ==
    /\ pc[p] \in {"availability", "confirm", "open"} => major[p] = major[Other(p)]
    /\ pc[p] \in {"confirm", "open"} => ~busy
    /\ pc[p] \in {"tls", "hello", "availability"} =>
         answer[p] = "none" /\ peerResult[p] = "none" /\ ~confirmed[p]
    /\ confirmed[p] => answer[p] = "yes"
    /\ pc[p] = "confirm" => ~(confirmed[p] /\ peerResult[p] = "taken")
    /\ pc[p] = "open" => confirmed[p] /\ peerResult[p] = "taken"
    /\ peerResult[p] = "yes" => answer[Other(p)] = "yes"
    /\ (peerResult[p] = "taken" /\ pc[p] # "ended") => answer[Other(p)] = "yes"
    /\ peerResult[p] = "no" => answer[Other(p)] = "no" /\ reason[Other(p)] = "rejected"
    /\ peerResult[p] # "bad"

Endings(p) ==
    /\ reason[p] = "none" <=> pc[p] # "ended"
    /\ reason[p] # "unexpected frame"
    /\ reason[p] = "busy" => busy
    /\ reason[p] = "peer rejected" => answer[Other(p)] = "no"
    /\ reason[p] \in {"busy", "peer rejected", "lost"} => reason[Other(p)] \in Causes

IInv ==
    /\ TypeOK
    /\ \A p \in Peers: InStep(p)
    /\ \A p \in Peers: Meaning(p)
    /\ \A p \in Peers: Progress(p)
    /\ \A p \in Peers: Endings(p)

Frames == [type: FrameTypes, flag: BOOLEAN]

---------------------------------------------------------------------------
(* Sequences of frames                                                     *)

\* Reading the first frame of a chain leaves a chain, from what follows it on.
LEMMA ChainTail ==
    ASSUME NEW s \in Seq(Frames), s # << >>, NEW p, NEW e, NEW u, Chain(s, p, e)
    PROVE  /\ Chain(Tail(s), p, After(s[1].type, p))
           /\ EndsBefore(s, p, e, u) => EndsBefore(Tail(s), p, After(s[1].type, p), u)
  <1>1. /\ Tail(s) \in Seq(Frames) /\ Len(s) \in Nat /\ Len(s) > 0
        /\ Len(Tail(s)) = Len(s) - 1
        /\ \A k \in 1..Len(Tail(s)): Tail(s)[k] = s[k + 1]
    OBVIOUS
  <1>2. Tail(s) # << >> => Len(Tail(s)) >= 1 /\ 1 \in 1..(Len(s) - 1)
    BY <1>1
  <1>3. Tail(s) = << >> => Len(s) = 1
    BY <1>1
  <1>4. Chain(Tail(s), p, After(s[1].type, p))
    <2>1. Tail(s) # << >> => Tail(s)[1].type = After(s[1].type, p)
      BY <1>1, <1>2 DEF Chain
    <2>2. ASSUME NEW k \in 1..(Len(Tail(s)) - 1)
          PROVE  Tail(s)[k + 1].type = After(Tail(s)[k].type, p)
      <3>1. /\ k + 1 \in 1..(Len(s) - 1) /\ k \in 1..Len(Tail(s)) /\ k + 1 \in 1..Len(Tail(s))
        BY <1>1
      <3>2. s[k + 1 + 1].type = After(s[k + 1].type, p)
        BY <3>1 DEF Chain
      <3> QED  BY <1>1, <3>1, <3>2
    <2> QED  BY <2>1, <2>2 DEF Chain
  <1>5. ASSUME EndsBefore(s, p, e, u)
        PROVE  EndsBefore(Tail(s), p, After(s[1].type, p), u)
    <2>1. CASE Tail(s) = << >>
      BY <1>3, <1>5, <2>1 DEF EndsBefore
    <2>2. CASE Tail(s) # << >>
      <3>1. Tail(s)[Len(Tail(s))] = s[Len(s)]
        BY <1>1, <1>2, <2>2
      <3> QED  BY <1>5, <2>2, <3>1 DEF EndsBefore
    <2> QED  BY <2>1, <2>2
  <1> QED  BY <1>4, <1>5

\* Writing what comes next lengthens the chain.
LEMMA ChainAppend ==
    ASSUME NEW s \in Seq(Frames), NEW f \in Frames, NEW p, NEW e,
           Chain(s, p, e), EndsBefore(s, p, e, f.type)
    PROVE  /\ Chain(Append(s, f), p, e)
           /\ EndsBefore(Append(s, f), p, e, After(f.type, p))
  <1> DEFINE t == Append(s, f)
  <1>1. /\ t \in Seq(Frames) /\ Len(s) \in Nat /\ Len(t) = Len(s) + 1 /\ t # << >>
        /\ t[Len(t)] = f /\ \A k \in 1..Len(s): t[k] = s[k]
    OBVIOUS
  <1>2. EndsBefore(t, p, e, After(f.type, p))
    BY <1>1 DEF EndsBefore
  <1>3. CASE s = << >>
    <2>1. Len(t) = 1
      BY <1>1, <1>3
    <2> QED  BY <1>1, <1>2, <1>3, <2>1 DEF Chain, EndsBefore
  <1>4. CASE s # << >>
    <2>1. Len(s) >= 1 /\ t[1] = s[1]
      BY <1>1, <1>4
    <2>2. ASSUME NEW k \in 1..(Len(t) - 1)
          PROVE  t[k + 1].type = After(t[k].type, p)
      <3>1. CASE k = Len(s)
        BY <1>1, <1>4, <3>1 DEF EndsBefore
      <3>2. CASE k # Len(s)
        <4>1. k \in 1..(Len(s) - 1) /\ k \in 1..Len(s) /\ k + 1 \in 1..Len(s)
          BY <1>1, <3>2
        <4> QED  BY <1>1, <4>1 DEF Chain
      <3> QED  BY <3>1, <3>2
    <2> QED  BY <1>2, <1>4, <2>1, <2>2 DEF Chain
  <1> QED  BY <1>3, <1>4

LEMMA PeersFacts ==
    ASSUME NEW p \in Peers
    PROVE  /\ Other(p) \in Peers /\ Other(p) # p /\ Other(Other(p)) = p
           /\ Peers = {p, Other(p)}
  BY DEF Peers, Other

---------------------------------------------------------------------------
(* The two directions                                                      *)

\* What a step of p does to the frames it reads ...
ReadsInStep(p) ==
    \/ pc'[p] = "ended"
    \/ wire'[p] = wire[p] /\ Expected(p)' = Expected(p)
    \/ /\ wire[p] # << >> /\ wire'[p] = Tail(wire[p])
       /\ Expected(p)' = After(wire[p][1].type, p)

\* ... and to those it writes.
WritesInStep(p) ==
    LET o == Other(p) IN
    \/ wire'[o] = wire[o] /\ (pc'[p] = "ended" \/ Upcoming(p)' = Upcoming(p))
    \/ \E f \in Frames:
         /\ f.type = Upcoming(p) /\ wire'[o] = Append(wire[o], f)
         /\ pc'[p] = "ended" \/ Upcoming(p)' = After(f.type, o)

\* The other end does not move.
OnlyStepOf(p) ==
    LET o == Other(p) IN
    /\ pc[p] # "ended"
    /\ pc'[o] = pc[o] /\ Expected(o)' = Expected(o) /\ Upcoming(o)' = Upcoming(o)

LEMMA StepKeepsInStep ==
    ASSUME IInv, NEW p \in Peers, OnlyStepOf(p), ReadsInStep(p), WritesInStep(p)
    PROVE  \A q \in Peers: InStep(q)'
  <1> DEFINE o == Other(p)
  <1>0. /\ o \in Peers /\ Other(o) = p /\ Peers = {p, o}
        /\ wire[p] \in Seq(Frames) /\ wire[o] \in Seq(Frames)
    BY PeersFacts DEF IInv, TypeOK, Frames
  <1>1. InStep(p) /\ InStep(o)
    BY <1>0 DEF IInv
  <1>2. InStep(p)'
    <2>0. SUFFICES ASSUME pc'[p] # "ended"
                   PROVE  /\ Chain(wire'[p], p, Expected(p)')
                          /\ pc'[o] # "ended" => EndsBefore(wire'[p], p, Expected(p)', Upcoming(o)')
      BY DEF InStep
    <2>1. /\ Chain(wire[p], p, Expected(p))
          /\ pc'[o] # "ended" => EndsBefore(wire[p], p, Expected(p), Upcoming(o)')
      BY <1>1 DEF InStep, OnlyStepOf
    <2>2. CASE wire'[p] = wire[p] /\ Expected(p)' = Expected(p)
      BY <2>1, <2>2
    <2>3. CASE /\ wire[p] # << >> /\ wire'[p] = Tail(wire[p])
               /\ Expected(p)' = After(wire[p][1].type, p)
      <3> HIDE DEF o
      <3>1. Chain(Tail(wire[p]), p, After(wire[p][1].type, p))
        BY <1>0, <2>1, <2>3, ChainTail
      <3>2. EndsBefore(wire[p], p, Expected(p), Upcoming(o)') =>
                EndsBefore(Tail(wire[p]), p, After(wire[p][1].type, p), Upcoming(o)')
        BY <1>0, <2>1, <2>3, ChainTail
      <3> QED  BY <2>1, <2>3, <3>1, <3>2
    <2> QED  BY <2>0, <2>2, <2>3 DEF ReadsInStep
  <1>3. InStep(o)'
    <2>0. SUFFICES ASSUME pc[o] # "ended"
                   PROVE  /\ Chain(wire'[o], o, Expected(o))
                          /\ pc'[p] # "ended" => EndsBefore(wire'[o], o, Expected(o), Upcoming(p)')
      BY <1>0 DEF InStep, OnlyStepOf
    <2>1. /\ Chain(wire[o], o, Expected(o))
          /\ EndsBefore(wire[o], o, Expected(o), Upcoming(p))
      BY <1>0, <1>1, <2>0 DEF InStep, OnlyStepOf
    <2>2. CASE wire'[o] = wire[o] /\ (pc'[p] = "ended" \/ Upcoming(p)' = Upcoming(p))
      BY <2>1, <2>2
    <2>3. CASE \E f \in Frames:
                 /\ f.type = Upcoming(p) /\ wire'[o] = Append(wire[o], f)
                 /\ pc'[p] = "ended" \/ Upcoming(p)' = After(f.type, o)
      <3>0. PICK f \in Frames: /\ f.type = Upcoming(p) /\ wire'[o] = Append(wire[o], f)
                               /\ pc'[p] = "ended" \/ Upcoming(p)' = After(f.type, o)
        BY <2>3
      <3> HIDE DEF o
      <3>1. /\ Chain(Append(wire[o], f), o, Expected(o))
            /\ EndsBefore(Append(wire[o], f), o, Expected(o), After(f.type, o))
        BY <1>0, <2>1, <3>0, ChainAppend
      <3> QED  BY <3>0, <3>1
    <2> QED  BY <2>2, <2>3 DEF WritesInStep
  <1> QED  BY <1>0, <1>2, <1>3

\* A frame that p finds is the one that it expects.
LEMMA NextIsExpected ==
    ASSUME IInv, NEW p \in Peers, pc[p] # "ended", wire[p] # << >>
    PROVE  /\ wire[p] \in Seq(Frames) /\ Head(wire[p]) = wire[p][1] /\ wire[p][1] \in Frames
           /\ 1 \in 1..Len(wire[p]) /\ wire[p][1].type = Expected(p)
           /\ Tail(wire[p]) \in Seq(Frames)
  <1>1. wire[p] \in Seq(Frames)
    BY DEF IInv, TypeOK, Frames
  <1>2. InStep(p)
    BY DEF IInv
  <1> QED  BY <1>1, <1>2 DEF InStep, Chain

---------------------------------------------------------------------------
(* What the frames stand for                                               *)

\* An answer, once typed, and a reason, once given, stay.
Lasting ==
    /\ UNCHANGED given
    /\ \A q \in Peers: /\ answer[q] # "none" => answer'[q] = answer[q]
                       /\ reason[q] # "none" => reason'[q] = reason[q]

LEMMA MeaningLasts ==
    ASSUME NEW p \in Peers, NEW f, Lasting, FrameMeans(f, p)
    PROVE  FrameMeans(f, p)'
  BY PeersFacts DEF Lasting, FrameMeans, given

LEMMA StepKeepsMeaning ==
    ASSUME IInv, NEW p \in Peers, Lasting,
           wire'[p] = wire[p] \/ (wire[p] # << >> /\ wire'[p] = Tail(wire[p])),
           \/ wire'[Other(p)] = wire[Other(p)]
           \/ \E f \in Frames: /\ wire'[Other(p)] = Append(wire[Other(p)], f)
                               /\ FrameMeans(f, Other(p))'
    PROVE  \A q \in Peers: Meaning(q)'
  <1>0. PICK o \in Peers:
        /\ o = Other(p) /\ Peers = {p, o}
        /\ wire[p] \in Seq(Frames) /\ wire[o] \in Seq(Frames)
    BY PeersFacts DEF IInv, TypeOK, Frames
  <1>1. ASSUME NEW q \in Peers, NEW k \in 1..Len(wire[q])
        PROVE  \A f: f = wire[q][k] => FrameMeans(f, q)'
    <2>1. FrameMeans(wire[q][k], q)
      BY DEF IInv, Meaning
    <2> QED  BY <2>1, MeaningLasts
  <1>2. Meaning(p)'
    <2>1. \A k \in 1..Len(wire'[p]): \E j \in 1..Len(wire[p]): wire'[p][k] = wire[p][j]
      <3>1. CASE wire'[p] = wire[p]
        BY <3>1
      <3>2. CASE wire[p] # << >> /\ wire'[p] = Tail(wire[p])
        <4>1. /\ Len(wire'[p]) = Len(wire[p]) - 1 /\ Len(wire[p]) \in Nat
              /\ \A k \in 1..Len(wire'[p]): wire'[p][k] = wire[p][k + 1]
          BY <1>0, <3>2
        <4>2. \A k \in 1..Len(wire'[p]): k + 1 \in 1..Len(wire[p])
          BY <4>1
        <4> QED  BY <4>1, <4>2
      <3> QED  BY <3>1, <3>2
    <2>2. SUFFICES ASSUME NEW k \in 1..Len(wire'[p]), NEW f, f = wire'[p][k]
                   PROVE  FrameMeans(f, p)'
      BY DEF Meaning, FrameMeans
    <2> QED  BY <1>1, <2>1, <2>2
  <1>3. Meaning(o)'
    <2>0. SUFFICES ASSUME NEW k \in 1..Len(wire'[o]), NEW g, g = wire'[o][k]
                   PROVE  FrameMeans(g, o)'
      BY DEF Meaning, FrameMeans
    <2>1. CASE wire'[o] = wire[o]
      BY <1>0, <1>1, <2>0, <2>1
    <2>2. CASE \E f \in Frames: wire'[o] = Append(wire[o], f) /\ FrameMeans(f, o)'
      <3>1. PICK f \in Frames: wire'[o] = Append(wire[o], f) /\ FrameMeans(f, o)'
        BY <2>2
      <3>2. g = f \/ (k \in 1..Len(wire[o]) /\ g = wire[o][k])
        BY <1>0, <2>0, <3>1
      <3> QED  BY <1>0, <1>1, <3>1, <3>2
    <2> QED  BY <1>0, <2>1, <2>2
  <1> QED  BY <1>0, <1>2, <1>3

---------------------------------------------------------------------------
(* One step per action                                                     *)

\* What a step of p can use: the invariant but for the frames.
Setting(p, o) ==
    /\ o \in Peers /\ o = Other(p) /\ o # p /\ p = Other(o) /\ Peers = {p, o}
    /\ pc \in [Peers -> {"tls", "hello", "availability", "confirm", "open", "ended"}]
    /\ reason \in [Peers -> Reasons] /\ answer \in [Peers -> {"none", "yes", "no"}]
    /\ confirmed \in [Peers -> BOOLEAN]
    /\ peerResult \in [Peers -> {"none", "yes", "no", "bad", "taken"}]
    /\ Progress(p) /\ Progress(o) /\ Endings(p) /\ Endings(o)

LEMMA SettingOfStep ==
    ASSUME IInv, NEW p \in Peers
    PROVE  /\ \E o \in Peers: Setting(p, o)
           /\ wire \in [Peers -> Seq(Frames)]
  BY PeersFacts DEF IInv, TypeOK, Setting, Frames

LEMMA FinishHandshakeStep ==
    ASSUME IInv, NEW p \in Peers, FinishHandshake(p)
    PROVE  IInv'
  <1> USE DEF FinishHandshake, Goto, SendTo, Closed, given, confirmVars
  <1>0. PICK o \in Peers: Setting(p, o)
    BY SettingOfStep
  <1>w. wire \in [Peers -> Seq(Frames)]
    BY SettingOfStep
  <1> DEFINE f == Frame("hello", TRUE)
  <1>f. f \in Frames /\ f.type = "hello" /\ f.flag = (TRUE)
    BY <1>0 DEF Frame, Frames, FrameTypes, Setting
  <1>g. /\ wire' = [wire EXCEPT ![o] = Append(@, f)]
        /\ wire'[o] = Append(wire[o], f) /\ wire'[p] = wire[p]
    BY <1>0, <1>w DEF Setting
  <1> HIDE DEF f
  <1>h. Append(wire[o], f) \in Seq(Frames)
    BY <1>w, <1>f
  <1>1. TypeOK'
    <2>1. wire' \in [Peers -> Seq(Frames)]
      <3>1. o \in Peers
        BY <1>0 DEF Setting
      <3>2. wire' = [wire EXCEPT ![o] = Append(wire[o], f)]
        BY <1>g
      <3> QED BY <1>w, <1>h, <3>1, <3>2
    <2> QED  BY <1>0, <2>1 DEF IInv, Setting, TypeOK, Frames, Reasons, Causes
  <1>2. \A q \in Peers: InStep(q)'
    <2>1. OnlyStepOf(p)
      BY <1>0 DEF Setting, OnlyStepOf, Expected, Upcoming
    <2>2. ReadsInStep(p)
      BY <1>0, <1>w DEF Setting, ReadsInStep, Expected, After
    <2>3. WritesInStep(p)
      BY <1>0, <1>f, <1>g DEF Setting, WritesInStep, Upcoming, After, Other, Peers
    <2> QED  BY <2>1, <2>2, <2>3, StepKeepsInStep
  <1>3. \A q \in Peers: Meaning(q)'
    <2>1. Lasting
      BY <1>0 DEF Setting, Lasting, Endings
    <2> QED  BY <1>0, <1>f, <1>g, <2>1, StepKeepsMeaning DEF Setting, FrameMeans
  <1>4. Progress(p)' /\ Progress(o)'
    BY <1>0 DEF Setting, Progress, Endings
  <1>5. Endings(p)' /\ Endings(o)'
    BY <1>0 DEF Setting, Endings, Progress, Reasons, Causes
  <1> QED  BY <1>0, <1>1, <1>2, <1>3, <1>4, <1>5 DEF IInv, Setting

LEMMA HandshakeFailsStep ==
    ASSUME IInv, NEW p \in Peers, HandshakeFails(p)
    PROVE  IInv'
  <1> USE DEF HandshakeFails, End, Closed, given, confirmVars
  <1>0. PICK o \in Peers: Setting(p, o)
    BY SettingOfStep
  <1>w. wire \in [Peers -> Seq(Frames)]
    BY SettingOfStep
  <1>1. TypeOK'
    <2>1. wire' \in [Peers -> Seq(Frames)]
      BY <1>0, <1>w DEF Setting, Frames, FrameTypes
    <2> QED  BY <1>0, <2>1 DEF IInv, Setting, TypeOK, Frames, Reasons, Causes
  <1>2. \A q \in Peers: InStep(q)'
    <2>1. OnlyStepOf(p)
      BY <1>0 DEF Setting, OnlyStepOf, Expected, Upcoming
    <2>2. ReadsInStep(p)
      BY <1>0, <1>w DEF Setting, ReadsInStep, Expected, After
    <2>3. WritesInStep(p)
      BY <1>0, <1>w DEF Setting, WritesInStep, Upcoming, After
    <2> QED  BY <2>1, <2>2, <2>3, StepKeepsInStep
  <1>3. \A q \in Peers: Meaning(q)'
    <2>1. Lasting
      BY <1>0 DEF Setting, Lasting, Endings
    <2> QED  BY <1>0, <1>w, <2>1, StepKeepsMeaning DEF Setting
  <1>4. Progress(p)' /\ Progress(o)'
    BY <1>0 DEF Setting, Progress, Endings
  <1>5. Endings(p)' /\ Endings(o)'
    BY <1>0 DEF Setting, Endings, Progress, Reasons, Causes
  <1> QED  BY <1>0, <1>1, <1>2, <1>3, <1>4, <1>5 DEF IInv, Setting

LEMMA UserAnswersStep ==
    ASSUME IInv, NEW p \in Peers, UserAnswers(p)
    PROVE  IInv'
  <1> USE DEF UserAnswers, given
  <1>0. PICK o \in Peers: Setting(p, o)
    BY SettingOfStep
  <1>w. wire \in [Peers -> Seq(Frames)]
    BY SettingOfStep
  <1>1. TypeOK'
    <2>1. wire' \in [Peers -> Seq(Frames)]
      BY <1>0, <1>w DEF Setting, Frames, FrameTypes
    <2>2. answer' \in [Peers -> {"none", "yes", "no"}]
      BY <1>0 DEF Setting
    <2> QED  BY <1>0, <2>1, <2>2 DEF IInv, TypeOK, Frames
  <1>2. \A q \in Peers: InStep(q)'
    <2>1. OnlyStepOf(p)
      BY <1>0 DEF Setting, OnlyStepOf, Expected, Upcoming
    <2>2. ReadsInStep(p)
      BY <1>0, <1>w DEF Setting, ReadsInStep, Expected, After
    <2>3. WritesInStep(p)
      BY <1>0, <1>w DEF Setting, WritesInStep, Upcoming, After
    <2> QED  BY <2>1, <2>2, <2>3, StepKeepsInStep
  <1>3. \A q \in Peers: Meaning(q)'
    <2>1. Lasting
      BY <1>0 DEF Setting, Lasting, Endings
    <2> QED  BY <1>0, <1>w, <2>1, StepKeepsMeaning DEF Setting
  <1>4. Progress(p)' /\ Progress(o)'
    BY <1>0 DEF Setting, Progress, Endings
  <1>5. Endings(p)' /\ Endings(o)'
    BY <1>0 DEF Setting, Endings, Progress, Reasons, Causes
  <1> QED  BY <1>0, <1>1, <1>2, <1>3, <1>4, <1>5 DEF IInv, Setting

LEMMA CancelStep ==
    ASSUME IInv, NEW p \in Peers, Cancel(p)
    PROVE  IInv'
  <1> USE DEF Cancel, End, Closed, given, confirmVars
  <1>0. PICK o \in Peers: Setting(p, o)
    BY SettingOfStep
  <1>w. wire \in [Peers -> Seq(Frames)]
    BY SettingOfStep
  <1>1. TypeOK'
    <2>1. wire' \in [Peers -> Seq(Frames)]
      BY <1>0, <1>w DEF Setting, Frames, FrameTypes
    <2> QED  BY <1>0, <2>1 DEF IInv, Setting, TypeOK, Frames, Reasons, Causes
  <1>2. \A q \in Peers: InStep(q)'
    <2>1. OnlyStepOf(p)
      BY <1>0 DEF Setting, OnlyStepOf, Expected, Upcoming
    <2>2. ReadsInStep(p)
      BY <1>0, <1>w DEF Setting, ReadsInStep, Expected, After
    <2>3. WritesInStep(p)
      BY <1>0, <1>w DEF Setting, WritesInStep, Upcoming, After
    <2> QED  BY <2>1, <2>2, <2>3, StepKeepsInStep
  <1>3. \A q \in Peers: Meaning(q)'
    <2>1. Lasting
      BY <1>0 DEF Setting, Lasting, Endings
    <2> QED  BY <1>0, <1>w, <2>1, StepKeepsMeaning DEF Setting
  <1>4. Progress(p)' /\ Progress(o)'
    BY <1>0 DEF Setting, Progress, Endings
  <1>5. Endings(p)' /\ Endings(o)'
    BY <1>0 DEF Setting, Endings, Progress, Reasons, Causes
  <1> QED  BY <1>0, <1>1, <1>2, <1>3, <1>4, <1>5 DEF IInv, Setting

LEMMA ConnectionLostStep ==
    ASSUME IInv, NEW p \in Peers, ConnectionLost(p)
    PROVE  IInv'
  <1> USE DEF ConnectionLost, End, Closed, given, confirmVars
  <1>0. PICK o \in Peers: Setting(p, o)
    BY SettingOfStep
  <1>w. wire \in [Peers -> Seq(Frames)]
    BY SettingOfStep
  <1>1. TypeOK'
    <2>1. wire' \in [Peers -> Seq(Frames)]
      BY <1>0, <1>w DEF Setting, Frames, FrameTypes
    <2> QED  BY <1>0, <2>1 DEF IInv, Setting, TypeOK, Frames, Reasons, Causes
  <1>2. \A q \in Peers: InStep(q)'
    <2>1. OnlyStepOf(p)
      BY <1>0 DEF Setting, OnlyStepOf, Expected, Upcoming
    <2>2. ReadsInStep(p)
      BY <1>0, <1>w DEF Setting, ReadsInStep, Expected, After
    <2>3. WritesInStep(p)
      BY <1>0, <1>w DEF Setting, WritesInStep, Upcoming, After
    <2> QED  BY <2>1, <2>2, <2>3, StepKeepsInStep
  <1>3. \A q \in Peers: Meaning(q)'
    <2>1. Lasting
      BY <1>0 DEF Setting, Lasting, Endings
    <2> QED  BY <1>0, <1>w, <2>1, StepKeepsMeaning DEF Setting
  <1>4. Progress(p)' /\ Progress(o)'
    BY <1>0 DEF Setting, Progress, Endings
  <1>5. Endings(p)' /\ Endings(o)'
    BY <1>0 DEF Setting, Endings, Progress, Reasons, Causes
  <1> QED  BY <1>0, <1>1, <1>2, <1>3, <1>4, <1>5 DEF IInv, Setting

LEMMA SessionSendsStep ==
    ASSUME IInv, NEW p \in Peers, SessionSends(p)
    PROVE  IInv'
  <1> USE DEF SessionSends, SendTo, given
  <1>0. PICK o \in Peers: Setting(p, o)
    BY SettingOfStep
  <1>w. wire \in [Peers -> Seq(Frames)]
    BY SettingOfStep
  <1> DEFINE f == Frame("session", TRUE)
  <1>f. f \in Frames /\ f.type = "session" /\ f.flag = (TRUE)
    BY <1>0 DEF Frame, Frames, FrameTypes, Setting
  <1>g. /\ wire' = [wire EXCEPT ![o] = Append(@, f)]
        /\ wire'[o] = Append(wire[o], f) /\ wire'[p] = wire[p]
    BY <1>0, <1>w DEF Setting
  <1> HIDE DEF f
  <1>h. Append(wire[o], f) \in Seq(Frames)
    BY <1>w, <1>f
  <1>1. TypeOK'
    <2>1. wire' \in [Peers -> Seq(Frames)]
      BY <1>0, <1>w, <1>g, <1>h DEF Setting
    <2>2. sessionFrames' \in [Peers -> 0..MaxSession]
      BY HandshakeAssumption DEF IInv, TypeOK
    <2> QED  BY <1>0, <2>1, <2>2 DEF IInv, TypeOK, Frames
  <1>2. \A q \in Peers: InStep(q)'
    <2>1. OnlyStepOf(p)
      BY <1>0 DEF Setting, OnlyStepOf, Expected, Upcoming
    <2>2. ReadsInStep(p)
      BY <1>0, <1>w DEF Setting, ReadsInStep, Expected, After
    <2>3. WritesInStep(p)
      BY <1>0, <1>f, <1>g DEF Setting, WritesInStep, Upcoming, After, Other, Peers
    <2> QED  BY <2>1, <2>2, <2>3, StepKeepsInStep
  <1>3. \A q \in Peers: Meaning(q)'
    <2>1. Lasting
      BY <1>0 DEF Setting, Lasting, Endings
    <2> QED  BY <1>0, <1>f, <1>g, <2>1, StepKeepsMeaning DEF Setting, FrameMeans
  <1>4. Progress(p)' /\ Progress(o)'
    BY <1>0 DEF Setting, Progress, Endings
  <1>5. Endings(p)' /\ Endings(o)'
    BY <1>0 DEF Setting, Endings, Progress, Reasons, Causes
  <1> QED  BY <1>0, <1>1, <1>2, <1>3, <1>4, <1>5 DEF IInv, Setting

LEMMA ReadAvailabilityStep ==
    ASSUME IInv, NEW p \in Peers, ReadAvailability(p)
    PROVE  IInv'
  <1> USE DEF ReadAvailability, Goto, End, given, confirmVars
  <1>0. PICK o \in Peers: Setting(p, o)
    BY SettingOfStep
  <1>w. wire \in [Peers -> Seq(Frames)]
    BY SettingOfStep
  <1>r. /\ wire[p] # << >> /\ Head(wire[p]) = wire[p][1] /\ wire[p][1] \in Frames
        /\ wire[p][1].type = Expected(p) /\ FrameMeans(wire[p][1], p)
        /\ Tail(wire[p]) \in Seq(Frames)
    BY NextIsExpected DEF Arrived, IInv, Meaning
  <1>d. wire' = [wire EXCEPT ![p] = Tail(@)]
    BY DEF ReadBy
  <1>g. wire'[p] = Tail(wire[p]) /\ wire'[o] = wire[o]
    BY <1>0, <1>w, <1>d DEF Setting
  <1>1. TypeOK'
    <2>1. wire' \in [Peers -> Seq(Frames)]
      BY <1>w, <1>d, <1>r
    <2>2. /\ pc' \in [Peers -> {"tls", "hello", "availability", "confirm", "open", "ended"}]
          /\ reason' \in [Peers -> Reasons]
          /\ peerResult' \in [Peers -> {"none", "yes", "no", "bad", "taken"}]
      BY <1>0, ZenonT(30) DEF Setting, Reasons, Causes
    <2> QED  BY <2>1, <2>2 DEF IInv, TypeOK, Frames
  <1>2. \A q \in Peers: InStep(q)'
    <2>1. OnlyStepOf(p)
      BY <1>0 DEF Setting, OnlyStepOf, Expected, Upcoming
    <2>2. ReadsInStep(p)
      BY <1>0, <1>r, <1>g DEF Setting, ReadsInStep, Expected, After, Progress, NextFrame
    <2>3. WritesInStep(p)
      BY <1>0, <1>r, <1>g DEF Setting, WritesInStep, Upcoming, Progress, NextFrame, Expected
    <2> QED  BY <2>1, <2>2, <2>3, StepKeepsInStep
  <1>3. \A q \in Peers: Meaning(q)'
    <2>1. Lasting
      BY <1>0 DEF Setting, Lasting, Endings
    <2> QED  BY <1>0, <1>r, <1>g, <2>1, StepKeepsMeaning DEF Setting
  <1>4. Progress(p)' /\ Progress(o)'
    <2>1. Progress(p)'
      BY <1>0, <1>r, ZenonT(30) DEF Setting, Progress, Endings, FrameMeans, Expected, NextFrame
    <2>2. Progress(o)'
      BY <1>0, <1>r, ZenonT(30) DEF Setting, Progress, Endings, FrameMeans, Expected, NextFrame
    <2> QED  BY <2>1, <2>2
  <1>5. Endings(p)' /\ Endings(o)'
    <2>1. Endings(p)'
      BY <1>0, <1>r, ZenonT(30) DEF Setting, Endings, Reasons, FrameMeans, Expected, NextFrame
    <2>2. Endings(o)'
      BY <1>0, <1>r, ZenonT(30) DEF Setting, Endings, Causes, Expected, NextFrame
    <2> QED  BY <2>1, <2>2
  <1> QED  BY <1>0, <1>1, <1>2, <1>3, <1>4, <1>5 DEF IInv, Setting

LEMMA ReaderReadsStep ==
    ASSUME IInv, NEW p \in Peers, ReaderReads(p)
    PROVE  IInv'
  <1> USE DEF ReaderReads, given
  <1>0. PICK o \in Peers: Setting(p, o)
    BY SettingOfStep
  <1>w. wire \in [Peers -> Seq(Frames)]
    BY SettingOfStep
  <1>r. /\ wire[p] # << >> /\ Head(wire[p]) = wire[p][1] /\ wire[p][1] \in Frames
        /\ wire[p][1].type = Expected(p) /\ FrameMeans(wire[p][1], p)
        /\ Tail(wire[p]) \in Seq(Frames)
    BY NextIsExpected DEF Arrived, IInv, Meaning
  <1>d. wire' = [wire EXCEPT ![p] = Tail(@)]
    BY DEF ReadBy
  <1>g. wire'[p] = Tail(wire[p]) /\ wire'[o] = wire[o]
    BY <1>0, <1>w, <1>d DEF Setting
  <1>1. TypeOK'
    <2>1. wire' \in [Peers -> Seq(Frames)]
      BY <1>w, <1>d, <1>r
    <2>2. /\ pc' \in [Peers -> {"tls", "hello", "availability", "confirm", "open", "ended"}]
          /\ reason' \in [Peers -> Reasons]
          /\ peerResult' \in [Peers -> {"none", "yes", "no", "bad", "taken"}]
      BY <1>0, ZenonT(30) DEF Setting, Reasons, Causes
    <2> QED  BY <2>1, <2>2 DEF IInv, TypeOK, Frames
  <1>2. \A q \in Peers: InStep(q)'
    <2>1. OnlyStepOf(p)
      BY <1>0 DEF Setting, OnlyStepOf, Expected, Upcoming
    <2>2. ReadsInStep(p)
      BY <1>0, <1>r, <1>g DEF Setting, ReadsInStep, Expected, After, Progress, NextFrame
    <2>3. WritesInStep(p)
      BY <1>0, <1>r, <1>g DEF Setting, WritesInStep, Upcoming, Progress, NextFrame, Expected
    <2> QED  BY <2>1, <2>2, <2>3, StepKeepsInStep
  <1>3. \A q \in Peers: Meaning(q)'
    <2>1. Lasting
      BY <1>0 DEF Setting, Lasting, Endings
    <2> QED  BY <1>0, <1>r, <1>g, <2>1, StepKeepsMeaning DEF Setting
  <1>4. Progress(p)' /\ Progress(o)'
    <2>1. Progress(p)'
      BY <1>0, <1>r, ZenonT(30) DEF Setting, Progress, Endings, FrameMeans, Expected, NextFrame
    <2>2. Progress(o)'
      BY <1>0, <1>r, ZenonT(30) DEF Setting, Progress, Endings, FrameMeans, Expected, NextFrame
    <2> QED  BY <2>1, <2>2
  <1>5. Endings(p)' /\ Endings(o)'
    <2>1. Endings(p)'
      BY <1>0, <1>r, ZenonT(30) DEF Setting, Endings, Reasons, FrameMeans, Expected, NextFrame
    <2>2. Endings(o)'
      BY <1>0, <1>r, ZenonT(30) DEF Setting, Endings, Causes, Expected, NextFrame
    <2> QED  BY <2>1, <2>2
  <1> QED  BY <1>0, <1>1, <1>2, <1>3, <1>4, <1>5 DEF IInv, Setting

LEMMA SessionReadsStep ==
    ASSUME IInv, NEW p \in Peers, SessionReads(p)
    PROVE  IInv'
  <1> USE DEF SessionReads, End, given, confirmVars
  <1>0. PICK o \in Peers: Setting(p, o)
    BY SettingOfStep
  <1>w. wire \in [Peers -> Seq(Frames)]
    BY SettingOfStep
  <1>r. /\ wire[p] # << >> /\ Head(wire[p]) = wire[p][1] /\ wire[p][1] \in Frames
        /\ wire[p][1].type = Expected(p) /\ FrameMeans(wire[p][1], p)
        /\ Tail(wire[p]) \in Seq(Frames)
    BY NextIsExpected DEF Arrived, IInv, Meaning
  <1>d. wire' = [wire EXCEPT ![p] = Tail(@)]
    BY DEF ReadBy
  <1>g. wire'[p] = Tail(wire[p]) /\ wire'[o] = wire[o]
    BY <1>0, <1>w, <1>d DEF Setting
  <1>1. TypeOK'
    <2>1. wire' \in [Peers -> Seq(Frames)]
      BY <1>w, <1>d, <1>r
    <2>2. /\ pc' \in [Peers -> {"tls", "hello", "availability", "confirm", "open", "ended"}]
          /\ reason' \in [Peers -> Reasons]
          /\ peerResult' \in [Peers -> {"none", "yes", "no", "bad", "taken"}]
      BY <1>0, ZenonT(30) DEF Setting, Reasons, Causes
    <2> QED  BY <2>1, <2>2 DEF IInv, TypeOK, Frames
  <1>2. \A q \in Peers: InStep(q)'
    <2>1. OnlyStepOf(p)
      BY <1>0 DEF Setting, OnlyStepOf, Expected, Upcoming
    <2>2. ReadsInStep(p)
      BY <1>0, <1>r, <1>g DEF Setting, ReadsInStep, Expected, After, Progress, NextFrame
    <2>3. WritesInStep(p)
      BY <1>0, <1>r, <1>g DEF Setting, WritesInStep, Upcoming, Progress, NextFrame, Expected
    <2> QED  BY <2>1, <2>2, <2>3, StepKeepsInStep
  <1>3. \A q \in Peers: Meaning(q)'
    <2>1. Lasting
      BY <1>0 DEF Setting, Lasting, Endings
    <2> QED  BY <1>0, <1>r, <1>g, <2>1, StepKeepsMeaning DEF Setting
  <1>4. Progress(p)' /\ Progress(o)'
    <2>1. Progress(p)'
      BY <1>0, <1>r, ZenonT(30) DEF Setting, Progress, Endings, FrameMeans, Expected, NextFrame
    <2>2. Progress(o)'
      BY <1>0, <1>r, ZenonT(30) DEF Setting, Progress, Endings, FrameMeans, Expected, NextFrame
    <2> QED  BY <2>1, <2>2
  <1>5. Endings(p)' /\ Endings(o)'
    <2>1. Endings(p)'
      BY <1>0, <1>r, ZenonT(30) DEF Setting, Endings, Reasons, FrameMeans, Expected, NextFrame
    <2>2. Endings(o)'
      BY <1>0, <1>r, ZenonT(30) DEF Setting, Endings, Causes, Expected, NextFrame
    <2> QED  BY <2>1, <2>2
  <1> QED  BY <1>0, <1>1, <1>2, <1>3, <1>4, <1>5 DEF IInv, Setting

LEMMA TakePeerResultStep ==
    ASSUME IInv, NEW p \in Peers, TakePeerResult(p)
    PROVE  IInv'
  <1> USE DEF TakePeerResult, EnterIfBoth, Goto, End, given
  <1>0. PICK o \in Peers: Setting(p, o)
    BY SettingOfStep
  <1>1. TypeOK'
    <2>1. /\ pc' \in [Peers -> {"tls", "hello", "availability", "confirm", "open", "ended"}]
          /\ reason' \in [Peers -> Reasons]
          /\ peerResult' \in [Peers -> {"none", "yes", "no", "bad", "taken"}]
      BY <1>0, ZenonT(30) DEF Setting, Reasons, Causes
    <2> QED  BY <2>1 DEF IInv, TypeOK
  <1>2. \A q \in Peers: InStep(q)'
    <2>1. OnlyStepOf(p)
      BY <1>0 DEF Setting, OnlyStepOf, Expected, Upcoming
    <2>2. ReadsInStep(p)
      BY <1>0 DEF Setting, ReadsInStep, Expected
    <2>3. WritesInStep(p)
      BY <1>0 DEF Setting, WritesInStep, Upcoming
    <2> QED  BY <2>1, <2>2, <2>3, StepKeepsInStep
  <1>3. \A q \in Peers: Meaning(q)'
    <2>1. Lasting
      BY <1>0 DEF Setting, Lasting, Endings
    <2> QED  BY <1>0, <2>1, StepKeepsMeaning DEF Setting
  <1>4. Progress(p)' /\ Progress(o)'
    <2>1. Progress(p)'
      BY <1>0, ZenonT(30) DEF Setting, Progress, Endings
    <2>2. Progress(o)'
      BY <1>0, ZenonT(30) DEF Setting, Progress, Endings
    <2> QED  BY <2>1, <2>2
  <1>5. Endings(p)' /\ Endings(o)'
    <2>1. Endings(p)'
      BY <1>0, ZenonT(30) DEF Setting, Endings, Progress, Reasons, Causes
    <2>2. Endings(o)'
      BY <1>0, ZenonT(30) DEF Setting, Endings, Progress, Reasons, Causes
    <2> QED  BY <2>1, <2>2
  <1> QED  BY <1>0, <1>1, <1>2, <1>3, <1>4, <1>5 DEF IInv, Setting

LEMMA TakeAnswerStep ==
    ASSUME IInv, NEW p \in Peers, TakeAnswer(p)
    PROVE  IInv'
  <1> USE DEF TakeAnswer, EnterIfBoth, Goto, End, SendTo, given
  <1>0. PICK o \in Peers: Setting(p, o)
    BY SettingOfStep
  <1>w. wire \in [Peers -> Seq(Frames)]
    BY SettingOfStep
  <1> DEFINE f == Frame("confirmation", answer[p] = "yes")
  <1>f. f \in Frames /\ f.type = "confirmation" /\ (f.flag <=> answer[p] = "yes")
    BY DEF Frame, Frames, FrameTypes
  <1>g. /\ wire' = [wire EXCEPT ![o] = Append(@, f)]
        /\ wire'[o] = Append(wire[o], f) /\ wire'[p] = wire[p]
    BY <1>0, <1>w DEF Setting
  <1> HIDE DEF f
  <1>h. Append(wire[o], f) \in Seq(Frames)
    BY <1>w, <1>f
  <1>1. TypeOK'
    <2>1. wire' \in [Peers -> Seq(Frames)]
      BY <1>w, <1>g, <1>h
    <2>2. /\ pc' \in [Peers -> {"tls", "hello", "availability", "confirm", "open", "ended"}]
          /\ reason' \in [Peers -> Reasons]
          /\ confirmed' \in [Peers -> BOOLEAN]
      BY <1>0, ZenonT(30) DEF Setting, Reasons, Causes
    <2> QED  BY <2>1, <2>2 DEF IInv, TypeOK, Frames
  <1>2. \A q \in Peers: InStep(q)'
    <2>1. OnlyStepOf(p)
      BY <1>0 DEF Setting, OnlyStepOf, Expected, Upcoming
    <2>2. ReadsInStep(p)
      BY <1>0, <1>g DEF Setting, ReadsInStep, Expected
    <2>3. WritesInStep(p)
      BY <1>0, <1>f, <1>g DEF Setting, WritesInStep, Upcoming, After
    <2> QED  BY <2>1, <2>2, <2>3, StepKeepsInStep
  <1>3. \A q \in Peers: Meaning(q)'
    <2>1. Lasting
      BY <1>0 DEF Setting, Lasting, Endings
    <2>2. \A x: x = f => FrameMeans(x, o)'
      <3>1. CASE answer[p] = "yes"
        BY <1>0, <1>f, <3>1, ZenonT(30) DEF Setting, FrameMeans
      <3>2. CASE answer[p] = "no"
        BY <1>0, <1>f, <3>2, ZenonT(30) DEF Setting, FrameMeans
      <3> QED  BY <1>0, <3>1, <3>2 DEF Setting
    <2> QED  BY <1>0, <1>f, <1>g, <2>1, <2>2, StepKeepsMeaning DEF Setting
  <1>4. Progress(p)' /\ Progress(o)'
    <2>1. Progress(p)'
      BY <1>0, ZenonT(30) DEF Setting, Progress, Endings
    <2>2. Progress(o)'
      BY <1>0, ZenonT(30) DEF Setting, Progress, Endings
    <2> QED  BY <2>1, <2>2
  <1>5. Endings(p)' /\ Endings(o)'
    <2>1. Endings(p)'
      BY <1>0, ZenonT(30) DEF Setting, Endings, Progress, Reasons, Causes
    <2>2. Endings(o)'
      BY <1>0, ZenonT(30) DEF Setting, Endings, Progress, Reasons, Causes
    <2> QED  BY <2>1, <2>2
  <1> QED  BY <1>0, <1>1, <1>2, <1>3, <1>4, <1>5 DEF IInv, Setting

\* Only the end that was dialed answers the hello, with its availability.
LEMMA ReadHelloStep ==
    ASSUME IInv, NEW p \in Peers, ReadHello(p)
    PROVE  IInv'
  <1> USE DEF End, Goto, given, confirmVars
  <1>0. PICK o \in Peers: Setting(p, o)
    BY SettingOfStep
  <1>w. wire \in [Peers -> Seq(Frames)]
    BY SettingOfStep
  <1>p. /\ pc \in [Peers -> {"tls", "hello", "availability", "confirm", "open", "ended"}]
        /\ reason \in [Peers -> Reasons]
    BY <1>0 DEF Setting
  <1>a. pc[p] = "hello" /\ UNCHANGED confirmVars
    BY DEF ReadHello
  <1>r. /\ wire[p] # << >> /\ Head(wire[p]) = wire[p][1] /\ wire[p][1] \in Frames
        /\ wire[p][1].type = "hello" /\ Tail(wire[p]) \in Seq(Frames)
    BY <1>a, NextIsExpected DEF ReadHello, Arrived, Expected
  <1> DEFINE f == Frame("availability", ~busy)
  <1>f. f \in Frames /\ f.type = "availability" /\ (f.flag <=> ~busy)
    BY DEF Frame, Frames, FrameTypes
  <1>g. Append(wire[o], f) \in Seq(Frames)
    BY <1>w, <1>f
  <1>b. \/ /\ wire' = [wire EXCEPT ![p] = Tail(@)]
           /\ \/ End(p, "version")
              \/ major[p] = major[Other(p)] /\ p = "out" /\ Goto(p, "availability")
        \/ /\ wire' = [wire EXCEPT ![p] = Tail(@), ![o] = Append(@, f)]
           /\ major[p] = major[Other(p)] /\ p = "in"
           /\ IF busy THEN End(p, "turned away") ELSE Goto(p, "confirm")
    BY <1>0, <1>r DEF ReadHello, NextFrame, ReadBy, ReadAndSend, Setting, Peers
  <1> HIDE DEF f
  <1>c. /\ wire'[p] = Tail(wire[p]) /\ wire' \in [Peers -> Seq(Frames)]
        /\ \/ wire'[o] = wire[o] /\ (pc'[p] = "ended" \/ (p = "out" /\ pc'[p] = "availability"))
           \/ /\ wire'[o] = Append(wire[o], f) /\ p = "in"
              /\ IF busy THEN pc'[p] = "ended" /\ reason'[p] = "turned away"
                 ELSE pc'[p] = "confirm"
    <2>1. CASE /\ wire' = [wire EXCEPT ![p] = Tail(@)]
               /\ \/ End(p, "version")
                  \/ major[p] = major[Other(p)] /\ p = "out" /\ Goto(p, "availability")
      <3>1. /\ wire'[p] = Tail(wire[p]) /\ wire'[o] = wire[o]
            /\ wire' \in [Peers -> Seq(Frames)]
        BY <1>0, <1>w, <1>r, <2>1 DEF Setting
      <3>2. pc'[p] = "ended" \/ (p = "out" /\ pc'[p] = "availability")
        <4>1. CASE End(p, "version")
          BY <1>p, <4>1
        <4>2. CASE p = "out" /\ Goto(p, "availability")
          BY <1>p, <4>2
        <4> QED  BY <2>1, <4>1, <4>2
      <3> QED  BY <3>1, <3>2
    <2>2. CASE /\ wire' = [wire EXCEPT ![p] = Tail(@), ![o] = Append(@, f)]
               /\ major[p] = major[Other(p)] /\ p = "in"
               /\ IF busy THEN End(p, "turned away") ELSE Goto(p, "confirm")
      <3>1. /\ wire'[p] = Tail(wire[p]) /\ wire'[o] = Append(wire[o], f)
            /\ wire' \in [Peers -> Seq(Frames)]
        <4>1. /\ p \in Peers /\ o \in Peers /\ o # p
          BY <1>0 DEF Setting
        <4> QED  BY <1>w, <1>r, <1>g, <2>2, <4>1
      <3>2. IF busy THEN pc'[p] = "ended" /\ reason'[p] = "turned away" ELSE pc'[p] = "confirm"
        <4>1. p \in Peers /\ pc \in [Peers -> {"tls", "hello", "availability", "confirm", "open", "ended"}]
              /\ reason \in [Peers -> Reasons]
          BY <1>0 DEF Setting
        <4>2. IF busy THEN End(p, "turned away") ELSE Goto(p, "confirm")
          BY <2>2
        <4> HIDE DEF Setting
        <4> QED BY <4>1, <4>2
      <3> QED  BY <2>2, <3>1, <3>2
    <2> QED  BY <1>b, <2>1, <2>2
  <1>1. TypeOK'
    <2>1. /\ pc' \in [Peers -> {"tls", "hello", "availability", "confirm", "open", "ended"}]
          /\ reason' \in [Peers -> Reasons]
      <3>1. \E stage \in {"availability", "confirm", "ended"}: pc' = [pc EXCEPT ![p] = stage]
        BY <1>b
      <3>2. reason' = reason \/ \E why \in {"version", "turned away"}: reason' = [reason EXCEPT ![p] = why]
        BY <1>b
      <3>3. pc' \in [Peers -> {"tls", "hello", "availability", "confirm", "open", "ended"}]
        BY <1>p, <3>1
      <3>4. reason' \in [Peers -> Reasons]
        BY <1>p, <3>2 DEF Reasons, Causes
      <3> QED  BY <3>3, <3>4
    <2> QED  BY <1>a, <1>c, <2>1 DEF IInv, TypeOK, Frames
  <1>2. \A q \in Peers: InStep(q)'
    <2>1. OnlyStepOf(p)
      BY <1>0, <1>a, <1>b DEF Setting, OnlyStepOf, Expected, Upcoming
    <2>2. ReadsInStep(p)
      BY <1>0, <1>a, <1>r, <1>c DEF Setting, ReadsInStep, Expected, After, Progress
    <2>3. WritesInStep(p)
      BY <1>0, <1>a, <1>f, <1>c DEF Setting, WritesInStep, Upcoming, After, Progress, Other
    <2> QED  BY <2>1, <2>2, <2>3, StepKeepsInStep
  <1>3. \A q \in Peers: Meaning(q)'
    <2>1. Lasting
      BY <1>0, <1>a, <1>b DEF Setting, Lasting, Endings
    <2>2. wire'[o] = wire[o] \/ \A x: x = f => FrameMeans(x, o)'
      BY <1>0, <1>a, <1>f, <1>c DEF Setting, FrameMeans
    <2> QED  BY <1>0, <1>r, <1>f, <1>c, <2>1, <2>2, StepKeepsMeaning DEF Setting
  <1>4. Progress(p)' /\ Progress(o)'
    <2>1. Progress(p)'
      BY <1>0, <1>a, <1>b, ZenonT(30) DEF Setting, Progress, Endings
    <2>2. Progress(o)'
      BY <1>0, <1>a, <1>b, ZenonT(30) DEF Setting, Progress, Endings
    <2> QED  BY <2>1, <2>2
  <1>5. Endings(p)' /\ Endings(o)'
    <2>1. Endings(p)'
      BY <1>0, <1>a, <1>b, ZenonT(30) DEF Setting, Endings, Progress, Reasons, Causes
    <2>2. Endings(o)'
      BY <1>0, <1>a, <1>b, ZenonT(30) DEF Setting, Endings, Progress, Reasons, Causes
    <2> QED  BY <2>1, <2>2
  <1> QED  BY <1>0, <1>1, <1>2, <1>3, <1>4, <1>5 DEF IInv, Setting

---------------------------------------------------------------------------
(* The theorems                                                            *)

LEMMA InitInv == Init => IInv
  <1> SUFFICES ASSUME Init PROVE IInv
    OBVIOUS
  <1>1. TypeOK
    BY HandshakeAssumption DEF Init, TypeOK, Reasons, Causes
  <1>2. ASSUME NEW p \in Peers
        PROVE  InStep(p) /\ Meaning(p) /\ Progress(p) /\ Endings(p)
    <2>1. /\ pc[p] = "tls" /\ pc[Other(p)] = "tls" /\ wire[p] = << >> /\ Len(wire[p]) = 0
          /\ reason[p] = "none" /\ answer[p] = "none" /\ ~confirmed[p] /\ peerResult[p] = "none"
      BY PeersFacts DEF Init
    <2> QED  BY <2>1 DEF InStep, Chain, EndsBefore, Expected, Upcoming, Meaning, Progress, Endings
  <1> QED  BY <1>1, <1>2 DEF IInv

LEMMA NextInv == IInv /\ [Next]_vars => IInv'
  <1> SUFFICES ASSUME IInv, [Next]_vars PROVE IInv'
    OBVIOUS
  <1>1. CASE UNCHANGED vars
    <2>1. TypeOK'
      BY <1>1 DEF vars, given, IInv, TypeOK
    <2>2. ASSUME NEW p \in Peers
          PROVE  InStep(p)' /\ Meaning(p)'
      <3>1. InStep(p) /\ Meaning(p)
        BY DEF IInv
      <3> QED  BY <1>1, <3>1 DEF vars, given, InStep, Chain, EndsBefore, Expected, Upcoming,
                                 Meaning, FrameMeans
    <2>3. ASSUME NEW p \in Peers
          PROVE  Progress(p)' /\ Endings(p)'
      <3>1. Progress(p) /\ Endings(p)
        BY DEF IInv
      <3> QED  BY <1>1, <3>1 DEF vars, given, Progress, Endings
    <2> QED  BY <2>1, <2>2, <2>3 DEF IInv
  <1>2. CASE Next
    <2>1. PICK p \in Peers:
            OpenStep(p) \/ HandshakeFails(p) \/ UserAnswers(p) \/ SessionSends(p) \/ Cancel(p)
      BY <1>2 DEF Next
    <2>2. CASE OpenStep(p)
      BY <2>2, FinishHandshakeStep, ReadHelloStep, ReadAvailabilityStep, TakeAnswerStep,
         ReaderReadsStep, TakePeerResultStep, SessionReadsStep, ConnectionLostStep DEF OpenStep
    <2> QED  BY <2>1, <2>2, HandshakeFailsStep, UserAnswersStep, SessionSendsStep, CancelStep
  <1> QED  BY <1>1, <1>2

LEMMA InvHolds == Spec => []IInv
  BY InitInv, NextInv, PTL DEF Spec

\* Every state of the two ends is of its type; in particular no reader goroutine
\* takes more than one frame (exchangeConfirmation).
THEOREM HandshakeTypes == Spec => []TypeOK
  <1>1. IInv => TypeOK
    BY DEF IInv
  <1> QED  BY <1>1, InvHolds, PTL

\* No end is open before both users have said yes to a Peer of the same version
\* that is not busy (session.go:70, exchangeConfirmation).
THEOREM OpenIsAgreedHolds == Spec => []OpenIsAgreed
  <1>1. IInv => OpenIsAgreed
    BY PeersFacts DEF IInv, Progress, OpenIsAgreed
  <1> QED  BY <1>1, InvHolds, PTL

\* Whatever the order of writes, reads and answers at the two ends, neither
\* reads a frame of another stage than the one it is in (exchangeConfirmation).
THEOREM NothingIsMisreadHolds == Spec => []NothingIsMisread
  <1>1. IInv => NothingIsMisread
    BY DEF IInv, Progress, Endings, NothingIsMisread
  <1> QED  BY <1>1, InvHolds, PTL

\* An end reports a busy, a rejecting or a lost Peer only when the other end
\* has closed for a reason of its own (Open, RejectBusy).
THEOREM EndsHaveACauseHolds == Spec => []EndsHaveACause
  <1>1. IInv => EndsHaveACause
    BY DEF IInv, Endings, EndsHaveACause
  <1> QED  BY <1>1, InvHolds, PTL

=============================================================================
