-------------------------- MODULE RecipeChainProofs -------------------------
(***************************************************************************)
(* Proofs about RecipeChain, for any calls, kinds, tries, faults and       *)
(* frames on their way: with one call at a time and at most one echo that  *)
(* comes after its wait timed out, no step of a chain is skipped, and the  *)
(* chain implements RecipeOrder.                                           *)
(***************************************************************************)
EXTENDS RecipeChain, SequenceTheorems, TLAPS

First == {"8022"}
Later == {"8102", "8104", "8001", "8004", "4513"}
ChainIds == First \cup Later
Frames == Ids \cup Labels \cup {"awake", "asleep", "other"}

\* One of S is in q; and in q, none of S comes after one of A.
Has(q, S) == \E i \in DOMAIN q : q[i] \in S
NoneAfter(q, A, S) == \A i, j \in DOMAIN q : i < j /\ q[i] \in A => q[j] \notin S

\* The same for commands and their echoes together: what is echoed was sent first.
InFlight(S) == Has(in, S) \/ Has(out, S)
NothingAfter(A, S) ==
    /\ NoneAfter(in, A, S) /\ NoneAfter(out, A, S)
    /\ Has(in, A) => ~Has(out, S)

Past == {"send", "wait", "go", "goWait", "verify", "ended"}
Open(c) == c.pc = "wait" /\ c.waiter = "open"
Echoed(c) == c.pc = "wait" /\ c.waiter = "echoed"
Cmd(c) == Chain(c.kind)[c.step]

\* Where a call c stands.
CallInv(c) ==
    /\ c.pc \in {"send", "wait"} => c.step \in 1 .. Steps /\ c.does # "confirm"
    /\ c.pc \in Past \ {"send", "wait"} /\ c.does # "confirm" => c.step = Steps + 1
    /\ c.pc \in {"idle", "wake"} => c.tries = 0
    /\ c.pc = "start" => c.tries < MaxTries
    /\ c.pc \in Past => c.tries > 0
    /\ c.waiter # "none" => c.pc \in {"wait", "goWait"}
    /\ c.pc \in {"wait", "goWait"} => c.waiter # "none"
    /\ c.waiter = "open" => ~c.stale
    /\ c.waiter = "gone" => c.stale

\* It uses the link that is up or knows, at its next command, that it is gone.
LinkInv(c) ==
    c.pc \in Past => /\ ~c.stale => link
                     /\ c.stale => ~InFlight(ChainIds)

\* The echo of a step tells that the machine took it, and all before it.
TakenInv(c) ==
    /\ c.pc \in Past /\ ~c.stale /\ c.does # "confirm" => taken >= c.step - 1
    /\ Echoed(c) => taken >= c.step
    /\ Open(c) /\ Has(in, {Cmd(c)}) => taken >= c.step

\* What may be on its way while it runs: from its second step on only its own
\* command, and repetitions of the 8022 ahead of the second one.
ShapeInv(c) ==
    /\ Open(c) /\ c.step >= 2 =>
         /\ ~InFlight(Later \ {Cmd(c)}) /\ NothingAfter({Cmd(c)}, ChainIds)
         /\ c.step >= 3 => ~InFlight(First)
    /\ Echoed(c) =>
         ~InFlight(Later) /\ (c.step >= 2 => ~InFlight(First))
    /\ c.pc \in Past \ {"wait"} /\ c.step >= 2 =>
         ~InFlight(Later) /\ (c.step >= 3 => ~InFlight(First))

\* As long as no echo came late, only what it waits for.
OnTimeInv(c) ==
    late = 0 /\ Open(c) =>
      ~InFlight(ChainIds \ {Cmd(c)}) /\ NothingAfter({Cmd(c)}, ChainIds)

Fine(c) == CallInv(c) /\ LinkInv(c) /\ TakenInv(c) /\ ShapeInv(c) /\ OnTimeInv(c)

\* One call at a time.
OneInv == \A t, u \in Calls : Active(t) /\ Active(u) => t = u

\* Between attempts, and at the first step of one, an earlier attempt may have
\* left commands behind: none of them after the 8022.
WireInv ==
    /\ ~link => in = << >> /\ out = << >>
    /\ Has(in, First) => taken >= 1
    /\ (\A t \in Calls : Open(call[t]) => call[t].step = 1) => NothingAfter(First, Later)
    /\ late = 0 /\ InFlight(ChainIds) => \E t \in Calls : Open(call[t])

IInv == TypeOK /\ OneInv /\ WireInv /\ \A t \in Calls : Fine(call[t])

-----------------------------------------------------------------------------
(* Sequences *)

LEMMA EmptyHas == \A S : ~Has(<< >>, S) /\ \A A : NoneAfter(<< >>, A, S)
  BY DEF Has, NoneAfter

LEMMA HasMore ==
  ASSUME NEW q, NEW S, NEW R, S \subseteq R, ~Has(q, R)
  PROVE  ~Has(q, S)
  BY DEF Has

LEMMA HasSplit ==
  ASSUME NEW q, NEW S, NEW R
  PROVE  Has(q, S \cup R) <=> Has(q, S) \/ Has(q, R)
  BY DEF Has

LEMMA AppendHas ==
  ASSUME NEW T, NEW q \in Seq(T), NEW x \in T, NEW S
  PROVE  Has(Append(q, x), S) <=> Has(q, S) \/ x \in S
  <1>1. /\ DOMAIN Append(q, x) = 1 .. Len(q) + 1 /\ DOMAIN q = 1 .. Len(q) /\ Len(q) \in Nat
        /\ \A i \in 1 .. Len(q) : Append(q, x)[i] = q[i]
        /\ Append(q, x)[Len(q) + 1] = x
    BY AppendProperties
  <1>2. \A i : i \in 1 .. Len(q) + 1 <=> i \in 1 .. Len(q) \/ i = Len(q) + 1 BY <1>1
  <1> QED BY <1>1, <1>2 DEF Has

LEMMA AppendNone ==
  ASSUME NEW T, NEW q \in Seq(T), NEW x \in T, NEW A, NEW S,
         NoneAfter(q, A, S), Has(q, A) => x \notin S
  PROVE  NoneAfter(Append(q, x), A, S)
  <1>1. /\ DOMAIN Append(q, x) = 1 .. Len(q) + 1 /\ DOMAIN q = 1 .. Len(q) /\ Len(q) \in Nat
        /\ \A i \in 1 .. Len(q) : Append(q, x)[i] = q[i]
        /\ Append(q, x)[Len(q) + 1] = x
    BY AppendProperties
  <1> SUFFICES ASSUME NEW i \in 1 .. Len(q) + 1, NEW j \in 1 .. Len(q) + 1, i < j,
                      Append(q, x)[i] \in A
               PROVE  Append(q, x)[j] \notin S
    BY <1>1 DEF NoneAfter
  <1>2. i \in 1 .. Len(q) /\ q[i] \in A BY <1>1
  <1>3. CASE j = Len(q) + 1 BY <1>1, <1>2, <1>3 DEF Has
  <1>4. CASE j \in 1 .. Len(q) BY <1>1, <1>2, <1>4 DEF NoneAfter
  <1> QED BY <1>1, <1>3, <1>4

LEMMA TailHas ==
  ASSUME NEW T, NEW q \in Seq(T), q # << >>, NEW S
  PROVE  Has(q, S) <=> Head(q) \in S \/ Has(Tail(q), S)
  <1>1. /\ Tail(q) \in Seq(T) /\ Len(q) \in Nat \ {0} /\ Len(Tail(q)) = Len(q) - 1
        /\ DOMAIN q = 1 .. Len(q) /\ DOMAIN Tail(q) = 1 .. (Len(q) - 1)
        /\ Head(q) = q[1] /\ \A i \in 1 .. (Len(q) - 1) : Tail(q)[i] = q[i + 1]
    BY HeadTailProperties, EmptySeq, LenProperties
  <1>2. ASSUME Has(q, S) PROVE Head(q) \in S \/ Has(Tail(q), S)
    <2>1. PICK i \in 1 .. Len(q) : q[i] \in S BY <1>1, <1>2 DEF Has
    <2>2. CASE i = 1 BY <1>1, <2>1, <2>2
    <2>3. CASE i # 1
      <3>1. i - 1 \in 1 .. (Len(q) - 1) /\ (i - 1) + 1 = i BY <1>1, <2>3
      <3> QED BY <1>1, <2>1, <3>1 DEF Has
    <2> QED BY <2>2, <2>3
  <1>3. ASSUME Has(Tail(q), S) PROVE Has(q, S)
    <2>1. PICK i \in 1 .. (Len(q) - 1) : Tail(q)[i] \in S BY <1>1, <1>3 DEF Has
    <2>2. i + 1 \in 1 .. Len(q) BY <1>1
    <2> QED BY <1>1, <2>1, <2>2 DEF Has
  <1>4. ASSUME Head(q) \in S PROVE Has(q, S)
    <2>1. 1 \in 1 .. Len(q) BY <1>1
    <2> QED BY <1>1, <1>4, <2>1 DEF Has
  <1> QED BY <1>2, <1>3, <1>4

LEMMA TailNone ==
  ASSUME NEW T, NEW q \in Seq(T), q # << >>, NEW A, NEW S, NoneAfter(q, A, S)
  PROVE  NoneAfter(Tail(q), A, S) /\ (Head(q) \in A => ~Has(Tail(q), S))
  <1>1. /\ Tail(q) \in Seq(T) /\ Len(q) \in Nat \ {0} /\ Len(Tail(q)) = Len(q) - 1
        /\ DOMAIN q = 1 .. Len(q) /\ DOMAIN Tail(q) = 1 .. (Len(q) - 1)
        /\ Head(q) = q[1] /\ \A i \in 1 .. (Len(q) - 1) : Tail(q)[i] = q[i + 1]
    BY HeadTailProperties, EmptySeq, LenProperties
  <1>2. NoneAfter(Tail(q), A, S)
    <2> SUFFICES ASSUME NEW i \in 1 .. (Len(q) - 1), NEW j \in 1 .. (Len(q) - 1), i < j,
                        Tail(q)[i] \in A
                 PROVE  Tail(q)[j] \notin S
      BY <1>1 DEF NoneAfter
    <2>1. i + 1 \in 1 .. Len(q) /\ j + 1 \in 1 .. Len(q) /\ i + 1 < j + 1 BY <1>1
    <2> QED BY <1>1, <2>1 DEF NoneAfter
  <1>3. ASSUME Head(q) \in A PROVE ~Has(Tail(q), S)
    <2> SUFFICES ASSUME NEW j \in 1 .. (Len(q) - 1) PROVE Tail(q)[j] \notin S
      BY <1>1 DEF Has
    <2>1. 1 \in 1 .. Len(q) /\ j + 1 \in 1 .. Len(q) /\ 1 < j + 1 BY <1>1
    <2> QED BY <1>1, <1>3, <2>1 DEF NoneAfter
  <1> QED BY <1>2, <1>3

-----------------------------------------------------------------------------
(* What the machine does to the wire *)

\* The frames q, and what a step may add to them: an echo of id and labels.
Grown(q, id, r) ==
    \/ r = q
    \/ \E x \in {id} \cup (Frames \ ChainIds) : r = Append(q, x)
    \/ \E y \in Frames \ ChainIds : r = Append(Append(q, id), y)

LEMMA GrownKeeps ==
  ASSUME NEW q \in Seq(Frames), NEW id \in Frames, NEW r, Grown(q, id, r),
         NEW A \in SUBSET ChainIds, NEW S \in SUBSET ChainIds
  PROVE  /\ r \in Seq(Frames)
         /\ Has(r, S) => Has(q, S) \/ id \in S
         /\ NoneAfter(q, A, S) /\ (Has(q, A) => id \notin S) => NoneAfter(r, A, S)
  <1>1. CASE r = q BY <1>1
  <1>2. ASSUME NEW x \in {id} \cup (Frames \ ChainIds), r = Append(q, x)
        PROVE  /\ r \in Seq(Frames)
               /\ Has(r, S) => Has(q, S) \/ id \in S
               /\ NoneAfter(q, A, S) /\ (Has(q, A) => id \notin S) => NoneAfter(r, A, S)
    <2>1. x \in Frames /\ (x \in S => x = id) OBVIOUS
    <2>2. r \in Seq(Frames) BY <1>2, <2>1, AppendProperties
    <2>3. Has(r, S) <=> Has(q, S) \/ x \in S BY <1>2, <2>1, AppendHas
    <2>4. NoneAfter(q, A, S) /\ (Has(q, A) => x \notin S) => NoneAfter(r, A, S)
      BY <1>2, <2>1, AppendNone
    <2> QED BY <2>1, <2>2, <2>3, <2>4
  <1>3. ASSUME NEW y \in Frames \ ChainIds, r = Append(Append(q, id), y)
        PROVE  /\ r \in Seq(Frames)
               /\ Has(r, S) => Has(q, S) \/ id \in S
               /\ NoneAfter(q, A, S) /\ (Has(q, A) => id \notin S) => NoneAfter(r, A, S)
    <2> DEFINE p == Append(q, id)
    <2>1. p \in Seq(Frames) BY AppendProperties
    <2>2. Has(p, S) <=> Has(q, S) \/ id \in S BY AppendHas
    <2>3. NoneAfter(q, A, S) /\ (Has(q, A) => id \notin S) => NoneAfter(p, A, S) BY AppendNone
    <2> HIDE DEF p
    <2>4. r = Append(p, y) /\ y \in Frames /\ y \notin S BY <1>3 DEF p
    <2>5. r \in Seq(Frames) BY <2>1, <2>4, AppendProperties
    <2>6. Has(r, S) <=> Has(p, S) \/ y \in S BY <2>1, <2>4, AppendHas
    <2>7. NoneAfter(p, A, S) => NoneAfter(r, A, S) BY <2>1, <2>4, AppendNone
    <2> QED BY <2>2, <2>3, <2>4, <2>5, <2>6, <2>7
  <1> QED BY <1>1, <1>2, <1>3 DEF Grown

LEMMA Concats ==
  ASSUME NEW q \in Seq(Frames)
  PROVE  /\ q \o << >> = q
         /\ \A x \in Frames : q \o <<x>> = Append(q, x)
         /\ \A x, y \in Frames : q \o (<<x>> \o <<y>>) = Append(Append(q, x), y)
         /\ \A x \in Frames : <<x>> \o << >> = <<x>>
  <1>1. \A x \in Frames : <<x>> \in Seq(Frames) OBVIOUS
  <1>2. \A x \in Frames : q \o <<x>> = Append(q, x) BY AppendIsConcat
  <1>3. ASSUME NEW x \in Frames, NEW y \in Frames
        PROVE  q \o (<<x>> \o <<y>>) = Append(Append(q, x), y)
    <2>1. q \o (<<x>> \o <<y>>) = (q \o <<x>>) \o <<y>> BY <1>1, ConcatAssociative
    <2>2. Append(q, x) \in Seq(Frames) BY AppendProperties
    <2>3. Append(q, x) \o <<y>> = Append(Append(q, x), y) BY <2>2, AppendIsConcat
    <2> QED BY <1>2, <2>1, <2>3
  <1>4. q \o << >> = q /\ \A x \in Frames : <<x>> \o << >> = <<x>> BY <1>1, ConcatEmptySeq
  <1> QED BY <1>2, <1>3, <1>4

LEMMA FramesOf ==
  /\ Ids \subseteq Frames /\ ChainIds \subseteq Ids /\ First \subseteq ChainIds /\ Later \subseteq ChainIds
  /\ {"awake", "asleep", "other", "starting", "refused", "4512", "8002"} \subseteq Frames \ ChainIds
  BY DEF Frames, Ids, ChainIds, First, Later, Labels

LEMMA EchoGrows ==
  ASSUME in \in Seq(Frames), NEW id \in Ids, NEW e \in {<< >>, <<"starting">>, <<"refused">>},
         Echo(id, e)
  PROVE  Grown(in, id, in')
  <1>1. in' = in \o (<<id>> \o e) \/ in' = in \o e BY DEF Echo, Emit
  <1>2. id \in Frames /\ "starting" \in Frames \ ChainIds /\ "refused" \in Frames \ ChainIds
    BY FramesOf
  <1>3. CASE e = << >>
    <2>1. <<id>> \o e = <<id>> /\ in \o <<id>> = Append(in, id) /\ in \o e = in
      BY <1>2, <1>3, Concats
    <2> QED BY <1>1, <2>1 DEF Grown
  <1>4. ASSUME NEW y \in Frames \ ChainIds, e = <<y>> PROVE Grown(in, id, in')
    <2>1. in \o (<<id>> \o e) = Append(Append(in, id), y) /\ in \o e = Append(in, y)
      BY <1>2, <1>4, Concats
    <2> QED BY <1>1, <2>1 DEF Grown
  <1> QED BY <1>2, <1>3, <1>4

LEMMA TakeGrows ==
  ASSUME TypeOK, MachineTakes
  PROVE  /\ out # << >> /\ Head(out) \in Ids /\ out \in Seq(Ids) /\ out' = Tail(out)
         /\ in \in Seq(Frames) /\ Grown(in, Head(out), in')
         /\ UNCHANGED <<call, armed, link, asleep, label, late>>
  <1>1. in \in Seq(Frames) /\ out \in Seq(Ids) BY DEF TypeOK, Frames
  <1>2. out # << >> /\ out' = Tail(out) /\ UNCHANGED <<call, armed, link, asleep, label, late>>
    BY DEF MachineTakes, client
  <1>3. Head(out) \in Ids BY <1>1, <1>2, HeadTailProperties
  <1>4. CASE UNCHANGED in BY <1>1, <1>2, <1>3, <1>4 DEF Grown
  <1>5. CASE Emit(<<"awake">>)
    <2>1. "awake" \in Frames \ ChainIds BY FramesOf
    <2>2. in' = Append(in, "awake") BY <1>1, <1>5, <2>1, Concats DEF Emit
    <2> QED BY <2>1, <2>2, <1>1, <1>2, <1>3 DEF Grown
  <1>6. CASE \E e \in {<< >>, <<"starting">>, <<"refused">>} : Echo(Head(out), e)
    BY <1>1, <1>2, <1>3, <1>6, EchoGrows
  <1> QED BY <1>1, <1>2, <1>3, <1>4, <1>5, <1>6 DEF MachineTakes

LEMMA TakeKeeps ==
  ASSUME TypeOK, MachineTakes, NEW A \in SUBSET ChainIds, NEW S \in SUBSET ChainIds
  PROVE  /\ InFlight(S)' => InFlight(S)
         /\ NothingAfter(A, S) => NothingAfter(A, S)'
         /\ Has(in, S)' => Has(in, S) \/ Head(out) \in S
         /\ Head(out) \in S => Has(out, S)
  <1>1. /\ out # << >> /\ Head(out) \in Frames /\ out \in Seq(Ids) /\ out' = Tail(out)
        /\ in \in Seq(Frames) /\ Grown(in, Head(out), in')
    BY TakeGrows, FramesOf
  <1>2. /\ Has(in', S) => Has(in, S) \/ Head(out) \in S
        /\ Has(in', A) => Has(in, A) \/ Head(out) \in A
        /\ NoneAfter(in, A, S) /\ (Has(in, A) => Head(out) \notin S) => NoneAfter(in', A, S)
    BY <1>1, GrownKeeps
  <1>3. Has(out, S) <=> Head(out) \in S \/ Has(Tail(out), S) BY <1>1, TailHas
  <1>4. NoneAfter(out, A, S) => NoneAfter(Tail(out), A, S) /\ (Head(out) \in A => ~Has(Tail(out), S))
    BY <1>1, TailNone
  <1> QED BY <1>1, <1>2, <1>3, <1>4 DEF InFlight, NothingAfter

\* An ignored command is not echoed; one that is taken counts, when it is next.
LEMMA TakeCounts ==
  ASSUME TypeOK, MachineTakes
  PROVE  \/ taken' = taken /\ \A S \in SUBSET ChainIds : Has(in, S)' => Has(in, S)
         \/ taken' = taken /\ Head(out) \notin ChainIds
         \/ taken' = IF StepOf(Head(out)) \in {1, taken + 1} THEN StepOf(Head(out)) ELSE taken
  <1>1. /\ Head(out) \in Ids /\ in \in Seq(Frames) BY TakeGrows
  <1>2. "awake" \in Frames \ ChainIds BY FramesOf
  <1>3. CASE dozing
    <2>1. taken' = taken /\ (in' = in \/ Emit(<<"awake">>)) BY <1>3 DEF MachineTakes
    <2>2. Grown(in, "awake", in')
      <3>1. CASE in' = in BY <3>1 DEF Grown
      <3>2. CASE Emit(<<"awake">>)
        <4>1. in' = Append(in, "awake") BY <1>1, <1>2, <3>2, Concats DEF Emit
        <4> QED BY <4>1 DEF Grown
      <3> QED BY <2>1, <3>1, <3>2
    <2>3. \A S \in SUBSET ChainIds : Has(in', S) => Has(in, S)
      <3> TAKE S \in SUBSET ChainIds
      <3>1. Has(in', S) => Has(in, S) \/ "awake" \in S BY <1>1, <1>2, <2>2, GrownKeeps
      <3> QED BY <1>2, <3>1
    <2> QED BY <2>1, <2>3
  <1>4. CASE ~dozing /\ Head(out) \in {"4512", "8002"}
    <2>1. taken' = taken BY <1>4 DEF MachineTakes
    <2> QED BY <1>4, <2>1, FramesOf
  <1>5. CASE ~dozing /\ Head(out) \notin {"4512", "8002"}
    BY <1>5 DEF MachineTakes
  <1> QED BY <1>3, <1>4, <1>5

LEMMA TakenGrows ==
  ASSUME TypeOK, MachineTakes
  PROVE  /\ taken' \in 0 .. Steps /\ (taken >= 1 => taken' >= 1)
         /\ Head(out) \notin First => taken' >= taken
  <1>1. Head(out) \in Ids BY TakeGrows
  <1>2. taken \in 0 .. 4 BY DEF TypeOK, Steps
  <1>3. StepOf(Head(out)) \in 1 .. 4 /\ (Head(out) \notin First => StepOf(Head(out)) # 1)
    BY <1>1 DEF StepOf, Ids, First
  <1>4. CASE taken' = taken BY <1>2, <1>4 DEF Steps
  <1>5. CASE taken' = IF StepOf(Head(out)) \in {1, taken + 1} THEN StepOf(Head(out)) ELSE taken
    <2> DEFINE k == StepOf(Head(out))
    <2> HIDE DEF k
    <2>1. k \in 1 .. 4 /\ (Head(out) \notin First => k # 1) BY <1>3 DEF k
    <2>2. taken' = IF k \in {1, taken + 1} THEN k ELSE taken BY <1>5 DEF k
    <2> QED BY <1>2, <2>1, <2>2 DEF Steps
  <1> QED BY <1>4, <1>5, TakeCounts

LEMMA NoneInFlight ==
  ASSUME NEW A, NEW S, ~InFlight(A) \/ ~InFlight(S)
  PROVE  NothingAfter(A, S)
  BY DEF InFlight, NothingAfter, NoneAfter, Has

LEMMA InFlightSplit ==
  /\ \A S, R : InFlight(S \cup R) <=> InFlight(S) \/ InFlight(R)
  /\ \A S, R : S \subseteq R /\ InFlight(S) => InFlight(R)
  BY DEF InFlight, Has

LEMMA CmdOf ==
  ASSUME NEW c \in CallState, c.step \in 1 .. Steps
  PROVE  /\ Cmd(c) \in ChainIds /\ StepOf(Cmd(c)) = c.step
         /\ c.step = 1 => Cmd(c) = "8022"
         /\ c.step >= 2 => Cmd(c) \in Later
  <1>1. c.kind \in {"grind", "plain", "tea"} BY RecipeChainAssumption DEF CallState
  <1>2. Code[c.kind] \in {"8001", "8004", "4513"} BY <1>1 DEF Code
  <1>3. c.step \in {1, 2, 3, 4} BY DEF Steps
  <1>4. CASE c.step = 1 BY <1>4 DEF Cmd, Chain, ChainIds, First, StepOf
  <1>5. CASE c.step = 2 BY <1>5 DEF Cmd, Chain, ChainIds, Later, StepOf
  <1>6. CASE c.step = 3 BY <1>6 DEF Cmd, Chain, ChainIds, Later, StepOf
  <1>7. CASE c.step = 4
    <2>1. Cmd(c) = Code[c.kind] BY <1>7 DEF Cmd, Chain
    <2> QED BY <1>2, <1>7, <2>1 DEF ChainIds, Later, StepOf
  <1> QED BY <1>3, <1>4, <1>5, <1>6, <1>7

-----------------------------------------------------------------------------
(* Steps of the machine and of the link *)

LEMMA TakesKeeps ==
  ASSUME IInv, MachineTakes
  PROVE  IInv'
  <1>1. TypeOK /\ OneInv /\ WireInv BY DEF IInv
  <1>2. /\ out # << >> /\ Head(out) \in Ids /\ out \in Seq(Ids) /\ out' = Tail(out)
        /\ in \in Seq(Frames) /\ Grown(in, Head(out), in')
        /\ UNCHANGED <<call, armed, link, asleep, label, late>>
    BY <1>1, TakeGrows
  <1>3. taken' \in 0 .. Steps /\ (taken >= 1 => taken' >= 1)
        /\ (Head(out) \notin First => taken' >= taken)
    BY <1>1, TakenGrows
  <1>4. \A A, S \in SUBSET ChainIds :
          /\ InFlight(S)' => InFlight(S)
          /\ NothingAfter(A, S) => NothingAfter(A, S)'
          /\ Has(in, S)' => Has(in, S) \/ Head(out) \in S
          /\ Head(out) \in S => Has(out, S)
    BY <1>1, TakeKeeps
  <1>5. TypeOK'
    <2>1. out' \in Seq(Ids) BY <1>2, HeadTailProperties
    <2>2. in' \in Seq(Frames)
      <3>1. Head(out) \in Frames /\ {} \in SUBSET ChainIds BY <1>2, FramesOf
      <3> QED BY <1>2, <3>1, GrownKeeps
    <2>3. dozing' \in BOOLEAN /\ brewing' \in BOOLEAN
      BY <1>1 DEF MachineTakes, TypeOK
    <2>4. staged' \in 0 .. Steps /\ faults' \in 0 .. MaxFaults
      <3>1. StepOf(Head(out)) \in 0 .. 4 BY <1>2 DEF StepOf, Ids
      <3>2. staged \in 0 .. 4 /\ faults \in 0 .. MaxFaults BY <1>1 DEF TypeOK, Steps
      <3>3. faults' \in 0 .. MaxFaults
        <4>1. faults' = faults \/ (faults < MaxFaults /\ faults' = faults + 1)
          BY DEF MachineTakes, Echo
        <4> QED BY <3>2, <4>1, RecipeChainAssumption
      <3>4. staged' \in {staged, 0, 1, StepOf(Head(out))} BY DEF MachineTakes
      <3> QED BY <3>1, <3>2, <3>3, <3>4 DEF Steps
    <2> QED BY <1>1, <1>2, <1>3, <2>1, <2>2, <2>3, <2>4 DEF TypeOK, Frames
  <1>6. ASSUME NEW t \in Calls PROVE Fine(call[t])'
    <2> DEFINE c == call[t]
    <2>1. c \in CallState /\ Fine(c) /\ c' = c BY <1>1, <1>2 DEF IInv, TypeOK
    <2> HIDE DEF c
    <2>2. taken \in 0 .. Steps /\ c.step \in 1 .. Steps + 1 BY <1>1, <2>1 DEF TypeOK, CallState
    <2>3. CallInv(c)' BY <2>1 DEF Fine, CallInv
    <2>4. LinkInv(c)' BY <1>2, <1>4, <2>1 DEF Fine, LinkInv
    <2>5. ASSUME c.pc = "wait" PROVE c.step \in 1 .. Steps /\ Cmd(c) \in ChainIds
      BY <2>1, <2>5, CmdOf DEF Fine, CallInv
    <2>6. ShapeInv(c)'
      <3>1. First \in SUBSET ChainIds /\ Later \in SUBSET ChainIds /\ ChainIds \in SUBSET ChainIds
            /\ \A x : Later \ {x} \in SUBSET ChainIds
        BY FramesOf
      <3>2. Cmd(c)' = Cmd(c) /\ Open(c)' = Open(c) /\ Echoed(c)' = Echoed(c)
        BY <2>1 DEF Cmd, Open, Echoed
      <3>3. Open(c) => {Cmd(c)} \in SUBSET ChainIds BY <2>5 DEF Open
      <3>4. ShapeInv(c) BY <2>1 DEF Fine
      <3>5. InFlight(First)' => InFlight(First) BY <1>4, <3>1
      <3>6. InFlight(Later)' => InFlight(Later) BY <1>4, <3>1
      <3>7. Open(c) => /\ InFlight(Later \ {Cmd(c)})' => InFlight(Later \ {Cmd(c)})
                       /\ NothingAfter({Cmd(c)}, ChainIds) => NothingAfter({Cmd(c)}, ChainIds)'
        BY <1>4, <2>1, <3>1, <3>2, <3>3
      <3> QED BY <2>1, <3>2, <3>4, <3>5, <3>6, <3>7 DEF ShapeInv, Open, Echoed, Cmd
    <2>7. OnTimeInv(c)'
      <3>1. ChainIds \in SUBSET ChainIds /\ \A x : ChainIds \ {x} \in SUBSET ChainIds OBVIOUS
      <3>2. Open(c) => {Cmd(c)} \in SUBSET ChainIds BY <2>5 DEF Open
      <3>3. Open(c) => /\ InFlight(ChainIds \ {Cmd(c)})' => InFlight(ChainIds \ {Cmd(c)})
                       /\ NothingAfter({Cmd(c)}, ChainIds) => NothingAfter({Cmd(c)}, ChainIds)'
        BY <1>4, <2>1, <3>1, <3>2
      <3> QED BY <1>2, <2>1, <3>3 DEF Fine, OnTimeInv, Open, Cmd
    <2>8. TakenInv(c)'
      <3>1. First \in SUBSET ChainIds /\ ChainIds \in SUBSET ChainIds BY FramesOf
      <3>2. Head(out) \in First => InFlight(First) BY <1>4, <3>1 DEF InFlight
      <3>3. c.pc \in Past /\ ~c.stale /\ c.does # "confirm" => taken' >= c.step - 1
        <4>1. CASE c.step <= 2
          BY <1>3, <2>1, <2>2, <4>1 DEF Fine, TakenInv, Steps
        <4>2. CASE c.step >= 3 /\ c.pc \in Past /\ ~c.stale
          <5>1. ~InFlight(First)
            BY <2>1, <2>2, <4>2 DEF Fine, ShapeInv, CallInv, Open, Echoed, CallState
          <5> QED BY <1>3, <2>1, <2>2, <3>2, <5>1 DEF Fine, TakenInv, Steps
        <4> QED BY <2>2, <4>1, <4>2 DEF Steps
      <3>4. Echoed(c) => taken' >= c.step
        <4> SUFFICES ASSUME Echoed(c) PROVE taken' >= c.step OBVIOUS
        <4>1. taken >= c.step /\ (c.step >= 2 => ~InFlight(First)) BY <2>1 DEF Fine, TakenInv, ShapeInv
        <4>2. CASE c.step = 1 BY <1>3, <2>2, <4>1, <4>2 DEF Steps
        <4>3. CASE c.step >= 2 BY <1>3, <2>2, <3>2, <4>1, <4>3 DEF Steps
        <4> QED BY <2>2, <4>2, <4>3 DEF Steps
      <3>5. Open(c) /\ Has(in, {Cmd(c)})' => taken' >= c.step
        <4> SUFFICES ASSUME Open(c), Has(in', {Cmd(c)}) PROVE taken' >= c.step
          BY <2>1 DEF Cmd
        <4>1. c.step \in 1 .. Steps /\ Cmd(c) \in ChainIds /\ {Cmd(c)} \in SUBSET ChainIds
          BY <2>5 DEF Open
        <4>2. taken >= c.step - 1 BY <2>1, <4>1 DEF Fine, TakenInv, CallInv, Open, Past
        <4>3. CASE Has(in, {Cmd(c)})
          <5>1. taken >= c.step BY <2>1, <4>3 DEF Fine, TakenInv
          <5>2. CASE c.step = 1 BY <1>3, <2>2, <5>1, <5>2 DEF Steps
          <5>3. CASE c.step >= 2
            <6>1. NothingAfter({Cmd(c)}, ChainIds) BY <2>1, <5>3 DEF Fine, ShapeInv
            <6>2. ~Has(out, ChainIds) BY <4>3, <6>1 DEF NothingAfter
            <6>3. Head(out) \notin ChainIds BY <1>4, <3>1, <6>2
            <6>4. Head(out) \notin First BY <6>3 DEF ChainIds
            <6> QED BY <1>3, <2>2, <5>1, <6>4 DEF Steps
          <5> QED BY <4>1, <5>2, <5>3 DEF Steps
        <4>4. CASE ~Has(in, {Cmd(c)})
          <5>1. Head(out) = Cmd(c) BY <1>4, <4>1, <4>4
          <5>2. StepOf(Cmd(c)) = c.step BY <2>1, <4>1, CmdOf
          <5>3. taken' = IF c.step \in {1, taken + 1} THEN c.step ELSE taken
            BY <1>1, <4>1, <4>4, <5>1, <5>2, TakeCounts
          <5> QED BY <2>2, <4>1, <4>2, <5>3 DEF Steps
        <4> QED BY <4>3, <4>4
      <3> QED BY <2>1, <3>3, <3>4, <3>5 DEF TakenInv, Open, Echoed, Cmd
    <2>9. Fine(c)' BY <2>3, <2>4, <2>6, <2>7, <2>8 DEF Fine
    <2> QED BY <2>9 DEF c
  <1>7. OneInv' BY <1>1, <1>2 DEF OneInv, Active
  <1>8. WireInv'
    <2>1. First \in SUBSET ChainIds /\ Later \in SUBSET ChainIds /\ ChainIds \in SUBSET ChainIds
      BY FramesOf
    <2>2. link' BY <1>1, <1>2 DEF WireInv, TypeOK
    <2>3. Has(in, First)' => taken' >= 1
      <3>1. CASE Has(in, First) BY <1>1, <1>3, <3>1 DEF WireInv
      <3>2. CASE ~Has(in, First) /\ Has(in', First)
        <4>1. Head(out) \in First BY <1>4, <2>1, <3>2
        <4>2. StepOf(Head(out)) = 1 BY <4>1 DEF First, StepOf
        <4>3. taken' = IF 1 \in {1, taken + 1} THEN 1 ELSE taken
          BY <1>1, <2>1, <3>2, <4>1, <4>2, TakeCounts
        <4> QED BY <4>3
      <3> QED BY <3>1, <3>2
    <2>4. NothingAfter(First, Later) => NothingAfter(First, Later)' BY <1>4, <2>1
    <2>5. InFlight(ChainIds)' => InFlight(ChainIds) BY <1>4, <2>1
    <2>6. (~link => in = << >> /\ out = << >>)' BY <2>2
    <2>7. \A t \in Calls : Open(call[t])' = Open(call[t]) /\ call'[t] = call[t] BY <1>2 DEF Open
    <2> QED BY <1>1, <1>2, <2>3, <2>4, <2>5, <2>6, <2>7 DEF WireInv
  <1> QED BY <1>5, <1>6, <1>7, <1>8 DEF IInv

\* A frame that is no echo of a step: nothing that matters is on its way.
LEMMA LabelKeeps ==
  ASSUME IInv, UNCHANGED <<call, armed, link, asleep, label, out, late, taken>>,
         NEW x \in Frames \ ChainIds, in' = in \/ (link /\ in' = Append(in, x)),
         dozing' \in BOOLEAN, brewing' \in BOOLEAN, staged' \in 0 .. Steps,
         faults' \in 0 .. MaxFaults
  PROVE  IInv'
  <1>1. TypeOK /\ OneInv /\ WireInv BY DEF IInv
  <1>2. in \in Seq(Frames) /\ Grown(in, x, in') BY <1>1 DEF TypeOK, Frames, Grown
  <1>3. \A A, S \in SUBSET ChainIds :
          /\ in' \in Seq(Frames) /\ (Has(in', S) => Has(in, S))
          /\ NoneAfter(in, A, S) => NoneAfter(in', A, S)
    BY <1>2, GrownKeeps
  <1>4. \A A, S \in SUBSET ChainIds :
          /\ InFlight(S)' => InFlight(S)
          /\ NothingAfter(A, S) => NothingAfter(A, S)'
    BY <1>3 DEF InFlight, NothingAfter
  <1>5. in' \in Seq(Frames)
    <2>1. {} \in SUBSET ChainIds OBVIOUS
    <2> QED BY <1>3, <2>1
  <1>6. TypeOK' BY <1>1, <1>5 DEF TypeOK, Frames
  <1>7. OneInv' BY <1>1 DEF OneInv, Active
  <1>8. First \in SUBSET ChainIds /\ Later \in SUBSET ChainIds /\ ChainIds \in SUBSET ChainIds
        /\ \A y : Later \ {y} \in SUBSET ChainIds /\ ChainIds \ {y} \in SUBSET ChainIds
    BY FramesOf
  <1>9. ASSUME NEW t \in Calls PROVE Fine(call[t])'
    <2> DEFINE c == call[t]
    <2>1. c \in CallState /\ Fine(c) /\ c' = c BY <1>1 DEF IInv, TypeOK
    <2> HIDE DEF c
    <2>2. Open(c) => {Cmd(c)} \in SUBSET ChainIds BY <2>1, CmdOf DEF Fine, CallInv, Open
    <2>3. Cmd(c)' = Cmd(c) /\ Open(c)' = Open(c) /\ Echoed(c)' = Echoed(c)
      BY <2>1 DEF Cmd, Open, Echoed
    <2>4. CallInv(c)' BY <2>1 DEF Fine, CallInv
    <2>5. LinkInv(c)' BY <1>4, <1>8, <2>1 DEF Fine, LinkInv
    <2>6. TakenInv(c)' BY <1>3, <2>1, <2>2, <2>3 DEF Fine, TakenInv
    <2>7. /\ InFlight(First)' => InFlight(First)
          /\ InFlight(Later)' => InFlight(Later)
          /\ Open(c) => /\ InFlight(Later \ {Cmd(c)})' => InFlight(Later \ {Cmd(c)})
                        /\ InFlight(ChainIds \ {Cmd(c)})' => InFlight(ChainIds \ {Cmd(c)})
                        /\ NothingAfter({Cmd(c)}, ChainIds) => NothingAfter({Cmd(c)}, ChainIds)'
      BY <1>4, <1>8, <2>1, <2>2
    <2>8. ShapeInv(c)' BY <2>1, <2>3, <2>7 DEF Fine, ShapeInv, Open, Echoed, Cmd
    <2>9. OnTimeInv(c)' BY <2>1, <2>3, <2>7 DEF Fine, OnTimeInv, Open, Cmd
    <2>10. Fine(c)' BY <2>4, <2>5, <2>6, <2>8, <2>9 DEF Fine
    <2> QED BY <2>10 DEF c
  <1>10. WireInv'
    <2>1. /\ NothingAfter(First, Later) => NothingAfter(First, Later)'
          /\ InFlight(ChainIds)' => InFlight(ChainIds)
          /\ Has(in', First) => Has(in, First)
      BY <1>3, <1>4, <1>8
    <2>2. \A t \in Calls : Open(call[t])' = Open(call[t]) /\ call'[t] = call[t] BY DEF Open
    <2> QED BY <1>1, <2>1, <2>2 DEF WireInv
  <1> QED BY <1>6, <1>7, <1>9, <1>10 DEF IInv

LEMMA MachineKeeps ==
  ASSUME IInv, BrewEnds \/ FallsAsleep
  PROVE  IInv'
  <1>1. in \in Seq(Frames) /\ dozing \in BOOLEAN /\ brewing \in BOOLEAN /\ link \in BOOLEAN
    BY DEF IInv, TypeOK, Frames
  <1>2. "other" \in Frames \ ChainIds /\ "asleep" \in Frames \ ChainIds BY FramesOf
  <1>3. staged \in 0 .. Steps /\ faults \in 0 .. MaxFaults BY DEF IInv, TypeOK
  <1>4. CASE BrewEnds
    <2>1. in' = in \/ (link /\ in' = Append(in, "other"))
      BY <1>1, <1>2, <1>4, Concats DEF BrewEnds, Emit
    <2> QED BY <1>1, <1>2, <1>3, <1>4, <2>1, LabelKeeps DEF BrewEnds, client
  <1>5. CASE FallsAsleep
    <2>1. in' = in \/ (link /\ in' = Append(in, "asleep"))
      BY <1>1, <1>2, <1>5, Concats DEF FallsAsleep, Emit
    <2>2. faults' \in 0 .. MaxFaults BY <1>3, <1>5, RecipeChainAssumption DEF FallsAsleep
    <2> QED BY <1>1, <1>2, <1>3, <1>5, <2>1, <2>2, LabelKeeps DEF FallsAsleep, client
  <1> QED BY <1>4, <1>5

\* At most one call can wait.
LEMMA Alone ==
  ASSUME OneInv, NEW t \in Calls, Active(t), NEW u \in Calls, u # t
  PROVE  call[u].pc \in {"idle", "ok", "failed"}
  BY DEF OneInv, Active

\* An echo ends the wait of the call that waits for it; then nothing else of
\* the chain is on its way, but for repetitions of the 8022.
LEMMA NotifiedKeeps ==
  ASSUME IInv, Notified
  PROVE  IInv'
  <1> DEFINE f == Head(in)
  <1>1. TypeOK /\ OneInv /\ WireInv BY DEF IInv
  <1>2. in \in Seq(Frames) /\ out \in Seq(Ids) /\ call \in [Calls -> CallState]
    BY <1>1 DEF TypeOK, Frames
  <1>3. /\ in # << >> /\ in' = Tail(in)
        /\ call' = [t \in Calls |-> IF t \in Resolves(f)
                                    THEN [call[t] EXCEPT !.waiter = "echoed"] ELSE call[t]]
        /\ UNCHANGED <<armed, link, out, dozing, staged, brewing, faults, late, taken>>
    BY DEF Notified, machine
  <1>4. \A S : Has(in, S) <=> f \in S \/ Has(in', S) BY <1>2, <1>3, TailHas
  <1>5. \A A, S : NoneAfter(in, A, S) => NoneAfter(in', A, S) /\ (f \in A => ~Has(in', S))
    BY <1>2, <1>3, TailNone
  <1>6. \A S : InFlight(S)' => InFlight(S) BY <1>3, <1>4 DEF InFlight
  <1>7. \A A, S : NothingAfter(A, S) => NothingAfter(A, S)' /\ (f \in A => ~InFlight(S)')
    BY <1>3, <1>4, <1>5 DEF NothingAfter, InFlight
  <1> HIDE DEF f
  <1>8. ASSUME NEW t \in Calls
        PROVE  /\ call[t] \in CallState /\ call'[t] \in CallState /\ Fine(call[t])
               /\ \/ call'[t] = call[t] /\ ~(Open(call[t]) /\ f = Cmd(call[t]))
                  \/ /\ call'[t] = [call[t] EXCEPT !.waiter = "echoed"]
                     /\ call[t].waiter = "open"
                     /\ call[t].pc = "goWait" \/ (Open(call[t]) /\ f = Cmd(call[t]))
    <2>1. call[t] \in CallState /\ Fine(call[t]) BY <1>2 DEF IInv
    <2>2. call'[t] = IF t \in Resolves(f) THEN [call[t] EXCEPT !.waiter = "echoed"] ELSE call[t]
      BY <1>3
    <2>3. call'[t] \in CallState BY <2>1, <2>2 DEF CallState
    <2>4. t \in Resolves(f) => call[t].waiter = "open" /\ Awaited(t) = f BY DEF Resolves
    <2>5. call[t].waiter = "open" => call[t].pc \in {"wait", "goWait"}
      BY <2>1 DEF Fine, CallInv
    <2>6. call[t].pc = "wait" => Awaited(t) = Cmd(call[t]) BY DEF Awaited, At, Cmd
    <2> QED BY <2>1, <2>2, <2>3, <2>4, <2>5, <2>6 DEF Open, Resolves
  <1>9. TypeOK'
    <2>1. in' \in Seq(Frames) BY <1>2, <1>3, HeadTailProperties
    <2>2. call' \in [Calls -> CallState] BY <1>3, <1>8
    <2>3. asleep' \in BOOLEAN /\ label' \in Labels \cup {"none"} BY <1>1 DEF Notified, TypeOK
    <2> QED BY <1>1, <1>3, <2>1, <2>2, <2>3 DEF TypeOK, Frames
  <1>10. OneInv'
    <2>1. \A t \in Calls : call'[t].pc = call[t].pc BY <1>8 DEF CallState
    <2> QED BY <1>1, <2>1 DEF OneInv, Active
  <1>11. ASSUME NEW t \in Calls, Open(call[t]), f = Cmd(call[t])
         PROVE  /\ ~InFlight(Later)' /\ (call[t].step >= 2 => ~InFlight(ChainIds)')
                /\ late = 0 => ~InFlight(ChainIds)'
                /\ taken >= call[t].step
    <2>1. call[t].step \in 1 .. Steps BY <1>8, <1>11 DEF Fine, CallInv, Open
    <2>2. taken >= call[t].step
      <3>1. Has(in, {f}) BY <1>4
      <3> QED BY <1>8, <1>11, <3>1 DEF Fine, TakenInv
    <2>3. late = 0 => ~InFlight(ChainIds)'
      <3>1. late = 0 => NothingAfter({f}, ChainIds) BY <1>8, <1>11 DEF Fine, OnTimeInv
      <3> QED BY <1>7, <3>1
    <2>4. CASE call[t].step = 1
      <3>1. f \in First BY <1>8, <1>11, <2>1, <2>4, CmdOf DEF First
      <3>2. \A u \in Calls : Open(call[u]) => u = t
        BY <1>1, <1>11, Alone DEF Open, Active
      <3>3. NothingAfter(First, Later) BY <1>1, <2>4, <3>2 DEF WireInv
      <3> QED BY <1>7, <2>2, <2>3, <2>4, <3>1, <3>3
    <2>5. CASE call[t].step >= 2
      <3>1. NothingAfter({f}, ChainIds) BY <1>8, <1>11, <2>5 DEF Fine, ShapeInv
      <3>2. ~InFlight(ChainIds)' BY <1>7, <3>1
      <3>3. ~InFlight(Later)' BY <3>2 DEF InFlight, Has, ChainIds
      <3> QED BY <2>2, <2>3, <3>2, <3>3
    <2> QED BY <2>1, <2>4, <2>5 DEF Steps
  <1>12. ASSUME NEW t \in Calls PROVE Fine(call[t])'
    <2> DEFINE c == call[t]
               d == call'[t]
    <2>1. c \in CallState /\ Fine(c) /\ c' = d /\ d \in CallState BY <1>8
    <2>2. CASE d = c
      <3> HIDE DEF c, d
      <3>1. Cmd(c)' = Cmd(c) /\ Open(c)' = Open(c) /\ Echoed(c)' = Echoed(c)
        BY <2>1, <2>2 DEF Cmd, Open, Echoed
      <3>2. CallInv(c)' BY <2>1, <2>2 DEF Fine, CallInv
      <3>3. LinkInv(c)' BY <1>3, <1>6, <2>1, <2>2 DEF Fine, LinkInv
      <3>4. TakenInv(c)' BY <1>3, <1>4, <2>1, <2>2, <3>1 DEF Fine, TakenInv
      <3>5. /\ InFlight(First)' => InFlight(First)
            /\ InFlight(Later)' => InFlight(Later)
            /\ InFlight(Later \ {Cmd(c)})' => InFlight(Later \ {Cmd(c)})
            /\ InFlight(ChainIds \ {Cmd(c)})' => InFlight(ChainIds \ {Cmd(c)})
            /\ NothingAfter({Cmd(c)}, ChainIds) => NothingAfter({Cmd(c)}, ChainIds)'
        BY <1>6, <1>7, <2>1, <2>2, <3>1
      <3>6. ShapeInv(c)' BY <2>1, <2>2, <3>1, <3>5 DEF Fine, ShapeInv
      <3>7. OnTimeInv(c)' BY <1>3, <2>1, <2>2, <3>1, <3>5 DEF Fine, OnTimeInv
      <3>8. Fine(c)' BY <3>2, <3>3, <3>4, <3>6, <3>7 DEF Fine
      <3> QED BY <3>8 DEF c
    <2>3. CASE d # c
      <3>1. /\ d = [c EXCEPT !.waiter = "echoed"] /\ c.waiter = "open"
            /\ c.pc = "goWait" \/ (Open(c) /\ f = Cmd(c))
        BY <1>8, <2>3
      <3>2. /\ d.pc = c.pc /\ d.step = c.step /\ d.stale = c.stale /\ d.does = c.does
            /\ d.tries = c.tries /\ d.waiter = "echoed"
        BY <2>1, <3>1 DEF CallState
      <3>3. Open(c) /\ f = Cmd(c) =>
               /\ ~InFlight(Later)' /\ (c.step >= 2 => ~InFlight(First)')
               /\ taken >= c.step
        <4>1. ~InFlight(ChainIds)' => ~InFlight(First)' BY DEF InFlight, Has, ChainIds
        <4> QED BY <1>11, <4>1
      <3>4. c.pc \in {"wait", "goWait"} /\ (c.pc = "wait" => Open(c) /\ f = Cmd(c))
        BY <2>1, <3>1 DEF Open
      <3> HIDE DEF c, d
      <3>5. ~Open(c)' /\ (Echoed(c)' => c.pc = "wait")
        BY <2>1, <3>2 DEF Open, Echoed
      <3>6. CallInv(c)' BY <2>1, <3>1, <3>2, <3>4 DEF Fine, CallInv
      <3>7. LinkInv(c)' BY <1>3, <1>6, <2>1, <3>2 DEF Fine, LinkInv
      <3>8. TakenInv(c)' BY <1>3, <2>1, <3>2, <3>3, <3>4, <3>5 DEF Fine, TakenInv
      <3>9. /\ InFlight(First)' => InFlight(First)
            /\ InFlight(Later)' => InFlight(Later)
        BY <1>6
      <3>10. ShapeInv(c)' BY <2>1, <3>2, <3>3, <3>4, <3>5, <3>9 DEF Fine, ShapeInv
      <3>11. OnTimeInv(c)' BY <3>5 DEF OnTimeInv
      <3>12. Fine(c)' BY <3>6, <3>7, <3>8, <3>10, <3>11 DEF Fine
      <3> QED BY <3>12 DEF c
    <2> QED BY <2>2, <2>3
  <1>13. WireInv'
    <2>1. (~link => in = << >> /\ out = << >>)' BY <1>1, <1>3 DEF WireInv
    <2>2. Has(in, First)' => taken' >= 1 BY <1>1, <1>3, <1>4 DEF WireInv
    <2>3. CASE \E t \in Calls : Open(call[t]) /\ f = Cmd(call[t])
      <3>1. ~InFlight(Later)' /\ (late = 0 => ~InFlight(ChainIds)') BY <1>11, <2>3
      <3>2. NothingAfter(First, Later)' BY <3>1 DEF InFlight, NothingAfter, NoneAfter, Has
      <3> QED BY <1>3, <2>1, <2>2, <3>1, <3>2 DEF WireInv
    <2>4. CASE \A t \in Calls : ~(Open(call[t]) /\ f = Cmd(call[t]))
      <3>1. \A t \in Calls : /\ Open(call[t])' = Open(call[t])
                             /\ call'[t].step = call[t].step
        <4> SUFFICES ASSUME NEW t \in Calls
                     PROVE  /\ Open(call[t])' = Open(call[t]) /\ call'[t].step = call[t].step
          OBVIOUS
        <4>1. CASE call'[t] = call[t] BY <4>1 DEF Open
        <4>2. CASE call'[t] = [call[t] EXCEPT !.waiter = "echoed"] /\ call[t].pc = "goWait"
          <5>1. call'[t].pc = "goWait" /\ call'[t].step = call[t].step BY <1>8, <4>2 DEF CallState
          <5> QED BY <4>2, <5>1 DEF Open
        <4> QED BY <1>8, <2>4, <4>1, <4>2
      <3>2. NothingAfter(First, Later) => NothingAfter(First, Later)' BY <1>7
      <3>3. InFlight(ChainIds)' => InFlight(ChainIds) BY <1>6
      <3>4. ((\A t \in Calls : Open(call[t]) => call[t].step = 1) => NothingAfter(First, Later))'
        BY <1>1, <3>1, <3>2 DEF WireInv
      <3>5. (late = 0 /\ InFlight(ChainIds) => \E t \in Calls : Open(call[t]))'
        BY <1>1, <1>3, <3>1, <3>3 DEF WireInv
      <3> QED BY <2>1, <2>2, <3>4, <3>5 DEF WireInv
    <2> QED BY <2>3, <2>4
  <1> QED BY <1>9, <1>10, <1>12, <1>13 DEF IInv

\* Nothing is on an empty wire.
LEMMA EmptyWire ==
  ASSUME in = << >>, out = << >>
  PROVE  \A S : ~InFlight(S) /\ ~Has(in, S) /\ \A A : NothingAfter(A, S)
  BY DEF InFlight, NothingAfter, Has, NoneAfter

LEMMA EmptyWireNext ==
  ASSUME in' = << >>, out' = << >>
  PROVE  \A S : ~InFlight(S)' /\ ~Has(in, S)' /\ \A A : NothingAfter(A, S)'
  BY DEF InFlight, NothingAfter, Has, NoneAfter

LEMMA DropKeeps ==
  ASSUME IInv, Drop
  PROVE  IInv'
  <1>1. TypeOK /\ OneInv /\ WireInv BY DEF IInv
  <1>2. /\ link' = FALSE /\ in' = << >> /\ out' = << >> /\ call' = Lost(call)
        /\ faults < MaxFaults /\ faults' = faults + 1
        /\ UNCHANGED <<armed, asleep, label, dozing, staged, brewing, late, taken>>
    BY DEF Drop, LinkDown, client, machine
  <1>3. \A S : ~InFlight(S)' /\ ~Has(in, S)' /\ \A A : NothingAfter(A, S)'
    BY <1>2, EmptyWireNext
  <1>4. ASSUME NEW t \in Calls
        PROVE  /\ call[t] \in CallState /\ call'[t] \in CallState /\ Fine(call[t])
               /\ call'[t].pc = call[t].pc /\ call'[t].step = call[t].step
               /\ call'[t].does = call[t].does /\ call'[t].tries = call[t].tries
               /\ call'[t].stale = (call[t].stale \/ Active(t))
               /\ call'[t].waiter = IF call[t].waiter = "open" THEN "gone" ELSE call[t].waiter
    <2>1. call[t] \in CallState /\ Fine(call[t]) BY <1>1 DEF IInv, TypeOK
    <2>2. call'[t] = [call[t] EXCEPT !.stale = call[t].stale \/ Active(t),
                                     !.waiter = IF call[t].waiter = "open" THEN "gone"
                                                ELSE call[t].waiter]
      BY <1>2 DEF Lost
    <2> DEFINE w == IF call[t].waiter = "open" THEN "gone" ELSE call[t].waiter
               b == call[t].stale \/ Active(t)
    <2>3. call'[t] = [call[t] EXCEPT !.stale = b, !.waiter = w] BY <2>2
    <2>4. w \in {"none", "open", "echoed", "gone"} BY <2>1 DEF CallState
    <2>5. b \in BOOLEAN BY <2>1 DEF CallState, Active
    <2> HIDE DEF w, b
    <2>6. call'[t] \in CallState /\ call'[t].stale = b /\ call'[t].waiter = w
          /\ call'[t].pc = call[t].pc /\ call'[t].step = call[t].step
          /\ call'[t].does = call[t].does /\ call'[t].tries = call[t].tries
      BY <2>1, <2>3, <2>4, <2>5 DEF CallState
    <2> QED BY <2>1, <2>6 DEF w, b
  <1>5. TypeOK'
    <2>1. call' = [t \in Calls |-> call'[t]] BY <1>2 DEF Lost
    <2>2. call' \in [Calls -> CallState] BY <1>4, <2>1
    <2>3. faults' \in 0 .. MaxFaults BY <1>1, <1>2, RecipeChainAssumption DEF TypeOK
    <2>4. in' \in Seq(Frames) /\ out' \in Seq(Ids) BY <1>2
    <2> QED BY <1>1, <1>2, <2>2, <2>3, <2>4 DEF TypeOK, Frames
  <1>6. OneInv' BY <1>1, <1>4 DEF OneInv, Active
  <1>7. ASSUME NEW t \in Calls PROVE Fine(call[t])'
    <2> DEFINE c == call[t]
               d == call'[t]
    <2>1. /\ Fine(c) /\ c' = d /\ d.pc = c.pc /\ d.step = c.step /\ d.does = c.does
          /\ d.tries = c.tries /\ (d.waiter = IF c.waiter = "open" THEN "gone" ELSE c.waiter)
          /\ (c.stale => d.stale) /\ (c.pc \in Past \cup {"start", "wake"} => d.stale)
      BY <1>4 DEF Active, Past
    <2> HIDE DEF c, d
    <2>2. ~Open(c)' /\ (Echoed(c)' => Echoed(c)) BY <2>1 DEF Open, Echoed
    <2>3. CallInv(c)' BY <2>1 DEF Fine, CallInv, Past
    <2>4. LinkInv(c)' BY <1>3, <2>1 DEF LinkInv
    <2>5. TakenInv(c)' BY <1>2, <2>1, <2>2 DEF Fine, TakenInv
    <2>6. ShapeInv(c)' BY <1>3, <2>2 DEF ShapeInv
    <2>7. OnTimeInv(c)' BY <2>2 DEF OnTimeInv
    <2>8. Fine(c)' BY <2>3, <2>4, <2>5, <2>6, <2>7 DEF Fine
    <2> QED BY <2>8 DEF c
  <1>8. WireInv' BY <1>2, <1>3 DEF WireInv
  <1> QED BY <1>5, <1>6, <1>7, <1>8 DEF IInv

\* A new link while no call runs on the old one.
LEMMA FreshKeeps ==
  ASSUME IInv, FreshLink, UNCHANGED <<armed, faults, late>>,
         NEW new \in [Calls -> CallState], call' = new,
         \A t \in Calls : CallInv(new[t]) /\ new[t].waiter \notin {"open", "echoed"}
                          /\ (new[t].pc \in Past => new[t].stale),
         OneInv'
  PROVE  IInv'
  <1>1. TypeOK /\ OneInv /\ WireInv BY DEF IInv
  <1>2. /\ link' = TRUE /\ in' = << >> /\ out' = << >> /\ taken' = 0
        /\ asleep' = FALSE /\ label' = "none" /\ staged' = 0 /\ brewing' = FALSE
        /\ dozing' \in BOOLEAN
    BY <1>1 DEF FreshLink, TypeOK
  <1>3. \A S : ~InFlight(S)' /\ ~Has(in, S)' /\ \A A : NothingAfter(A, S)'
    BY <1>2, EmptyWireNext
  <1>4. TypeOK'
    <2>1. in' \in Seq(Frames) /\ out' \in Seq(Ids) /\ 0 \in 0 .. Steps BY <1>2 DEF Steps
    <2> QED BY <1>1, <1>2, <2>1 DEF TypeOK, Frames
  <1>5. ASSUME NEW t \in Calls PROVE Fine(call[t])'
    <2> DEFINE c == call[t]
               d == new[t]
    <2>1. /\ CallInv(d) /\ c' = d /\ d.waiter \notin {"open", "echoed"}
          /\ (d.pc \in Past => d.stale)
      OBVIOUS
    <2> HIDE DEF c, d
    <2>2. ~Open(c)' /\ ~Echoed(c)' BY <2>1 DEF Open, Echoed
    <2>3. CallInv(c)' BY <2>1 DEF CallInv
    <2>4. LinkInv(c)' BY <1>2, <1>3, <2>1 DEF LinkInv
    <2>5. TakenInv(c)' BY <2>1, <2>2 DEF TakenInv
    <2>6. ShapeInv(c)' BY <1>3, <2>2 DEF ShapeInv
    <2>7. OnTimeInv(c)' BY <2>2 DEF OnTimeInv
    <2>8. Fine(c)' BY <2>3, <2>4, <2>5, <2>6, <2>7 DEF Fine
    <2> QED BY <2>8 DEF c
  <1>6. WireInv' BY <1>2, <1>3 DEF WireInv
  <1> QED BY <1>4, <1>5, <1>6 DEF IInv

LEMMA ReconnectKeeps ==
  ASSUME IInv, Reconnect
  PROVE  IInv'
  <1>1. /\ ~link /\ FreshLink /\ UNCHANGED <<armed, faults, late>> /\ call' = call
        /\ \A t \in Calls : call[t].waiter # "echoed"
    BY DEF Reconnect
  <1>2. call \in [Calls -> CallState] BY DEF IInv, TypeOK
  <1>3. ASSUME NEW t \in Calls
        PROVE  CallInv(call[t]) /\ call[t].waiter \notin {"open", "echoed"}
               /\ (call[t].pc \in Past => call[t].stale)
    <2>1. Fine(call[t]) BY DEF IInv
    <2> QED BY <1>1, <2>1 DEF Fine, CallInv, LinkInv, Past
  <1>4. OneInv' BY <1>1 DEF IInv, OneInv, Active
  <1> QED BY <1>1, <1>2, <1>3, <1>4, FreshKeeps

-----------------------------------------------------------------------------
(* Steps of the calls *)

LEMMA NewCall ==
  ASSUME NEW new, NEW t \in Calls, NEW c \in CallState, call \in [Calls -> CallState],
         new = [call EXCEPT ![t] = c]
  PROVE  new \in [Calls -> CallState] /\ new[t] = c /\ \A u \in Calls : u # t => new[u] = call[u]
  OBVIOUS

\* A step of one call that leaves the wire alone.
LEMMA CallKeeps ==
  ASSUME IInv, NEW t \in Calls, NEW c \in CallState, call' = [call EXCEPT ![t] = c],
         UNCHANGED <<link, in, out, taken, asleep, label, dozing, staged, brewing, faults>>,
         late' \in 0 .. MaxLate, armed' \in Calls \cup {Nobody},
         \A u \in Calls : u # t => call[u].pc \in {"idle", "ok", "failed"},
         CallInv(c), LinkInv(c), TakenInv(c), ShapeInv(c), ~Open(c),
         NothingAfter(First, Later), late' = 0 => ~InFlight(ChainIds)
  PROVE  IInv'
  <1>1. TypeOK /\ OneInv /\ WireInv BY DEF IInv
  <1>2. /\ call' \in [Calls -> CallState] /\ call'[t] = c
        /\ \A u \in Calls : u # t => call'[u] = call[u]
    BY <1>1, NewCall DEF TypeOK
  <1>3. TypeOK' BY <1>1, <1>2 DEF TypeOK
  <1>4. OneInv' BY <1>2 DEF OneInv, Active
  <1>5. ASSUME NEW u \in Calls PROVE Fine(call[u])'
    <2>1. CASE u = t
      <3>1. CallInv(c)' /\ LinkInv(c)' /\ TakenInv(c)' /\ ShapeInv(c)' /\ ~Open(c)'
        BY DEF CallInv, LinkInv, TakenInv, ShapeInv, Open, Echoed, Cmd, InFlight, NothingAfter
      <3>2. Fine(c)' BY <3>1 DEF Fine, OnTimeInv
      <3> QED BY <1>2, <2>1, <3>2
    <2>2. CASE u # t
      <3> DEFINE d == call[u]
      <3>1. d.pc \in {"idle", "ok", "failed"} /\ Fine(d) /\ d' = d BY <1>2, <2>2 DEF IInv
      <3> HIDE DEF d
      <3>2. ~Open(d)' /\ ~Echoed(d)' BY <3>1 DEF Open, Echoed
      <3>3. CallInv(d)' BY <3>1 DEF Fine, CallInv
      <3>4. LinkInv(d)' /\ TakenInv(d)' /\ ShapeInv(d)' /\ OnTimeInv(d)'
        BY <3>1, <3>2 DEF LinkInv, TakenInv, ShapeInv, OnTimeInv, Past
      <3>5. Fine(d)' BY <3>3, <3>4 DEF Fine
      <3> QED BY <3>5 DEF d
    <2> QED BY <2>1, <2>2
  <1>6. WireInv'
    <2>1. NothingAfter(First, Later)' /\ InFlight(ChainIds)' = InFlight(ChainIds)
      BY DEF NothingAfter, InFlight
    <2>2. (late = 0 /\ InFlight(ChainIds) => \E u \in Calls : Open(call[u]))' BY <2>1
    <2> QED BY <1>1, <2>1, <2>2 DEF WireInv
  <1> QED BY <1>3, <1>4, <1>5, <1>6 DEF IInv

\* When no call waits, what an earlier attempt left is as WireInv says.
LEMMA Quiet ==
  ASSUME IInv, NEW t \in Calls, ~Open(call[t]),
         \A u \in Calls : u # t => call[u].pc \in {"idle", "ok", "failed"}
  PROVE  NothingAfter(First, Later) /\ (late = 0 => ~InFlight(ChainIds))
  BY DEF IInv, WireInv, Open

LEMMA Begins ==
  ASSUME IInv, ~Overlap, NEW t \in Calls, MayBegin(t)
  PROVE  /\ call[t].pc = "idle" /\ ~Open(call[t])
         /\ \A u \in Calls : call[u].pc \in {"idle", "ok", "failed"}
         /\ late \in 0 .. MaxLate /\ armed \in Calls \cup {Nobody}
         /\ asleep \in BOOLEAN
  BY DEF IInv, TypeOK, MayBegin, At, Active, Open

\* A record of CallState, field by field.
LEMMA Record ==
  ASSUME NEW c, NEW pc \in PC, NEW does \in {"arm", "execute", "confirm"}, NEW kind \in Kinds,
         NEW step \in 1 .. Steps + 1, NEW tries \in 0 .. MaxTries,
         NEW waiter \in {"none", "open", "echoed", "gone"}, NEW wasDown \in BOOLEAN, NEW stale \in BOOLEAN,
         c = [pc |-> pc, does |-> does, kind |-> kind, step |-> step, tries |-> tries, waiter |-> waiter,
              wasDown |-> wasDown, stale |-> stale]
  PROVE  c \in CallState
  BY DEF CallState

LEMMA BeginKeeps ==
  ASSUME IInv, ~Overlap, NEW t \in Calls, Load(t) \/ Confirm(t)
  PROVE  IInv'
  <1>1. MayBegin(t) BY DEF Load, Confirm
  <1>2. PICK d \in {"arm", "execute", "confirm"}, k \in Kinds :
          call' = [call EXCEPT ![t] = [IdleCall EXCEPT !.does = d, !.kind = k, !.wasDown = asleep,
                                                       !.pc = IF asleep THEN "wake" ELSE "start"]]
    <2>1. CASE Load(t) BY <2>1 DEF Load
    <2>2. CASE Confirm(t)
      <3>1. armed \in Calls BY <2>2 DEF Confirm, IInv, TypeOK
      <3>2. call[armed].kind \in Kinds BY <3>1 DEF IInv, TypeOK, CallState
      <3> QED BY <2>2, <3>2 DEF Confirm
    <2> QED BY <2>1, <2>2
  <1> DEFINE c == [IdleCall EXCEPT !.does = d, !.kind = k, !.wasDown = asleep,
                                   !.pc = IF asleep THEN "wake" ELSE "start"]
  <1>3. /\ c.pc \in {"wake", "start"} /\ c.waiter = "none" /\ c.tries = 0 /\ c.step = 1
        /\ c \in CallState
    <2>1. asleep \in BOOLEAN BY <1>1, Begins
    <2> DEFINE p == IF asleep THEN "wake" ELSE "start"
    <2>2. p \in {"wake", "start"} OBVIOUS
    <2> DEFINE k0 == CHOOSE x \in Kinds : TRUE
    <2>7. IdleCall = [pc |-> "idle", does |-> "arm", kind |-> k0, step |-> 1, tries |-> 0,
                      waiter |-> "none", wasDown |-> FALSE, stale |-> FALSE]
      BY DEF IdleCall
    <2>8. c = [IdleCall EXCEPT !.does = d, !.kind = k, !.wasDown = asleep, !.pc = p] OBVIOUS
    <2> HIDE DEF p, k0, c
    <2>3. c = [pc |-> p, does |-> d, kind |-> k, step |-> 1, tries |-> 0, waiter |-> "none",
               wasDown |-> asleep, stale |-> FALSE]
      BY <2>7, <2>8
    <2>4. 1 \in 1 .. Steps + 1 /\ 0 \in 0 .. MaxTries BY RecipeChainAssumption DEF Steps
    <2>5. p \in PC BY <2>2 DEF PC
    <2>6. c \in CallState BY <2>1, <2>3, <2>4, <2>5, Record
    <2> QED BY <2>2, <2>3, <2>6
  <1>4. call' = [call EXCEPT ![t] = c] BY <1>2
  <1> HIDE DEF c
  <1>5. /\ ~Open(c) /\ CallInv(c) /\ LinkInv(c) /\ TakenInv(c) /\ ShapeInv(c)
    BY <1>3, RecipeChainAssumption DEF Open, Echoed, CallInv, LinkInv, TakenInv, ShapeInv, Past
  <1>6. NothingAfter(First, Later) /\ (late = 0 => ~InFlight(ChainIds)) BY <1>1, Begins, Quiet
  <1>7. UNCHANGED <<armed, link, in, out, taken, asleep, label, dozing, staged, brewing, faults, late>>
    BY DEF Load, Confirm, client, wire, machine
  <1> QED BY <1>1, <1>3, <1>4, <1>5, <1>6, <1>7, Begins, CallKeeps

\* A call ends, or is about to begin another attempt.
LEMMA RestKeeps ==
  ASSUME IInv, NEW t \in Calls, Active(t),
         NEW p \in {"start", "ok", "failed"}, p = "start" => call[t].tries < MaxTries,
         call' = [call EXCEPT ![t] = [call[t] EXCEPT !.pc = p, !.waiter = "none"]],
         UNCHANGED <<link, in, out, taken, asleep, label, dozing, staged, brewing, faults>>,
         late' \in 0 .. MaxLate, armed' \in Calls \cup {Nobody},
         NothingAfter(First, Later), late' = 0 => ~InFlight(ChainIds)
  PROVE  IInv'
  <1> DEFINE c == [call[t] EXCEPT !.pc = p, !.waiter = "none"]
  <1>1. call[t] \in CallState /\ OneInv BY DEF IInv, TypeOK
  <1>2. c \in CallState /\ c.pc = p /\ c.waiter = "none" /\ c.tries = call[t].tries
    BY <1>1 DEF CallState, PC
  <1>3. \A u \in Calls : u # t => call[u].pc \in {"idle", "ok", "failed"} BY <1>1, Alone
  <1>4. call' = [call EXCEPT ![t] = c] OBVIOUS
  <1> HIDE DEF c
  <1>5. ~Open(c) /\ CallInv(c) /\ LinkInv(c) /\ TakenInv(c) /\ ShapeInv(c)
    BY <1>2 DEF Open, Echoed, CallInv, LinkInv, TakenInv, ShapeInv, Past
  <1> QED BY <1>2, <1>3, <1>4, <1>5, CallKeeps

\* An attempt goes on: past the chain, or to its next step.
LEMMA MovesOn ==
  ASSUME IInv, NEW t \in Calls, call[t].pc \in Past, ~Open(call[t]),
         NEW c \in CallState, call' = [call EXCEPT ![t] = c], c.pc \in Past \ {"wait"},
         UNCHANGED <<armed, link, in, out, taken, asleep, label, dozing, staged, brewing, faults, late>>,
         c.stale = call[t].stale, CallInv(c), TakenInv(c), ShapeInv(c)
  PROVE  IInv'
  <1>1. OneInv /\ Active(t) BY DEF IInv, Active, Past
  <1>2. \A u \in Calls : u # t => call[u].pc \in {"idle", "ok", "failed"} BY <1>1, Alone
  <1>3. NothingAfter(First, Later) /\ (late = 0 => ~InFlight(ChainIds)) BY <1>2, Quiet
  <1>4. Fine(call[t]) BY DEF IInv
  <1>5. LinkInv(c) BY <1>4 DEF Fine, LinkInv
  <1>6. ~Open(c) BY DEF Open
  <1>7. late' \in 0 .. MaxLate /\ armed' \in Calls \cup {Nobody} BY DEF IInv, TypeOK
  <1> QED BY <1>2, <1>3, <1>5, <1>6, <1>7, CallKeeps

LEMMA StepDoneKeeps ==
  ASSUME IInv, NEW t \in Calls, StepDone(t)
  PROVE  IInv'
  <1> DEFINE o == call[t]
             p == IF o.step < Steps THEN "send" ELSE IF o.does = "execute" THEN "go" ELSE "ended"
             c == [o EXCEPT !.pc = p, !.step = o.step + 1, !.waiter = "none"]
  <1>1. o \in CallState /\ Fine(o) BY DEF IInv, TypeOK
  <1>2. /\ o.pc = "wait" /\ o.waiter = "echoed" /\ call' = [call EXCEPT ![t] = c]
        /\ UNCHANGED <<armed, link, in, out, taken, asleep, label, dozing, staged, brewing, faults, late>>
    BY DEF StepDone, At, client, wire, machine
  <1>3. o.step \in 1 .. Steps /\ o.does # "confirm" /\ o.tries > 0
    BY <1>1, <1>2 DEF Fine, CallInv, Past
  <1>4. p \in {"send", "go", "ended"} /\ (p = "send" <=> o.step < Steps) OBVIOUS
  <1>5. o.step + 1 \in 2 .. Steps + 1 BY <1>3 DEF Steps
  <1> HIDE DEF p, o
  <1>6. /\ c \in CallState /\ c.pc = p /\ c.step = o.step + 1 /\ c.waiter = "none"
        /\ c.stale = o.stale /\ c.does = o.does /\ c.tries = o.tries
    <2>1. p \in PC /\ o.step + 1 \in 1 .. Steps + 1 BY <1>4, <1>5 DEF PC, Steps
    <2> QED BY <1>1, <2>1 DEF CallState
  <1> HIDE DEF c
  <1>7. CallInv(c)
    <2>1. p = "send" => o.step + 1 \in 1 .. Steps BY <1>3, <1>4 DEF Steps
    <2>2. p # "send" => o.step + 1 = Steps + 1 BY <1>3, <1>4 DEF Steps
    <2> QED BY <1>3, <1>4, <1>6, <2>1, <2>2 DEF CallInv, Past
  <1>8. Echoed(o) BY <1>2 DEF Echoed
  <1>9. ~Open(c) /\ ~Echoed(c) BY <1>4, <1>6 DEF Open, Echoed
  <1>10. TakenInv(c)
    <2>1. taken >= o.step BY <1>1, <1>8 DEF Fine, TakenInv
    <2>2. c.step - 1 = o.step BY <1>3, <1>6 DEF Steps
    <2> QED BY <1>9, <2>1, <2>2 DEF TakenInv
  <1>11. ShapeInv(c)
    <2>1. ~InFlight(Later) /\ (o.step >= 2 => ~InFlight(First)) BY <1>1, <1>8 DEF Fine, ShapeInv
    <2>2. c.step >= 3 => o.step >= 2 BY <1>3, <1>6 DEF Steps
    <2> QED BY <1>9, <2>1, <2>2 DEF ShapeInv
  <1>12. o.pc \in Past /\ ~Open(o) /\ c.pc \in Past \ {"wait"} BY <1>2, <1>4, <1>6 DEF Past, Open
  <1> QED BY <1>2, <1>6, <1>7, <1>10, <1>11, <1>12, MovesOn DEF o

\* The go command is answered, or the machine reports that it starts.
LEMMA StartedKeeps ==
  ASSUME IInv, NEW t \in Calls, GoAcked(t) \/ Verified(t)
  PROVE  IInv'
  <1> DEFINE o == call[t]
             c == [o EXCEPT !.pc = "ended", !.waiter = "none"]
  <1>1. o \in CallState /\ Fine(o) BY DEF IInv, TypeOK
  <1>2. /\ o.pc \in {"goWait", "verify"}
        /\ UNCHANGED <<armed, link, in, out, taken, asleep, label, dozing, staged, brewing, faults, late>>
    BY DEF GoAcked, Verified, At, client, wire, machine
  <1>3. call' = [call EXCEPT ![t] = c]
    <2>1. CASE GoAcked(t) BY <2>1 DEF GoAcked
    <2>2. CASE Verified(t)
      <3>1. o.waiter = "none" BY <1>1, <2>2 DEF Fine, CallInv, Verified, At
      <3>2. o = [o EXCEPT !.waiter = "none"] BY <1>1, <3>1 DEF CallState
      <3>3. c = [o EXCEPT !.pc = "ended"] BY <1>1, <3>1 DEF CallState
      <3> QED BY <2>2, <3>3 DEF Verified, Goes
    <2> QED BY <2>1, <2>2
  <1> HIDE DEF o
  <1>4. /\ c \in CallState /\ c.pc = "ended" /\ c.step = o.step /\ c.waiter = "none"
        /\ c.stale = o.stale /\ c.does = o.does /\ c.tries = o.tries
    BY <1>1 DEF CallState, PC
  <1> HIDE DEF c
  <1>5. CallInv(c) BY <1>1, <1>2, <1>4 DEF Fine, CallInv, Past
  <1>6. TakenInv(c) BY <1>1, <1>2, <1>4 DEF Fine, TakenInv, Open, Echoed, Past
  <1>7. ShapeInv(c) BY <1>1, <1>2, <1>4 DEF Fine, ShapeInv, Open, Echoed, Past
  <1>8. o.pc \in Past /\ ~Open(o) /\ c.pc \in Past \ {"wait"} BY <1>2, <1>4 DEF Past, Open
  <1> QED BY <1>2, <1>3, <1>4, <1>5, <1>6, <1>7, <1>8, MovesOn DEF o

LEMMA FailsKeeps ==
  ASSUME IInv, NEW t \in Calls, Fails(t)
  PROVE  IInv'
  <1>1. /\ call[t].pc \in {"send", "go", "verify"}
        /\ call' = [call EXCEPT ![t] = [call[t] EXCEPT !.pc = "failed", !.waiter = "none"]]
        /\ UNCHANGED <<link, in, out, taken, asleep, label, dozing, staged, brewing, faults, late>>
        /\ armed' \in {armed, Nobody}
    BY DEF Fails, At, Disarm, client, wire, machine
  <1>2. OneInv /\ Active(t) /\ ~Open(call[t]) BY <1>1 DEF IInv, Active, Open
  <1>3. \A u \in Calls : u # t => call[u].pc \in {"idle", "ok", "failed"} BY <1>2, Alone
  <1>4. NothingAfter(First, Later) /\ (late = 0 => ~InFlight(ChainIds)) BY <1>2, <1>3, Quiet
  <1>5. late' \in 0 .. MaxLate /\ armed' \in Calls \cup {Nobody} BY <1>1 DEF IInv, TypeOK
  <1> QED BY <1>1, <1>2, <1>4, <1>5, RestKeeps

LEMMA EndedKeeps ==
  ASSUME IInv, NEW t \in Calls, Ended(t)
  PROVE  IInv'
  <1>1. /\ call[t].pc = "ended"
        /\ UNCHANGED <<link, in, out, taken, asleep, label, dozing, staged, brewing, faults, late>>
        /\ armed' \in {armed, Nobody, t}
    BY DEF Ended, At, client, wire, machine
  <1>2. PICK p \in {"start", "ok"} : /\ call' = [call EXCEPT ![t] = [call[t] EXCEPT !.pc = p]]
                                     /\ p = "start" => call[t].tries < MaxTries
    BY DEF Ended, Goes
  <1>3. call[t] \in CallState /\ call[t].waiter = "none"
    <2>1. call[t] \in CallState /\ Fine(call[t]) BY DEF IInv, TypeOK
    <2> QED BY <1>1, <2>1 DEF Fine, CallInv
  <1>4. [call[t] EXCEPT !.pc = p] = [call[t] EXCEPT !.pc = p, !.waiter = "none"]
    BY <1>3 DEF CallState
  <1>5. OneInv /\ Active(t) /\ ~Open(call[t]) BY <1>1 DEF IInv, Active, Open
  <1>6. \A u \in Calls : u # t => call[u].pc \in {"idle", "ok", "failed"} BY <1>5, Alone
  <1>7. NothingAfter(First, Later) /\ (late = 0 => ~InFlight(ChainIds)) BY <1>5, <1>6, Quiet
  <1>8. late' \in 0 .. MaxLate /\ armed' \in Calls \cup {Nobody} BY <1>1 DEF IInv, TypeOK
  <1> QED BY <1>1, <1>2, <1>4, <1>5, <1>7, <1>8, RestKeeps

\* What is still on its way when a wait ends without an echo: nothing of it, or,
\* when it is only late, it alone.
LEMMA TimedOutKeeps ==
  ASSUME IInv, MaxLate <= 1, NEW t \in Calls, TimedOut(t)
  PROVE  IInv'
  <1> DEFINE o == call[t]
  <1>1. o \in CallState /\ Fine(o) /\ OneInv /\ late \in 0 .. MaxLate BY DEF IInv, TypeOK
  <1>2. /\ o.pc \in {"wait", "goWait"} /\ NoEcho(t)
        /\ UNCHANGED <<link, in, out, taken, asleep, label, dozing, staged, brewing, faults>>
        /\ armed' \in {armed, Nobody}
    BY DEF TimedOut, Disarm, client, wire, machine
  <1>3. PICK p \in {"start", "failed"} :
          /\ call' = [call EXCEPT ![t] = [call[t] EXCEPT !.pc = p, !.waiter = "none"]]
          /\ p = "start" => call[t].tries < MaxTries
    BY DEF TimedOut, Retries
  <1>4. Active(t) BY <1>2 DEF Active
  <1>5. \A u \in Calls : u # t => call[u].pc \in {"idle", "ok", "failed"} BY <1>1, <1>4, Alone
  <1>6. late' \in 0 .. MaxLate /\ armed' \in Calls \cup {Nobody}
    BY <1>1, <1>2, RecipeChainAssumption DEF NoEcho, IInv, TypeOK
  <1>7. NothingAfter(First, Later) /\ (late' = 0 => ~InFlight(ChainIds))
    <2>1. late' = 0 => late = 0 BY <1>1, <1>2, RecipeChainAssumption DEF NoEcho
    <2>2. CASE ~Open(o)
      <3>1. NothingAfter(First, Later) /\ (late = 0 => ~InFlight(ChainIds)) BY <1>5, <2>2, Quiet
      <3> QED BY <2>1, <3>1
    <2>3. CASE Open(o)
      <3>1. Awaited(t) = Cmd(o) /\ o.step \in 1 .. Steps
        BY <1>1, <2>3 DEF Awaited, At, Cmd, Open, Fine, CallInv
      <3>2. InAir(t) <=> InFlight({Cmd(o)}) BY <3>1 DEF InAir, InFlight, Has
      <3> HIDE DEF o
      <3>3. late = 0 => ~InFlight(ChainIds \ {Cmd(o)}) BY <1>1, <2>3 DEF Fine, OnTimeInv
      <3>4. o.step >= 2 => ~InFlight(Later \ {Cmd(o)}) BY <1>1, <2>3 DEF Fine, ShapeInv
      <3>5. CASE ~InFlight({Cmd(o)})
        <4>1. late = 0 => ~InFlight(ChainIds) BY <3>3, <3>5 DEF InFlight, Has
        <4>2. NothingAfter(First, Later)
          <5>1. CASE o.step >= 2
            <6>1. ~InFlight(Later) BY <3>4, <3>5, <5>1 DEF InFlight, Has
            <6> QED BY <6>1, NoneInFlight
          <5>2. CASE o.step = 1
            <6>1. \A u \in Calls : Open(call[u]) => call[u].step = 1
              BY <1>5, <5>2 DEF Open, o
            <6> QED BY <6>1 DEF IInv, WireInv
          <5> QED BY <3>1, <5>1, <5>2 DEF Steps
        <4> QED BY <2>1, <4>1, <4>2
      <3>6. CASE InFlight({Cmd(o)})
        <4>1. late < MaxLate /\ late' = late + 1
          BY <1>2, <2>3, <3>2, <3>6 DEF NoEcho, Open, o
        <4>2. late = 0 /\ late' # 0 BY <1>1, <4>1, RecipeChainAssumption
        <4>3. CASE o.step >= 2
          <5>1. Cmd(o) \in Later BY <1>1, <3>1, <4>3, CmdOf
          <5>2. First \subseteq ChainIds \ {Cmd(o)} BY <5>1 DEF First, Later, ChainIds
          <5>3. ~InFlight(First) BY <3>3, <4>2, <5>2 DEF InFlight, Has
          <5> QED BY <4>2, <5>3, NoneInFlight
        <4>4. CASE o.step = 1
          <5>1. Cmd(o) = "8022" BY <1>1, <3>1, <4>4, CmdOf
          <5>2. Later \subseteq ChainIds \ {Cmd(o)} BY <5>1 DEF Later, ChainIds
          <5>3. ~InFlight(Later) BY <3>3, <4>2, <5>2 DEF InFlight, Has
          <5> QED BY <4>2, <5>3, NoneInFlight
        <4> QED BY <3>1, <4>3, <4>4 DEF Steps
      <3> QED BY <3>5, <3>6
    <2> QED BY <2>2, <2>3
  <1> QED BY <1>2, <1>3, <1>4, <1>6, <1>7, RestKeeps

LEMMA AttemptKeeps ==
  ASSUME IInv, NEW t \in Calls, Attempt(t)
  PROVE  IInv'
  <1> DEFINE o == call[t]
             p == IF o.does = "confirm" THEN "go" ELSE "send"
             c == [o EXCEPT !.pc = p, !.step = 1, !.tries = o.tries + 1, !.waiter = "none",
                            !.stale = ~link]
  <1>1. o \in CallState /\ Fine(o) /\ OneInv /\ link \in BOOLEAN /\ WireInv /\ taken \in 0 .. Steps
    BY DEF IInv, TypeOK
  <1>2. /\ o.pc = "start" /\ call' = [call EXCEPT ![t] = c]
        /\ UNCHANGED <<armed, link, in, out, taken, asleep, label, dozing, staged, brewing, faults, late>>
    BY DEF Attempt, At, client, wire, machine
  <1>3. Active(t) /\ ~Open(o) BY <1>2 DEF Active, Open
  <1>4. \A u \in Calls : u # t => call[u].pc \in {"idle", "ok", "failed"} BY <1>1, <1>3, Alone
  <1>5. NothingAfter(First, Later) /\ (late = 0 => ~InFlight(ChainIds)) BY <1>3, <1>4, Quiet
  <1>6. late' \in 0 .. MaxLate /\ armed' \in Calls \cup {Nobody} BY <1>2 DEF IInv, TypeOK
  <1>7. p \in {"go", "send"} /\ (p = "send" <=> o.does # "confirm") OBVIOUS
  <1>8. o.tries + 1 \in 1 .. MaxTries /\ 1 \in 1 .. Steps + 1 /\ 1 \in 1 .. Steps
    <2>1. o.tries < MaxTries /\ o.tries \in 0 .. MaxTries BY <1>1, <1>2 DEF Fine, CallInv, CallState
    <2> QED BY <2>1, RecipeChainAssumption DEF Steps
  <1> HIDE DEF o, p
  <1>9. /\ c \in CallState /\ c.pc = p /\ c.step = 1 /\ c.waiter = "none"
        /\ c.stale = ~link /\ c.does = o.does /\ c.tries = o.tries + 1
    <2>1. p \in PC /\ (~link) \in BOOLEAN /\ o.tries + 1 \in 0 .. MaxTries BY <1>7, <1>8 DEF PC
    <2> DEFINE n == o.tries + 1
               b == ~link
    <2>2. c = [o EXCEPT !.pc = p, !.step = 1, !.tries = n, !.waiter = "none", !.stale = b] OBVIOUS
    <2>3. n \in 0 .. MaxTries /\ b \in BOOLEAN BY <2>1
    <2> HIDE DEF n, b, c
    <2>4. /\ c \in CallState /\ c.pc = p /\ c.step = 1 /\ c.waiter = "none"
          /\ c.stale = b /\ c.does = o.does /\ c.tries = n
      BY <1>1, <1>8, <2>1, <2>2, <2>3 DEF CallState
    <2> QED BY <2>4 DEF n, b
  <1> HIDE DEF c
  <1>10. CallInv(c) BY <1>7, <1>8, <1>9 DEF CallInv, Past
  <1>11. ~Open(c) /\ ~Echoed(c) BY <1>7, <1>9 DEF Open, Echoed
  <1>12. LinkInv(c)
    <2>1. ~link => ~InFlight(ChainIds) BY <1>1, EmptyWire DEF WireInv
    <2> QED BY <1>9, <2>1 DEF LinkInv
  <1>13. TakenInv(c)
    <2>1. taken >= c.step - 1 BY <1>1, <1>9 DEF Steps
    <2> QED BY <1>11, <2>1 DEF TakenInv
  <1>14. ShapeInv(c)
    <2>1. ~(c.step >= 2) BY <1>9
    <2> QED BY <1>11, <2>1 DEF ShapeInv
  <1> QED BY <1>2, <1>4, <1>5, <1>6, <1>9, <1>10, <1>11, <1>12, <1>13, <1>14, CallKeeps

\* A call that does not run loses nothing with the link.
LEMMA LostNothing ==
  ASSUME call \in [Calls -> CallState], NEW u \in Calls, CallInv(call[u]), ~Active(u)
  PROVE  Lost(call)[u] = call[u]
  <1> DEFINE o == call[u]
  <1>1. o \in CallState /\ o.waiter # "open" BY DEF CallInv, Active
  <1>2. Lost(call)[u] = [o EXCEPT !.stale = o.stale, !.waiter = o.waiter]
    BY <1>1 DEF Lost, CallState
  <1> QED BY <1>1, <1>2 DEF CallState

\* The one call that wakes the machine begins its first attempt.
LEMMA WakesOne ==
  ASSUME IInv, NEW t \in Calls, Wake(t)
  PROVE  /\ call' \in [Calls -> CallState]
         /\ call'[t].pc = "start" /\ call'[t].waiter = "none" /\ call'[t].tries = 0
         /\ \A u \in Calls : u # t => call'[u] = call[u]
  <1> DEFINE o == call[t]
  <1>1. o \in CallState /\ Fine(o) /\ OneInv /\ TypeOK BY DEF IInv, TypeOK
  <1>2. o.pc = "wake" /\ UNCHANGED <<armed, late>> BY DEF Wake, At
  <1>3. Active(t) /\ ~Open(o) BY <1>2 DEF Active, Open
  <1>4. \A u \in Calls : u # t => call[u].pc \in {"idle", "ok", "failed"} BY <1>1, <1>3, Alone
  <1>5. o.waiter = "none" /\ o.tries = 0 BY <1>1, <1>2 DEF Fine, CallInv
  <1>6. CASE call' = [call EXCEPT ![t].pc = "start"]
    <2> DEFINE c == [o EXCEPT !.pc = "start"]
    <2>1. c \in CallState /\ c.pc = "start" /\ c.waiter = "none" /\ c.tries = 0
      BY <1>1, <1>5 DEF CallState, PC
    <2>2. call' = [call EXCEPT ![t] = c] BY <1>6
    <2> HIDE DEF c
    <2> QED BY <1>1, <2>1, <2>2 DEF TypeOK
  <1>7. CASE call' = [Lost(call) EXCEPT ![t].pc = "start"]
    <2> DEFINE l == Lost(call)
               c == [l[t] EXCEPT !.pc = "start"]
    <2>1. l[t] \in CallState /\ l[t].waiter = "none" /\ l[t].tries = 0
      <3>1. o.stale \/ Active(t) \in BOOLEAN BY <1>1 DEF CallState, Active
      <3>2. l[t] = [o EXCEPT !.stale = o.stale \/ Active(t), !.waiter = "none"]
        BY <1>1, <1>5 DEF Lost, CallState
      <3> QED BY <1>1, <1>5, <3>1, <3>2 DEF CallState
    <2>2. c \in CallState /\ c.pc = "start" /\ c.waiter = "none" /\ c.tries = 0
      BY <2>1 DEF CallState, PC
    <2>3. \A u \in Calls : u # t => l[u] = call[u]
      <3> TAKE u \in Calls
      <3> HAVE u # t
      <3>1. CallInv(call[u]) /\ ~Active(u) BY <1>4 DEF IInv, Fine, Active
      <3> QED BY <1>1, <3>1, LostNothing DEF TypeOK
    <2>4. DOMAIN l = Calls /\ l = [u \in Calls |-> l[u]] BY DEF Lost
    <2>5. call' = [l EXCEPT ![t] = c] BY <1>7
    <2> HIDE DEF c, l
    <2>6. call'[t] = c /\ (\A u \in Calls : u # t => call'[u] = call[u])
      BY <2>3, <2>4, <2>5
    <2>7. call' = [u \in Calls |-> call'[u]] BY <2>4, <2>5
    <2>8. \A u \in Calls : call'[u] \in CallState BY <1>1, <2>2, <2>6 DEF TypeOK
    <2> QED BY <2>2, <2>6, <2>7, <2>8
  <1> QED BY <1>6, <1>7 DEF Wake, Goes

LEMMA WakeKeeps ==
  ASSUME IInv, NEW t \in Calls, Wake(t)
  PROVE  IInv'
  <1> DEFINE o == call[t]
  <1>1. o \in CallState /\ Fine(o) /\ OneInv /\ TypeOK BY DEF IInv, TypeOK
  <1>2. o.pc = "wake" /\ UNCHANGED <<armed, late>> BY DEF Wake, At
  <1>3. Active(t) /\ ~Open(o) BY <1>2 DEF Active, Open
  <1>4. \A u \in Calls : u # t => call[u].pc \in {"idle", "ok", "failed"} BY <1>1, <1>3, Alone
  <1>5. o.waiter = "none" /\ o.tries = 0 BY <1>1, <1>2 DEF Fine, CallInv
  <1>6. /\ call' \in [Calls -> CallState]
        /\ call'[t].pc = "start" /\ call'[t].waiter = "none" /\ call'[t].tries = 0
        /\ \A u \in Calls : u # t => call'[u] = call[u]
    BY WakesOne
  <1>7. \A u \in Calls : CallInv(call'[u]) /\ call'[u].pc \in {"idle", "ok", "failed", "start"}
                         /\ call'[u].waiter = "none"
    <2> TAKE u \in Calls
    <2>1. CASE u = t
      <3>1. 0 < MaxTries BY RecipeChainAssumption
      <3> QED BY <1>6, <2>1, <3>1 DEF CallInv, Past
    <2>2. CASE u # t
      <3>1. CallInv(call[u]) BY DEF IInv, Fine
      <3> QED BY <1>4, <1>6, <2>2, <3>1 DEF CallInv
    <2> QED BY <2>1, <2>2
  <1>8. NothingAfter(First, Later) /\ (late = 0 => ~InFlight(ChainIds)) BY <1>3, <1>4, Quiet
  <1>9. OneInv' BY <1>4, <1>6 DEF OneInv, Active
  <1>10. CASE FreshLink /\ UNCHANGED faults
    <2> DEFINE new == call'
    <2>1. new \in [Calls -> CallState] /\ call' = new /\ \A u \in Calls :
            CallInv(new[u]) /\ new[u].waiter \notin {"open", "echoed"} /\ (new[u].pc \in Past => new[u].stale)
      BY <1>6, <1>7 DEF Past
    <2> HIDE DEF new
    <2> QED BY <1>2, <1>9, <1>10, <2>1, FreshKeeps
  <1>11. ASSUME dozing' \in BOOLEAN, asleep' \in BOOLEAN, faults' \in 0 .. MaxFaults,
                UNCHANGED <<label, staged, brewing, taken>>,
                \/ UNCHANGED <<link, in, out>>
                \/ link' = FALSE /\ in' = << >> /\ out' = << >>
         PROVE  IInv'
    <2>1. in' \in Seq(Frames) /\ out' \in Seq(Ids) /\ link' \in BOOLEAN
      <3>1. in \in Seq(Frames) /\ out \in Seq(Ids) /\ link \in BOOLEAN BY <1>1 DEF TypeOK, Frames
      <3>2. << >> \in Seq(Frames) /\ << >> \in Seq(Ids) /\ FALSE \in BOOLEAN OBVIOUS
      <3> QED BY <1>11, <3>1, <3>2
    <2>2. TypeOK' BY <1>1, <1>2, <1>6, <1>11, <2>1 DEF TypeOK, Frames
    <2>3. ASSUME NEW u \in Calls PROVE Fine(call[u])'
      <3> DEFINE d == call'[u]
      <3>1. CallInv(d) /\ d.pc \in {"idle", "ok", "failed", "start"} BY <1>7
      <3>2. ~Open(d) /\ ~Echoed(d) /\ d.pc \notin Past BY <3>1 DEF Open, Echoed, Past
      <3>3. CallInv(call[u])' BY <3>1 DEF CallInv
      <3>4. LinkInv(call[u])' /\ TakenInv(call[u])' /\ ShapeInv(call[u])' /\ OnTimeInv(call[u])'
        BY <3>2 DEF LinkInv, TakenInv, ShapeInv, OnTimeInv, Open, Echoed
      <3> QED BY <3>3, <3>4 DEF Fine
    <2>4. WireInv'
      <3>1. CASE UNCHANGED <<link, in, out>>
        <4>1. NothingAfter(First, Later)' /\ InFlight(ChainIds)' = InFlight(ChainIds)
              /\ Has(in, First)' = Has(in, First)
          BY <1>8, <3>1 DEF NothingAfter, InFlight
        <4> QED BY <1>2, <1>8, <1>11, <3>1, <4>1 DEF IInv, WireInv
      <3>2. CASE link' = FALSE /\ in' = << >> /\ out' = << >>
        <4>1. \A S : ~InFlight(S)' /\ ~Has(in, S)' /\ \A A : NothingAfter(A, S)'
          BY <3>2, EmptyWireNext
        <4> QED BY <3>2, <4>1 DEF WireInv
      <3> QED BY <1>11, <3>1, <3>2
    <2> QED BY <1>9, <2>2, <2>3, <2>4 DEF IInv
  <1>12. \A n \in 0 .. MaxFaults : n < MaxFaults => n + 1 \in 0 .. MaxFaults
    BY RecipeChainAssumption
  <1>13. faults \in 0 .. MaxFaults BY <1>1 DEF TypeOK
  <1> QED BY <1>1, <1>10, <1>11, <1>12, <1>13 DEF Wake, LinkDown, client, wire, machine, TypeOK

LEMMA SendStepKeeps ==
  ASSUME IInv, NEW t \in Calls, SendStep(t)
  PROVE  IInv'
  <1>0. PICK o, x, c : o = call[t] /\ x = Cmd(o) /\ c = [o EXCEPT !.pc = "wait", !.waiter = "open"]
    OBVIOUS
  <1>1. o \in CallState /\ Fine(o) /\ OneInv /\ TypeOK /\ WireInv BY <1>0 DEF IInv, TypeOK
  <1>2. /\ o.pc = "send" /\ ~o.stale /\ Transmit(x) /\ call' = [call EXCEPT ![t] = c]
        /\ UNCHANGED <<armed, link, in, taken, asleep, label, dozing, staged, brewing, late>>
    BY <1>0 DEF SendStep, At, Cmd, client, machine
  <1>3. Active(t) /\ ~Open(o) BY <1>0, <1>2 DEF Active, Open
  <1>4. \A u \in Calls : u # t => call[u].pc \in {"idle", "ok", "failed"} BY <1>1, <1>3, Alone
  <1>5. NothingAfter(First, Later) /\ (late = 0 => ~InFlight(ChainIds)) BY <1>0, <1>3, <1>4, Quiet
  <1>6. o.step \in 1 .. Steps /\ o.does # "confirm" /\ o.tries > 0 /\ link
    BY <1>1, <1>2 DEF Fine, CallInv, LinkInv, Past
  <1>7. x \in ChainIds /\ (o.step = 1 => x = "8022") /\ (o.step >= 2 => x \in Later)
    BY <1>0, <1>1, <1>6, CmdOf
  <1>8. /\ c \in CallState /\ c.pc = "wait" /\ c.step = o.step /\ c.waiter = "open" /\ c.kind = o.kind
        /\ c.stale = o.stale /\ c.does = o.does /\ c.tries = o.tries
    BY <1>0, <1>1 DEF CallState, PC
  <1>9. /\ call' \in [Calls -> CallState] /\ call'[t] = c
        /\ \A u \in Calls : u # t => call'[u] = call[u]
    BY <1>1, <1>2, <1>8 DEF TypeOK
  <1>10. out' = out \/ out' = Append(out, x) BY <1>2 DEF Transmit
  <1>11. out \in Seq(Ids) /\ x \in Ids BY <1>1, <1>7, FramesOf DEF TypeOK
  <1>12. \A S : Has(out', S) => Has(out, S) \/ x \in S BY <1>10, <1>11, AppendHas
  <1>13. \A A, S : NoneAfter(out, A, S) /\ (Has(out, A) => x \notin S) => NoneAfter(out', A, S)
    BY <1>10, <1>11, AppendNone
  <1>14. \A S : InFlight(S)' => InFlight(S) \/ x \in S BY <1>2, <1>12 DEF InFlight
  <1>15. TypeOK'
    <2>1. out' \in Seq(Ids) BY <1>10, <1>11, AppendProperties
    <2>2. faults' \in 0 .. MaxFaults
      <3>1. faults' = faults \/ (faults < MaxFaults /\ faults' = faults + 1) BY <1>2 DEF Transmit
      <3> QED BY <1>1, <3>1, RecipeChainAssumption DEF TypeOK
    <2> QED BY <1>1, <1>2, <1>9, <2>1, <2>2 DEF TypeOK
  <1>16. OneInv' BY <1>4, <1>9 DEF OneInv, Active
  <1>17. o.step >= 2 => ~InFlight(Later) /\ (o.step >= 3 => ~InFlight(First))
    BY <1>1, <1>2 DEF Fine, ShapeInv, Past
  <1>18. ASSUME ~InFlight({x}) PROVE NothingAfter({x}, ChainIds)'
    <2>1. ~Has(in, {x}) /\ ~Has(out, {x}) BY <1>18 DEF InFlight
    <2>2. NoneAfter(in, {x}, ChainIds) /\ NoneAfter(out, {x}, ChainIds) BY <2>1 DEF Has, NoneAfter
    <2>3. NoneAfter(out', {x}, ChainIds) BY <1>13, <2>1, <2>2
    <2> QED BY <1>2, <2>1, <2>2, <2>3 DEF NothingAfter
  <1>19. Cmd(c) = x /\ Open(c) /\ ~Echoed(c) BY <1>0, <1>8 DEF Cmd, Open, Echoed
  <1>20. Fine(c)'
    <2>1. CallInv(c)' BY <1>2, <1>6, <1>8 DEF CallInv, Past
    <2>2. LinkInv(c)' BY <1>2, <1>6, <1>8 DEF LinkInv
    <2>3. TakenInv(c)'
      <3>1. taken >= o.step - 1 BY <1>1, <1>2, <1>6 DEF Fine, TakenInv, Past
      <3>2. Has(in, {x}) => taken >= o.step
        <4>1. CASE o.step = 1
          <5>1. {x} = First BY <1>7, <4>1 DEF First
          <5> QED BY <1>1, <4>1, <5>1 DEF WireInv
        <4>2. CASE o.step >= 2
          <5>1. ~InFlight(Later) /\ x \in Later BY <1>7, <1>17, <4>2
          <5> QED BY <5>1 DEF InFlight, Has
        <4> QED BY <1>6, <4>1, <4>2 DEF Steps
      <3> QED BY <1>2, <1>8, <1>19, <3>1, <3>2 DEF TakenInv, Cmd, Open, Echoed
    <2>4. ShapeInv(c)'
      <3>1. ASSUME o.step >= 2
            PROVE  /\ ~InFlight(Later \ {x})' /\ NothingAfter({x}, ChainIds)'
                   /\ o.step >= 3 => ~InFlight(First)'
        <4>1. ~InFlight(Later) /\ (o.step >= 3 => ~InFlight(First)) /\ x \in Later
          BY <1>7, <1>17, <3>1
        <4>2. ~InFlight(Later \ {x}) /\ ~InFlight({x}) BY <4>1 DEF InFlight, Has
        <4>3. x \notin First BY <4>1 DEF First, Later
        <4> QED BY <1>14, <1>18, <4>1, <4>2, <4>3
      <3> QED BY <1>8, <1>19, <3>1 DEF ShapeInv, Cmd, Open, Echoed
    <2>5. OnTimeInv(c)'
      <3>1. ASSUME late = 0
            PROVE  ~InFlight(ChainIds \ {x})' /\ NothingAfter({x}, ChainIds)'
        <4>1. ~InFlight(ChainIds) BY <1>5, <3>1
        <4>2. ~InFlight(ChainIds \ {x}) /\ ~InFlight({x}) BY <1>7, <4>1 DEF InFlight, Has
        <4> QED BY <1>14, <1>18, <4>2
      <3> QED BY <1>2, <1>19, <3>1 DEF OnTimeInv, Cmd, Open
    <2> QED BY <2>1, <2>2, <2>3, <2>4, <2>5 DEF Fine
  <1>21. ASSUME NEW u \in Calls PROVE Fine(call[u])'
    <2>1. CASE u = t BY <1>9, <1>20, <2>1
    <2>2. CASE u # t
      <3> DEFINE d == call[u]
      <3>1. d.pc \in {"idle", "ok", "failed"} /\ Fine(d) /\ d' = d BY <1>4, <1>9, <2>2 DEF IInv
      <3> HIDE DEF d
      <3>2. ~Open(d)' /\ ~Echoed(d)' BY <3>1 DEF Open, Echoed
      <3>3. CallInv(d)' BY <3>1 DEF Fine, CallInv
      <3>4. LinkInv(d)' /\ TakenInv(d)' /\ ShapeInv(d)' /\ OnTimeInv(d)'
        BY <3>1, <3>2 DEF LinkInv, TakenInv, ShapeInv, OnTimeInv, Past
      <3>5. Fine(d)' BY <3>3, <3>4 DEF Fine
      <3> QED BY <3>5 DEF d
    <2> QED BY <2>1, <2>2
  <1>22. WireInv'
    <2>1. Open(call'[t]) /\ call'[t].step = o.step BY <1>8, <1>9, <1>19
    <2>2. ((\A u \in Calls : Open(call[u]) => call[u].step = 1) => NothingAfter(First, Later))'
      <3> SUFFICES ASSUME o.step = 1 PROVE NothingAfter(First, Later)' BY <2>1 DEF Open
      <3>1. x \notin Later BY <1>7 DEF Later
      <3> QED BY <1>2, <1>5, <1>12, <1>13, <3>1 DEF NothingAfter
    <2>3. (late = 0 /\ InFlight(ChainIds) => \E u \in Calls : Open(call[u]))'
      BY <2>1 DEF Open
    <2>4. (~link => in = << >> /\ out = << >>)' BY <1>2, <1>6
    <2>5. Has(in, First)' => taken' >= 1 BY <1>1, <1>2 DEF WireInv
    <2> QED BY <2>2, <2>3, <2>4, <2>5 DEF WireInv
  <1> QED BY <1>15, <1>16, <1>21, <1>22 DEF IInv

LEMMA SendGoKeeps ==
  ASSUME IInv, NEW t \in Calls, SendGo(t)
  PROVE  IInv'
  <1>0. PICK o, g, c : /\ o = call[t] /\ g = Go(o.kind)
                       /\ c = IF o.kind = "tea" THEN [o EXCEPT !.pc = "goWait", !.waiter = "open"]
                                                ELSE [o EXCEPT !.pc = "verify"]
    OBVIOUS
  <1>1. o \in CallState /\ Fine(o) /\ OneInv /\ TypeOK /\ WireInv BY <1>0 DEF IInv, TypeOK
  <1>2. /\ o.pc = "go" /\ ~o.stale /\ Transmit(g) /\ call' = [call EXCEPT ![t] = c]
        /\ UNCHANGED <<armed, link, in, taken, asleep, label, dozing, staged, brewing, late>>
    BY <1>0 DEF SendGo, At, Goes, client, machine
  <1>3. Active(t) /\ ~Open(o) BY <1>0, <1>2 DEF Active, Open
  <1>4. \A u \in Calls : u # t => call[u].pc \in {"idle", "ok", "failed"} BY <1>1, <1>3, Alone
  <1>5. NothingAfter(First, Later) /\ (late = 0 => ~InFlight(ChainIds)) BY <1>0, <1>3, <1>4, Quiet
  <1>6. o.tries > 0 /\ link /\ o.waiter = "none" /\ (o.does # "confirm" => o.step = Steps + 1)
    BY <1>1, <1>2 DEF Fine, CallInv, LinkInv, Past
  <1>7. g \in Ids \ ChainIds BY <1>0 DEF Go, Ids, ChainIds, First, Later
  <1>8. /\ c \in CallState /\ c.pc \in {"goWait", "verify"} /\ c.step = o.step
        /\ c.pc = "goWait" => c.waiter = "open"
        /\ c.pc = "verify" => c.waiter = "none"
        /\ c.stale = o.stale /\ c.does = o.does /\ c.tries = o.tries
    BY <1>0, <1>1, <1>6 DEF CallState, PC
  <1>9. /\ call' \in [Calls -> CallState] /\ call'[t] = c
        /\ \A u \in Calls : u # t => call'[u] = call[u]
    BY <1>1, <1>2, <1>8 DEF TypeOK
  <1>10. out \in Seq(Ids) /\ (out' = out \/ out' = Append(out, g)) BY <1>1, <1>2 DEF Transmit, TypeOK
  <1>11. \A S \in SUBSET ChainIds : Has(out', S) => Has(out, S) BY <1>7, <1>10, AppendHas
  <1>12. \A A, S \in SUBSET ChainIds : NoneAfter(out, A, S) => NoneAfter(out', A, S)
    BY ZenonT(60), <1>7, <1>10, AppendNone
  <1>13. \A S \in SUBSET ChainIds : InFlight(S)' => InFlight(S) BY <1>2, <1>11 DEF InFlight
  <1>14. First \in SUBSET ChainIds /\ Later \in SUBSET ChainIds /\ ChainIds \in SUBSET ChainIds
    BY FramesOf
  <1>15. NothingAfter(First, Later)' BY <1>2, <1>5, <1>11, <1>12, <1>14 DEF NothingAfter
  <1>16. /\ InFlight(First)' => InFlight(First)
         /\ InFlight(Later)' => InFlight(Later)
         /\ InFlight(ChainIds)' => InFlight(ChainIds)
    BY <1>13, <1>14
  <1>17. TypeOK'
    <2>1. out' \in Seq(Ids) BY <1>7, <1>10, AppendProperties
    <2>2. faults' \in 0 .. MaxFaults
      <3>1. faults' = faults \/ (faults < MaxFaults /\ faults' = faults + 1) BY <1>2 DEF Transmit
      <3> QED BY <1>1, <3>1, RecipeChainAssumption DEF TypeOK
    <2> QED BY <1>1, <1>2, <1>9, <2>1, <2>2 DEF TypeOK
  <1>18. OneInv' BY <1>4, <1>9 DEF OneInv, Active
  <1>19. Fine(c)'
    <2>1. ~Open(c) /\ ~Echoed(c) BY <1>8 DEF Open, Echoed
    <2>2. CallInv(c)' BY <1>2, <1>6, <1>8 DEF CallInv, Past
    <2>3. LinkInv(c)' BY <1>2, <1>6, <1>8 DEF LinkInv
    <2>4. TakenInv(c)' BY <1>1, <1>2, <1>8, <2>1 DEF Fine, TakenInv, Past, Open, Echoed
    <2>5. ShapeInv(c)' BY <1>1, <1>2, <1>8, <1>16, <2>1 DEF Fine, ShapeInv, Past, Open, Echoed
    <2>6. OnTimeInv(c)' BY <2>1 DEF OnTimeInv, Open
    <2> QED BY <2>2, <2>3, <2>4, <2>5, <2>6 DEF Fine
  <1>20. ASSUME NEW u \in Calls PROVE Fine(call[u])'
    <2>1. CASE u = t BY <1>9, <1>19, <2>1
    <2>2. CASE u # t
      <3> DEFINE d == call[u]
      <3>1. d.pc \in {"idle", "ok", "failed"} /\ Fine(d) /\ d' = d BY <1>4, <1>9, <2>2 DEF IInv
      <3> HIDE DEF d
      <3>2. ~Open(d)' /\ ~Echoed(d)' BY <3>1 DEF Open, Echoed
      <3>3. CallInv(d)' BY <3>1 DEF Fine, CallInv
      <3>4. LinkInv(d)' /\ TakenInv(d)' /\ ShapeInv(d)' /\ OnTimeInv(d)'
        BY <3>1, <3>2 DEF LinkInv, TakenInv, ShapeInv, OnTimeInv, Past
      <3>5. Fine(d)' BY <3>3, <3>4 DEF Fine
      <3> QED BY <3>5 DEF d
    <2> QED BY <2>1, <2>2
  <1>21. WireInv'
    <2>1. (late = 0 => ~InFlight(ChainIds))' BY <1>2, <1>5, <1>16
    <2>2. (~link)' => FALSE BY <1>2, <1>6
    <2>3. Has(in, First)' => taken' >= 1 BY <1>1, <1>2 DEF WireInv
    <2> QED BY <1>15, <2>1, <2>2, <2>3 DEF WireInv
  <1> QED BY <1>17, <1>18, <1>20, <1>21 DEF IInv

-----------------------------------------------------------------------------
(* The inductive invariant *)

LEMMA InitHolds == Init => IInv
  <1> SUFFICES ASSUME Init PROVE IInv OBVIOUS
  <1>1. in = << >> /\ out = << >> /\ taken = 0 /\ late = 0 /\ link
        /\ \A t \in Calls : call[t] = IdleCall
    BY DEF Init
  <1>2. /\ IdleCall \in CallState /\ IdleCall.pc = "idle" /\ IdleCall.tries = 0
        /\ IdleCall.waiter = "none"
    <2>1. (CHOOSE k \in Kinds : TRUE) \in Kinds BY RecipeChainAssumption
    <2>2. "idle" \in PC /\ 1 \in 1 .. Steps + 1 /\ 0 \in 0 .. MaxTries
      BY RecipeChainAssumption DEF PC, Steps
    <2>3. IdleCall \in CallState BY <2>1, <2>2, Record DEF IdleCall
    <2> QED BY <2>3 DEF IdleCall
  <1>3. TypeOK
    <2>1. call \in [Calls -> CallState] BY <1>2 DEF Init
    <2>2. 0 \in 0 .. Steps /\ 0 \in 0 .. MaxFaults /\ 0 \in 0 .. MaxLate
      BY RecipeChainAssumption DEF Steps
    <2>3. << >> \in Seq(Ids) /\ << >> \in Seq(Ids \cup Labels \cup {"awake", "asleep", "other"})
      BY EmptySeq
    <2>4. link \in BOOLEAN /\ asleep \in BOOLEAN /\ dozing \in BOOLEAN /\ brewing \in BOOLEAN
      BY DEF Init
    <2> QED BY <2>1, <2>2, <2>3, <2>4 DEF Init, TypeOK
  <1>4. \A S : ~InFlight(S) BY <1>1 DEF InFlight, Has
  <1>5. \A A, S : NothingAfter(A, S) BY <1>4, NoneInFlight
  <1>6. OneInv BY <1>1, <1>2 DEF OneInv, Active
  <1>7. WireInv BY <1>1, <1>4, <1>5 DEF WireInv, InFlight
  <1>8. \A t \in Calls : Fine(call[t])
    <2> SUFFICES Fine(IdleCall) BY <1>1
    <2>1. CallInv(IdleCall) BY <1>2 DEF CallInv, Past
    <2>2. LinkInv(IdleCall) /\ TakenInv(IdleCall) /\ ShapeInv(IdleCall) /\ OnTimeInv(IdleCall)
      BY <1>2 DEF LinkInv, TakenInv, ShapeInv, OnTimeInv, Open, Echoed, Past
    <2> QED BY <2>1, <2>2 DEF Fine
  <1> QED BY <1>3, <1>6, <1>7, <1>8 DEF IInv

LEMMA StutterKeeps ==
  ASSUME IInv, UNCHANGED vars
  PROVE  IInv'
  <1>1. UNCHANGED <<call, armed, link, asleep, label, out, in, dozing, staged, brewing, faults, late, taken>>
    BY DEF vars, client, wire, machine
  <1>2. TypeOK' BY <1>1 DEF IInv, TypeOK
  <1>3. OneInv' BY <1>1 DEF IInv, OneInv, Active
  <1>4. \A S : InFlight(S)' = InFlight(S) BY <1>1 DEF InFlight
  <1>5. \A A, S : NothingAfter(A, S)' = NothingAfter(A, S) BY <1>1 DEF NothingAfter
  <1>6. WireInv' BY <1>1, <1>4, <1>5 DEF IInv, WireInv, Open
  <1>7. ASSUME NEW u \in Calls PROVE Fine(call[u])'
    <2> DEFINE d == call[u]
    <2>1. Fine(d) /\ d' = d BY <1>1 DEF IInv
    <2> HIDE DEF d
    <2>2. CallInv(d)' BY <2>1 DEF Fine, CallInv
    <2>3. LinkInv(d)' BY <1>1, <1>4, <2>1 DEF Fine, LinkInv
    <2>4. TakenInv(d)' BY <1>1, <2>1 DEF Fine, TakenInv, Open, Echoed, Cmd
    <2>5. ShapeInv(d)' BY <1>4, <1>5, <2>1 DEF Fine, ShapeInv, Open, Echoed, Cmd
    <2>6. OnTimeInv(d)' BY <1>1, <1>4, <1>5, <2>1 DEF Fine, OnTimeInv, Open, Cmd
    <2>7. Fine(d)' BY <2>2, <2>3, <2>4, <2>5, <2>6 DEF Fine
    <2> QED BY <2>7 DEF d
  <1> QED BY <1>2, <1>3, <1>6, <1>7 DEF IInv

LEMMA StepHolds ==
  ASSUME ~Overlap, MaxLate <= 1, IInv, [Next]_vars
  PROVE  IInv'
  <1>1. ASSUME NEW t \in Calls, Load(t) \/ Confirm(t) PROVE IInv' BY <1>1, BeginKeeps
  <1>2. ASSUME NEW t \in Calls, CallStep(t) PROVE IInv'
    <2>1. CASE Wake(t) BY <2>1, WakeKeeps
    <2>2. CASE Attempt(t) BY <2>2, AttemptKeeps
    <2>3. CASE SendStep(t) BY <2>3, SendStepKeeps
    <2>4. CASE StepDone(t) BY <2>4, StepDoneKeeps
    <2>5. CASE SendGo(t) BY <2>5, SendGoKeeps
    <2>6. CASE GoAcked(t) \/ Verified(t) BY <2>6, StartedKeeps
    <2>7. CASE Fails(t) BY <2>7, FailsKeeps
    <2>8. CASE TimedOut(t) BY <2>8, TimedOutKeeps
    <2>9. CASE Ended(t) BY <2>9, EndedKeeps
    <2> QED BY <1>2, <2>1, <2>2, <2>3, <2>4, <2>5, <2>6, <2>7, <2>8, <2>9 DEF CallStep
  <1>3. CASE MachineTakes BY <1>3, TakesKeeps
  <1>4. CASE BrewEnds \/ FallsAsleep BY <1>4, MachineKeeps
  <1>5. CASE Notified BY <1>5, NotifiedKeeps
  <1>6. CASE Drop BY <1>6, DropKeeps
  <1>7. CASE Reconnect BY <1>7, ReconnectKeeps
  <1>8. CASE UNCHANGED vars BY <1>8, StutterKeeps
  <1> QED BY <1>1, <1>2, <1>3, <1>4, <1>5, <1>6, <1>7, <1>8 DEF Next

-----------------------------------------------------------------------------
(* The refinement of RecipeOrder *)

Mapped == [t \in Calls |-> OrderOf(call[t])]

\* A step that moves one call moves it in the abstract specification.
LEMMA MapsOne ==
  ASSUME TypeOK, NEW t \in Calls, NEW c, call' = [call EXCEPT ![t] = c]
  PROVE  /\ Mapped' = [Mapped EXCEPT ![t] = OrderOf(c)]
         /\ OrderOf(c) = OrderOf(call[t]) => Mapped' = Mapped
         /\ Mapped[t] = OrderOf(call[t])
  <1>1. call'[t] = c /\ \A u \in Calls : u # t => call'[u] = call[u] BY DEF TypeOK
  <1>2. \A u \in Calls : Mapped[u] = OrderOf(call[u]) BY DEF Mapped
  <1>3. Mapped' = [u \in Calls |-> OrderOf(call'[u])] BY DEF Mapped
  <1>4. Mapped' = [Mapped EXCEPT ![t] = OrderOf(c)]
    <2>1. [Mapped EXCEPT ![t] = OrderOf(c)] = [u \in Calls |-> IF u = t THEN OrderOf(c) ELSE Mapped[u]]
      BY DEF Mapped
    <2> QED BY <1>1, <1>2, <1>3, <2>1
  <1>5. ASSUME OrderOf(c) = OrderOf(call[t]) PROVE Mapped' = Mapped
    BY <1>1, <1>3, <1>5 DEF Mapped
  <1> QED BY <1>2, <1>4, <1>5

LEMMA OrderInit == Init => Order!Init
  <1> SUFFICES ASSUME Init PROVE Order!Init OBVIOUS
  <1>1. OrderOf(IdleCall) = "idle" BY DEF OrderOf, IdleCall
  <1>2. \A t \in Calls : call[t] = IdleCall BY DEF Init
  <1> QED BY <1>1, <1>2 DEF Init, Order!Init

LEMMA CallMaps ==
  ASSUME IInv, NEW t \in Calls, Load(t) \/ Confirm(t) \/ CallStep(t)
  PROVE  [Order!Next]_<<Mapped, taken>>
  <1> DEFINE o == call[t]
  <1>1. o \in CallState /\ CallInv(o) /\ TypeOK BY DEF IInv, TypeOK, Fine
  <1>2. CASE Load(t) \/ Confirm(t)
    <2>1. PICK d, k, p : /\ p \in {"wake", "start"}
                         /\ call' = [call EXCEPT ![t] = [IdleCall EXCEPT !.does = d, !.kind = k,
                                                          !.wasDown = asleep, !.pc = p]]
      BY <1>2 DEF Load, Confirm
    <2> DEFINE c == [IdleCall EXCEPT !.does = d, !.kind = k, !.wasDown = asleep, !.pc = p]
    <2>2. c.pc = p /\ c.tries = 0 BY DEF IdleCall
    <2>3. OrderOf(c) = "idle" BY <2>1, <2>2 DEF OrderOf
    <2>4. OrderOf(o) = "idle"
      <3>1. o.pc = "idle" BY <1>2 DEF Load, Confirm, MayBegin, At
      <3> QED BY <1>1, <3>1 DEF OrderOf, CallInv
    <2>5. call' = [call EXCEPT ![t] = c] BY <2>1
    <2> HIDE DEF c
    <2>6. taken' = taken BY <1>2 DEF Load, Confirm
    <2> QED BY <1>1, <2>3, <2>4, <2>5, <2>6, MapsOne
  <1>3. CASE Wake(t)
    <2>1. /\ call'[t].pc = "start" /\ call'[t].tries = 0
          /\ \A u \in Calls : u # t => call'[u] = call[u]
      BY <1>3, WakesOne
    <2>2. o.pc = "wake" /\ o.tries = 0 BY <1>1, <1>3 DEF Wake, At, CallInv
    <2>3. taken' = taken \/ taken' = 0 BY <1>3 DEF Wake, FreshLink
    <2>4. OrderOf(o) = "idle" /\ OrderOf(call'[t]) = "idle" BY <2>1, <2>2 DEF OrderOf
    <2>5. \A u \in Calls : OrderOf(call'[u]) = OrderOf(call[u]) BY <2>1, <2>4
    <2>6. Mapped' = Mapped BY <2>5 DEF Mapped
    <2> QED BY <2>3, <2>6 DEF Order!Next, Order!Clear, Mapped
  <1>4. CASE Attempt(t)
    <2> DEFINE p == IF o.does = "confirm" THEN "go" ELSE "send"
               c == [o EXCEPT !.pc = p, !.step = 1, !.tries = o.tries + 1, !.waiter = "none",
                              !.stale = ~link]
    <2>1. call' = [call EXCEPT ![t] = c] /\ taken' = taken BY <1>4 DEF Attempt
    <2>2. c.pc \in {"go", "send"} /\ c.step = 1 /\ c.tries = o.tries + 1 BY <1>1 DEF CallState
    <2>3. OrderOf(c) = "loading" BY <2>2 DEF OrderOf, Steps
    <2> HIDE DEF c
    <2>4. Mapped' = [Mapped EXCEPT ![t] = "loading"] BY <1>1, <2>1, <2>3, MapsOne
    <2> QED BY <2>1, <2>4 DEF Order!Next, Order!Begin, Mapped
  <1>5. CASE SendStep(t) \/ SendGo(t) \/ GoAcked(t) \/ Verified(t)
    <2>1. PICK p \in {"wait", "goWait", "verify", "ended"}, w \in {"open", "none", o.waiter} :
            call' = [call EXCEPT ![t] = [o EXCEPT !.pc = p, !.waiter = w]]
      <3>1. o = [o EXCEPT !.waiter = o.waiter] BY <1>1 DEF CallState
      <3>2. \A q : [o EXCEPT !.pc = q] = [o EXCEPT !.pc = q, !.waiter = o.waiter]
        BY <1>1 DEF CallState
      <3>3. CASE SendStep(t) BY <3>3 DEF SendStep
      <3>4. CASE GoAcked(t) BY <3>4 DEF GoAcked
      <3>5. CASE Verified(t) BY <3>2, <3>5 DEF Verified, Goes
      <3>6. CASE SendGo(t) BY <3>2, <3>6 DEF SendGo, Goes
      <3> QED BY <1>5, <3>3, <3>4, <3>5, <3>6
    <2>2. o.pc \in {"send", "go", "goWait", "verify"} /\ taken' = taken
      BY <1>5 DEF SendStep, SendGo, GoAcked, Verified, At
    <2> DEFINE c == [o EXCEPT !.pc = p, !.waiter = w]
    <2>3. c.pc = p /\ c.step = o.step /\ c.tries = o.tries BY <1>1 DEF CallState
    <2>4. OrderOf(c) = OrderOf(o) BY <2>1, <2>2, <2>3 DEF OrderOf
    <2>5. call' = [call EXCEPT ![t] = c] BY <2>1
    <2> HIDE DEF c
    <2> QED BY <1>1, <2>2, <2>4, <2>5, MapsOne
  <1>6. CASE StepDone(t)
    <2> DEFINE p == IF o.step < Steps THEN "send" ELSE IF o.does = "execute" THEN "go" ELSE "ended"
               c == [o EXCEPT !.pc = p, !.step = o.step + 1, !.waiter = "none"]
    <2>1. o.pc = "wait" /\ o.waiter = "echoed" /\ call' = [call EXCEPT ![t] = c] /\ taken' = taken
      BY <1>6 DEF StepDone, At
    <2>2. c.pc \in {"send", "go", "ended"} /\ c.step = o.step + 1 BY <1>1 DEF CallState
    <2>3. o.step \in 1 .. Steps BY <1>1, <2>1 DEF CallInv
    <2>4. OrderOf(o) = "loading" BY <2>1, <2>3 DEF OrderOf, Steps
    <2>5. OrderOf(c) = IF o.step = Steps THEN "loaded" ELSE "loading"
      BY <2>2, <2>3 DEF OrderOf, Steps
    <2> HIDE DEF c, p
    <2>6. CASE o.step # Steps BY <1>1, <2>1, <2>4, <2>5, <2>6, MapsOne
    <2>7. CASE o.step = Steps
      <3>1. taken = Steps
        <4>1. taken >= o.step BY <2>1 DEF IInv, Fine, TakenInv, Echoed
        <4> QED BY <1>1, <2>7, <4>1 DEF TypeOK, Steps
      <3>2. Mapped' = [Mapped EXCEPT ![t] = "loaded"] /\ Mapped[t] = "loading"
        BY ZenonT(60), <1>1, <2>1, <2>4, <2>5, <2>7, MapsOne
      <3> QED BY <2>1, <3>1, <3>2 DEF Order!Next, Order!Loaded, Mapped
    <2> QED BY <2>6, <2>7
  <1>7. CASE Fails(t) \/ TimedOut(t)
    <2>1. PICK p \in {"start", "failed"} :
            call' = [call EXCEPT ![t] = [o EXCEPT !.pc = p, !.waiter = "none"]]
      BY <1>7 DEF Fails, TimedOut
    <2>2. o.pc \in {"send", "go", "verify", "wait", "goWait"} /\ taken' = taken
      BY <1>7 DEF Fails, TimedOut, At
    <2> DEFINE c == [o EXCEPT !.pc = p, !.waiter = "none"]
    <2>3. c.pc = p /\ c.step = o.step /\ c.tries = o.tries BY <1>1 DEF CallState
    <2>4. o.tries > 0 /\ o.tries \in Nat /\ o.step \in 1 .. Steps + 1
      BY <1>1, <2>2, RecipeChainAssumption DEF CallInv, Past, CallState
    <2>5. OrderOf(o) = IF o.step > Steps THEN "loaded" ELSE "loading"
      BY <2>2, <2>4 DEF OrderOf, Steps
    <2>6. \/ OrderOf(c) = OrderOf(o)
          \/ OrderOf(o) = "loading" /\ OrderOf(c) = "failed"
      BY <2>1, <2>3, <2>4, <2>5 DEF OrderOf, Steps
    <2>7. call' = [call EXCEPT ![t] = c] BY <2>1
    <2> HIDE DEF c
    <2>8. CASE OrderOf(c) = OrderOf(o) BY <1>1, <2>2, <2>7, <2>8, MapsOne
    <2>9. CASE OrderOf(o) = "loading" /\ OrderOf(c) = "failed"
      <3>1. Mapped' = [Mapped EXCEPT ![t] = "failed"] /\ Mapped[t] = "loading"
        BY <1>1, <2>7, <2>9, MapsOne
      <3> QED BY <2>2, <3>1 DEF Order!Next, Order!Fail, Mapped
    <2> QED BY <2>6, <2>8, <2>9
  <1>8. CASE Ended(t)
    <2>1. PICK p \in {"start", "ok"} : call' = [call EXCEPT ![t] = [o EXCEPT !.pc = p]]
      BY <1>8 DEF Ended, Goes
    <2>2. o.pc = "ended" /\ taken' = taken BY <1>8 DEF Ended, At
    <2> DEFINE c == [o EXCEPT !.pc = p]
    <2>3. c.pc = p /\ c.step = o.step /\ c.tries = o.tries BY <1>1 DEF CallState
    <2>4. o.tries > 0 /\ o.tries \in Nat
      BY <1>1, <2>2, RecipeChainAssumption DEF CallInv, Past, CallState
    <2>5. OrderOf(c) = OrderOf(o) BY <2>1, <2>2, <2>3, <2>4 DEF OrderOf
    <2>6. call' = [call EXCEPT ![t] = c] BY <2>1
    <2> HIDE DEF c
    <2> QED BY <1>1, <2>2, <2>5, <2>6, MapsOne
  <1> QED BY <1>2, <1>3, <1>4, <1>5, <1>6, <1>7, <1>8 DEF CallStep

\* The machine takes the next step of a chain, or the first one again.
LEMMA TakesMaps ==
  ASSUME IInv, MachineTakes
  PROVE  [Order!Next]_<<Mapped, taken>>
  <1>1. TypeOK /\ Mapped' = Mapped BY DEF IInv, MachineTakes, Mapped
  <1>2. CASE taken' = taken BY <1>1, <1>2
  <1>3. CASE taken' # taken
    <2> DEFINE k == StepOf(Head(out))
    <2>1. taken' = IF k \in {1, taken + 1} THEN k ELSE taken BY <1>1, <1>3, TakeCounts
    <2>2. taken' \in 0 .. Steps BY <1>1, TakenGrows
    <2>3. taken \in 0 .. Steps BY <1>1 DEF TypeOK
    <2> HIDE DEF k
    <2>4. taken' \in {1, taken + 1} BY <1>3, <2>1
    <2>5. taken' \in 1 .. Steps BY <2>2, <2>3, <2>4 DEF Steps
    <2> QED BY <1>1, <2>4, <2>5 DEF Order!Next, Order!Take, Mapped
  <1> QED BY <1>2, <1>3

LEMMA OrderStep ==
  ASSUME IInv, [Next]_vars
  PROVE  [Order!Next]_<<Mapped, taken>>
  <1>1. ASSUME NEW t \in Calls, Load(t) \/ Confirm(t) \/ CallStep(t)
        PROVE  [Order!Next]_<<Mapped, taken>>
    BY <1>1, CallMaps
  <1>2. CASE MachineTakes BY <1>2, TakesMaps
  <1>3. CASE BrewEnds \/ FallsAsleep
    <2>1. call' = call /\ taken' = taken BY <1>3 DEF BrewEnds, FallsAsleep
    <2> QED BY <2>1 DEF Mapped
  <1>4. CASE Notified \/ Drop
    <2>1. taken' = taken BY <1>4 DEF Notified, Drop
    <2>2. ASSUME NEW t \in Calls PROVE OrderOf(call'[t]) = OrderOf(call[t])
      <3>1. call[t] \in CallState BY DEF IInv, TypeOK
      <3>2. CASE Notified
        <4>1. call'[t] \in {call[t], [call[t] EXCEPT !.waiter = "echoed"]} BY <3>2 DEF Notified
        <4>2. /\ call'[t].pc = call[t].pc /\ call'[t].step = call[t].step
              /\ call'[t].tries = call[t].tries
          BY <3>1, <4>1 DEF CallState
        <4> QED BY <4>2 DEF OrderOf
      <3>3. CASE Drop
        <4> DEFINE d == [call[t] EXCEPT !.stale = @ \/ Active(t),
                                        !.waiter = IF @ = "open" THEN "gone" ELSE @]
        <4>1. call'[t] = d BY <3>3 DEF Drop, Lost
        <4>2. d.pc = call[t].pc /\ d.step = call[t].step /\ d.tries = call[t].tries
          BY <3>1 DEF CallState
        <4> HIDE DEF d
        <4> QED BY <4>1, <4>2 DEF OrderOf
      <3> QED BY <1>4, <3>2, <3>3
    <2>3. Mapped' = Mapped BY <2>2 DEF Mapped
    <2> QED BY <2>1, <2>3
  <1>5. CASE Reconnect
    <2>1. call' = call /\ taken' = 0 BY <1>5 DEF Reconnect, FreshLink
    <2>2. Mapped' = Mapped BY <2>1 DEF Mapped
    <2> QED BY <2>1, <2>2 DEF Order!Next, Order!Clear, Mapped
  <1>6. CASE UNCHANGED vars BY <1>6 DEF vars, Mapped
  <1> QED BY <1>1, <1>2, <1>3, <1>4, <1>5, <1>6 DEF Next

-----------------------------------------------------------------------------
(* The theorems *)

\* One call at a time and one late echo: the inductive invariant holds.
THEOREM ChainInvariant == ASSUME ~Overlap, MaxLate <= 1 PROVE Spec => []IInv
  <1>1. IInv /\ [Next]_vars => IInv' BY StepHolds
  <1> QED BY <1>1, InitHolds, PTL DEF Spec

\* _ack_step: a chain advances past a step only if the machine took it, and all
\* the steps before it, however many commands and echoes were lost, however
\* often the link dropped or the chain was repeated for a sleeping machine.
THEOREM StepsInOrder == ASSUME ~Overlap, MaxLate <= 1 PROVE Spec => []NoStepSkipped
  <1>1. IInv => NoStepSkipped
    BY DEF IInv, Fine, TakenInv, NoStepSkipped, Past
  <1> QED BY <1>1, ChainInvariant, PTL

\* The chain implements RecipeOrder: what it reports as loaded, the machine took
\* completely and in order.
THEOREM ChainKeepsOrder == ASSUME ~Overlap, MaxLate <= 1 PROVE Spec => KeepsOrder
  <1>1. IInv /\ [Next]_vars => [Order!Next]_<<Mapped, taken>> BY OrderStep
  <1>2. Spec => []IInv BY ChainInvariant
  <1>3. Init => Order!Init BY OrderInit
  <1> QED BY <1>1, <1>2, <1>3, PTL DEF Spec, KeepsOrder, Order!Spec, Mapped
=============================================================================
