--------------------------- MODULE BrowserPoolProofs ---------------------------
(* What BrowserPool keeps for every number of clients, browsers and slots,    *)
(* every limit on scans and any number of switches: its counters are true, no *)
(* browser of an older image is kept, Close leaves none, and the pool is an   *)
(* implementation of Leases.                                                  *)
EXTENDS BrowserPool, TLAPS, FiniteSetTheorems, SequenceTheorems

-----------------------------------------------------------------------------
(* The lists of browsers: the idle stack, what Switch retires, what Close     *)
(* closes.  None names a browser twice.                                       *)

Unique(s) == \A i, j \in 1 .. Len(s) : s[i] = s[j] => i = j

\* The loops of Switch and Close take the first browser off their list.
LEMMA TailOfList ==
    ASSUME NEW s \in Seq(Browsers), s # <<>>, Unique(s)
    PROVE  /\ Head(s) \in Browsers /\ Head(s) \in ToSet(s)
           /\ Tail(s) \in Seq(Browsers) /\ Unique(Tail(s))
           /\ ToSet(Tail(s)) = ToSet(s) \ {Head(s)}
<1>1. Len(s) \in Nat \ {0} /\ Head(s) = s[1] /\ DOMAIN s = 1 .. Len(s)
  BY EmptySeq, LenProperties
<1>2. /\ Head(s) \in Browsers /\ Tail(s) \in Seq(Browsers) /\ Len(Tail(s)) = Len(s) - 1
      /\ \A i \in 1 .. Len(Tail(s)) : Tail(s)[i] = s[i + 1]
  BY HeadTailProperties
<1>3. DOMAIN Tail(s) = 1 .. Len(s) - 1
  BY <1>2, LenProperties
<1>4. Head(s) \in ToSet(s)
  BY <1>1 DEF ToSet
<1>5. Unique(Tail(s))
  <2> SUFFICES ASSUME NEW i \in 1 .. Len(Tail(s)), NEW j \in 1 .. Len(Tail(s)), Tail(s)[i] = Tail(s)[j]
               PROVE  i = j
    BY DEF Unique
  <2>1. i + 1 \in 1 .. Len(s) /\ j + 1 \in 1 .. Len(s) /\ s[i + 1] = s[j + 1]
    BY <1>1, <1>2
  <2>2. QED
    BY <2>1 DEF Unique
<1>6. ASSUME NEW b \in ToSet(Tail(s)) PROVE b \in ToSet(s) \ {Head(s)}
  <2>1. PICK i \in 1 .. Len(s) - 1 : b = Tail(s)[i]
    BY <1>3 DEF ToSet
  <2>2. i + 1 \in 1 .. Len(s) /\ b = s[i + 1] /\ i + 1 # 1 /\ 1 \in 1 .. Len(s)
    BY <1>1, <1>2, <2>1
  <2>3. QED
    BY <1>1, <2>2 DEF ToSet, Unique
<1>7. ASSUME NEW b \in ToSet(s), b # Head(s) PROVE b \in ToSet(Tail(s))
  <2>1. PICK i \in 1 .. Len(s) : b = s[i]
    BY <1>1 DEF ToSet
  <2>2. i - 1 \in 1 .. Len(s) - 1 /\ Tail(s)[i - 1] = b
    BY <1>1, <1>2, <1>7, <2>1
  <2>3. QED
    BY <1>3, <2>2 DEF ToSet
<1>8. QED
  BY <1>2, <1>4, <1>5, <1>6, <1>7

\* take pops the top of the idle stack.
LEMMA FrontOfList ==
    ASSUME NEW s \in Seq(Browsers), s # <<>>, Unique(s)
    PROVE  /\ Last(s) \in Browsers /\ Last(s) \in ToSet(s)
           /\ Front(s) \in Seq(Browsers) /\ Unique(Front(s))
           /\ ToSet(Front(s)) = ToSet(s) \ {Last(s)}
<1>1. Len(s) \in Nat \ {0} /\ DOMAIN s = 1 .. Len(s) /\ Len(s) \in 1 .. Len(s)
  BY EmptySeq, LenProperties
<1>2. /\ Front(s) \in Seq(Browsers) /\ Len(Front(s)) = Len(s) - 1
      /\ \A i \in 1 .. Len(s) - 1 : Front(s)[i] = s[i]
  <2>1. \A i \in 1 .. Len(s) - 1 : s[i] \in Browsers
    BY <1>1, ElementOfSeq
  <2>2. Len(s) - 1 \in Int /\ 1 \in Int
    BY <1>1
  <2>3. /\ SubSeq(s, 1, Len(s) - 1) \in Seq(Browsers)
        /\ Len(SubSeq(s, 1, Len(s) - 1)) = IF 1 <= Len(s) - 1 THEN Len(s) - 1 - 1 + 1 ELSE 0
        /\ \A i \in 1 .. Len(s) - 1 - 1 + 1 : SubSeq(s, 1, Len(s) - 1)[i] = s[1 + i - 1]
    BY <2>1, <2>2, SubSeqProperties
  <2>4. QED
    BY <1>1, <2>3 DEF Front
<1>3. DOMAIN Front(s) = 1 .. Len(s) - 1
  BY <1>2, LenProperties
<1>4. Last(s) = s[Len(s)] /\ Last(s) \in Browsers /\ Last(s) \in ToSet(s)
  BY <1>1, ElementOfSeq DEF ToSet, Last
<1>5. Unique(Front(s))
  BY <1>1, <1>2 DEF Unique
<1>6. ToSet(Front(s)) = ToSet(s) \ {Last(s)}
  BY <1>1, <1>2, <1>3, <1>4 DEF ToSet, Unique
<1>7. QED
  BY <1>2, <1>4, <1>5, <1>6

\* put pushes a browser the stack does not hold.
LEMMA AppendToList ==
    ASSUME NEW s \in Seq(Browsers), Unique(s), NEW b \in Browsers, b \notin ToSet(s)
    PROVE  /\ Append(s, b) \in Seq(Browsers) /\ Unique(Append(s, b))
           /\ ToSet(Append(s, b)) = ToSet(s) \cup {b}
<1>1. /\ Append(s, b) \in Seq(Browsers) /\ Len(Append(s, b)) = Len(s) + 1 /\ Len(s) \in Nat
      /\ DOMAIN Append(s, b) = 1 .. Len(s) + 1 /\ DOMAIN s = 1 .. Len(s)
      /\ Append(s, b)[Len(s) + 1] = b
      /\ \A i \in 1 .. Len(s) : Append(s, b)[i] = s[i]
  BY LenProperties
<1>2. Unique(Append(s, b))
  BY <1>1 DEF Unique, ToSet
<1>3. ToSet(Append(s, b)) = ToSet(s) \cup {b}
  BY <1>1 DEF ToSet
<1>4. QED
  BY <1>1, <1>2, <1>3

\* A list after its last browser.
LEMMA EmptyList == ToSet(<<>>) = {} /\ Unique(<<>>) /\ <<>> \in Seq(Browsers)
BY DEF ToSet, Unique

\* A list that names no browser twice is as long as the set of its browsers.
LEMMA ListCount ==
    ASSUME NEW s \in Seq(Browsers), Unique(s)
    PROVE  IsFiniteSet(ToSet(s)) /\ Cardinality(ToSet(s)) = Len(s) /\ ToSet(s) \subseteq Browsers
<1>1. Len(s) \in Nat /\ s \in [1 .. Len(s) -> Browsers] /\ DOMAIN s = 1 .. Len(s)
  BY LenProperties
<1>2. ToSet(s) \subseteq Browsers
  BY <1>1 DEF ToSet
<1>3. s \in Bijection(1 .. Len(s), ToSet(s))
  BY <1>1 DEF ToSet, Unique, Bijection, Injection, Surjection, IsInjective
<1>4. IsFiniteSet(1 .. Len(s)) /\ Cardinality(1 .. Len(s)) = Len(s)
  BY <1>1, FS_Interval
<1>5. QED
  BY <1>2, <1>3, <1>4, FS_Bijection DEF ExistsBijection

-----------------------------------------------------------------------------
(* What the clients hold, where every browser is, and what the counters say.  *)

Bare == {"wait", "take", "launch", "leave"}
\* A browser is in the hands of a client that is past take.
Hands == \A c \in Clients : IF client[c].at \in Bare THEN client[c].has = {}
                            ELSE \E b \in Browsers : client[c].has = {b}

\* The clients that have a slot.
Away == {c \in Clients : client[c].at # "wait"}
\* The browsers the pool counts.
Kept == Held \cup Elsewhere
\* No browser is in two places.
Apart ==
    /\ \A c, d \in Clients : c # d => client[c].has \cap client[d].has = {}
    /\ \A c \in Clients : client[c].has \cap Elsewhere = {}
    /\ ToSet(idle) \cap ToSet(retiring) = {}
    /\ ToSet(idle) \cap ToSet(closer.closes) = {}
    /\ ToSet(retiring) \cap ToSet(closer.closes) = {}
Once == Unique(idle) /\ Unique(retiring) /\ Unique(closer.closes)
\* A process runs exactly when someone has it, and one that does not has served nothing.
Known == \A b \in Browsers :
    /\ browser[b].state = "runs" <=> b \in Elsewhere \/ \E c \in Clients : b \in client[c].has
    /\ browser[b].state # "runs" => browser[b].scans = 0
\* live, as a number of browsers.
Counts == live = Cardinality(Kept)
\* Size tokens: in the channel, with Close, with a client.
Tokens == slots + closer.took + Cardinality(Away) = Size
\* How far Close is.
Closing ==
    /\ closer.at = "rest" => ~closed
    /\ closer.at # "rest" => closed
    /\ closer.at \in {"close", "done"} => closer.took = Size /\ idle = <<>>
    /\ closer.at # "close" => closer.closes = <<>>
\* See FreshStep.
Fresh == ~contexts => \A c \in Clients : client[c].at \in {"join", "open"} =>
    \A b \in client[c].has : browser[b].scans = 0

\* The three lists are lists of browsers.
Lists == idle \in Seq(Browsers) /\ retiring \in Seq(Browsers) /\ closer.closes \in Seq(Browsers)

\* take goes away empty handed, or with a browser that is no longer idle.
LEMMA TakeStep ==
    ASSUME TypeOK, Hands, Once, NEW c \in Clients, Take(c)
    PROVE  \/ /\ client'[c].at \in {"leave", "launch"} /\ client'[c].has = {} /\ idle' = idle
           \/ \E b \in ToSet(idle) \cap Browsers :
                 /\ client'[c].at = "vet" /\ client'[c].has = {b}
                 /\ idle' \in Seq(Browsers) /\ Unique(idle') /\ ToSet(idle') = ToSet(idle) \ {b}

<1>1. client[c].has = {} /\ client \in [Clients -> [at : Places, has : SUBSET Browsers, gen : 0..MaxGeneration]]
  BY DEF Take, At, Hands, Bare, TypeOK
<1>2. CASE idle' = idle /\ (Goes(c, "leave") \/ client' = [client EXCEPT ![c].at = "launch", ![c].gen = generation])
  BY <1>1, <1>2 DEF Goes
<1>3. CASE idle # <<>> /\ GoesWith(c, "vet", Last(idle)) /\ idle' = Front(idle)
  <2>1. idle \in Seq(Browsers) /\ Unique(idle)
    BY DEF TypeOK, Once
  <2>2. /\ Last(idle) \in Browsers /\ Last(idle) \in ToSet(idle)
        /\ Front(idle) \in Seq(Browsers) /\ Unique(Front(idle))
        /\ ToSet(Front(idle)) = ToSet(idle) \ {Last(idle)}
    BY <1>3, <2>1, FrontOfList
  <2>3. client'[c].at = "vet" /\ client'[c].has = {Last(idle)}
    BY <1>1, <1>3 DEF GoesWith
  <2>4. QED
    BY <1>3, <2>2, <2>3
<1>4. QED
  BY <1>2, <1>3 DEF Take

\* A client holds a browser exactly at the places where the code has one in hand.
LEMMA HandsStep ==
    ASSUME TypeOK, Hands, Once, [Next]_vars
    PROVE  Hands'
<1>0. \A c \in Clients : client[c] \in [at : Places, has : SUBSET Browsers, gen : 0..MaxGeneration]
  BY DEF TypeOK
<1>a. client \in [Clients -> [at : Places, has : SUBSET Browsers, gen : 0..MaxGeneration]]
  BY DEF TypeOK
<1>1. ASSUME NEW c \in Clients, TakeSlot(c) \/ LaunchFails(c) \/ Join(c) \/ Release(c) \/ ReturnSlot(c)
      PROVE  Hands'
  BY <1>a, <1>1 DEF TakeSlot, LaunchFails, Join, Release, ReturnSlot, At, Goes, Hands, Bare
<1>2. ASSUME NEW c \in Clients, Take(c) PROVE Hands'
  <2>1. \A d \in Clients \ {c} : client'[d] = client[d]
    BY <1>a, <1>2 DEF Take, Goes, GoesWith
  <2>2. QED
    BY <1>2, <2>1, TakeStep DEF Hands, Bare
<1>3. ASSUME NEW c \in Clients, NEW b \in Browsers, Vet(c, b) \/ Check(c, b) \/ Open(c, b) \/ Discard(c, b)
      PROVE  Hands'
  BY <1>a, <1>3 DEF Vet, Check, Open, Discard, At, Goes, Hands, Bare
<1>4. ASSUME NEW c \in Clients, NEW b \in Browsers,
             Launch(c, b) \/ Put(c, b) \/ CloseReturned(c, b) \/ Recycle(c, b) \/ Abandon(c, b)
      PROVE  Hands'
  BY <1>a, <1>4 DEF Launch, Put, CloseReturned, Recycle, Abandon, At, Goes, GoesWith, GoesWithout, Hands, Bare
<1>5. CASE client' = client
  BY <1>5 DEF Hands
<1>6. QED
  BY <1>1, <1>2, <1>3, <1>4, <1>5 DEF Next, ClientNext, Works, CloserNext, Switch, CloseRetired, StartClose, Drain,
     TakeIdle, CloseIdle, FinishClose, vars

-----------------------------------------------------------------------------
(* Each browser is in one place.                                              *)

Settled == Lists /\ Once /\ Apart /\ Known

\* A step that moves no browser leaves them apart.
LEMMA StaysPut ==
    ASSUME Settled, idle' = idle, retiring' = retiring, closer'.closes = closer.closes,
           \A c \in Clients : client'[c].has = client[c].has,
           \A b \in Browsers : /\ browser'[b].state = "runs" <=> browser[b].state = "runs"
                               /\ browser[b].state = "runs" \/ browser'[b].scans = browser[b].scans
    PROVE  Settled'
BY DEF Settled, Lists, Once, Apart, Known, Elsewhere

\* A client that only goes on keeps what it holds, and no other client moves.
LEMMA GoesKeeps ==
    ASSUME TypeOK, NEW c \in Clients, NEW place \in Places, Goes(c, place)
    PROVE  /\ client'[c].at = place
           /\ \A d \in Clients : client'[d].has = client[d].has
           /\ \A d \in Clients \ {c} : client'[d] = client[d]
BY DEF TypeOK, Goes

\* A launch that fails leaves no browser anyone has, and none of theirs changes.
LEMMA FailedLaunch ==
    ASSUME TypeOK, Settled, NEW c \in Clients, LaunchFails(c) \/ browser' = browser
    PROVE  /\ \A x \in Browsers : (browser'[x].state = "runs") <=> (browser[x].state = "runs")
           /\ \A x \in Browsers : browser'[x].scans = browser[x].scans
           /\ \A x \in Browsers : (browser[x].state = "runs") => (browser'[x] = browser[x])
<1>1. CASE browser' = browser
  BY <1>1
<1>2. ASSUME NEW b \in Browsers, browser[b].state = "none",
             browser' = [browser EXCEPT ![b] = [Blank EXCEPT !.state = "halfLaunched"]]
      PROVE  /\ \A x \in Browsers : (browser'[x].state = "runs") <=> (browser[x].state = "runs")
             /\ \A x \in Browsers : browser'[x].scans = browser[x].scans
             /\ \A x \in Browsers : (browser[x].state = "runs") => (browser'[x] = browser[x])
  <2>1. browser[b].state # "runs" /\ browser[b].scans = 0
    BY <1>2 DEF Settled, Known
  <2>2. browser'[b].state # "runs" /\ browser'[b].scans = 0
    BY <1>2 DEF Blank, TypeOK
  <2>3. \A x \in Browsers \ {b} : browser'[x] = browser[x]
    BY <1>2 DEF TypeOK
  <2>4. QED
    BY <2>1, <2>2, <2>3
<1>3. QED
  BY <1>1, <1>2 DEF LaunchFails

\* Every step leaves each running browser in exactly one place: one pair of hands,
\* the idle stack, or one of the lists that are being closed.
LEMMA SettledStep ==
    ASSUME TypeOK, Hands, Closing, Settled, [Next]_vars
    PROVE  Settled'
<1>0. /\ client \in [Clients -> [at : Places, has : SUBSET Browsers, gen : 0..MaxGeneration]]
      /\ browser \in [Browsers -> [state : States, gen : 0..MaxGeneration, scans : 0..MaxScans, dead : BOOLEAN]]
      /\ closer \in [at : {"rest", "drain", "close", "done"}, took : 0..Size, closes : Seq(Browsers)]
      /\ Lists
  BY DEF TypeOK, Lists
<1>1. ASSUME NEW c \in Clients, TakeSlot(c) \/ LaunchFails(c) \/ Join(c) \/ Release(c) \/ ReturnSlot(c)
      PROVE  Settled'
  <2>1. idle' = idle /\ retiring' = retiring /\ closer' = closer
    BY <1>1 DEF TakeSlot, LaunchFails, Join, Release, ReturnSlot, poolVars, ends
  <2>3. LaunchFails(c) \/ browser' = browser
    BY <1>1 DEF TakeSlot, Join, Release, ReturnSlot
  <2>4. \A x \in Browsers : (browser'[x].state = "runs") <=> (browser[x].state = "runs")
    BY <2>3, FailedLaunch
  <2>6. \A x \in Browsers : browser'[x].scans = browser[x].scans
    BY <2>3, FailedLaunch
  <2>2. \E place \in Places : Goes(c, place)
    BY <1>1 DEF TakeSlot, LaunchFails, Join, Release, ReturnSlot, Places
  <2>5. QED
    BY <2>1, <2>2, <2>4, <2>6, GoesKeeps, StaysPut
<1>2. ASSUME NEW c \in Clients, Take(c) PROVE Settled'
  <2>1. /\ retiring' = retiring /\ closer' = closer /\ browser' = browser
        /\ \A d \in Clients \ {c} : client'[d] = client[d]
        /\ client[c].has = {}
    BY <1>0, <1>2 DEF Take, Goes, GoesWith, ends, Hands, At, Bare
  <2>2. CASE client'[c].has = {} /\ idle' = idle
    <3>1. \A d \in Clients : client'[d].has = client[d].has
      BY <2>1, <2>2
    <3>2. QED
      BY <2>1, <2>2, <3>1, StaysPut
  <2>3. ASSUME NEW b \in ToSet(idle) \cap Browsers, client'[c].has = {b},
               idle' \in Seq(Browsers), Unique(idle'), ToSet(idle') = ToSet(idle) \ {b}
        PROVE  Settled'
    <3>1. Lists' /\ Once'
      BY <2>1, <2>3 DEF Settled, Lists, Once
    <3>2. Apart'
      BY <2>1, <2>3 DEF Settled, Apart, Elsewhere
    <3>3. Known'
      BY <2>1, <2>3 DEF Settled, Known, Elsewhere
    <3>4. QED
      BY <3>1, <3>2, <3>3 DEF Settled
  <2>4. QED
    BY <1>2, <2>2, <2>3, TakeStep DEF Settled
<1>3. ASSUME NEW c \in Clients, NEW b \in Browsers, Vet(c, b) \/ Check(c, b) \/ Open(c, b) \/ Discard(c, b)
      PROVE  Settled'
  <2>1. idle' = idle /\ retiring' = retiring /\ closer' = closer
    BY <1>3 DEF Vet, Check, Open, Discard, poolVars, ends
  <2>2. \E place \in Places : Goes(c, place)
    BY <1>3 DEF Vet, Check, Open, Discard, Places
  <2>3. browser[b].state = "runs"
    BY <1>3 DEF Vet, Check, Open, Discard, Settled, Known
  <2>4. /\ \A x \in Browsers \ {b} : browser'[x] = browser[x]
        /\ browser'[b].state = browser[b].state
    BY <1>0, <1>3 DEF Vet, Check, Open, Discard
  <2>5. QED
    BY <2>1, <2>2, <2>3, <2>4, GoesKeeps, StaysPut
<1>4. ASSUME NEW c \in Clients, NEW b \in Browsers, Launch(c, b) PROVE Settled'
  <2>1. /\ idle' = idle /\ retiring' = retiring /\ closer' = closer
        /\ client'[c].has = {b} /\ \A d \in Clients \ {c} : client'[d] = client[d]
        /\ browser'[b].state = "runs" /\ \A x \in Browsers \ {b} : browser'[x] = browser[x]
    BY <1>0, <1>4 DEF Launch, GoesWith, poolVars, ends, Blank
  <2>2. b \notin Elsewhere /\ (\A d \in Clients : b \notin client[d].has) /\ client[c].has = {}
    BY <1>4 DEF Launch, Settled, Known, Hands, Bare, At
  <2>3. Elsewhere' = Elsewhere /\ Lists' /\ Once'
    BY <2>1 DEF Elsewhere, Settled, Lists, Once
  <2>4. Apart'
    BY <2>1, <2>2, <2>3 DEF Settled, Apart
  <2>5. Known'
    BY <2>1, <2>2, <2>3 DEF Settled, Known
  <2>6. QED
    BY <2>3, <2>4, <2>5 DEF Settled
<1>5. ASSUME NEW c \in Clients, NEW b \in Browsers, Put(c, b) PROVE Settled'
  <2>1. retiring' = retiring /\ closer' = closer /\ browser' = browser /\ client[c].has = {b}
    BY <1>5 DEF Put, ends
  <2>2. CASE Goes(c, "shut") /\ idle' = idle
    <3>1. \A d \in Clients : client'[d].has = client[d].has
      BY <1>0, <2>2 DEF Goes
    <3>2. QED
      BY <2>1, <2>2, <3>1, StaysPut
  <2>3. CASE GoesWithout(c, "leave") /\ idle' = Append(idle, b)
    <3>1. client'[c].has = {} /\ \A d \in Clients \ {c} : client'[d] = client[d]
      BY <1>0, <2>3 DEF GoesWithout
    <3>2. b \notin ToSet(idle) /\ idle \in Seq(Browsers) /\ Unique(idle)
      BY <2>1 DEF Settled, Lists, Once, Apart, Elsewhere
    <3>3. idle' \in Seq(Browsers) /\ Unique(idle') /\ ToSet(idle') = ToSet(idle) \cup {b}
      BY <2>3, <3>2, AppendToList
    <3>4. QED
      <4>1. Lists' /\ Once'
        BY <2>1, <3>3 DEF Settled, Lists, Once
      <4>2. Apart'
        BY <2>1, <3>1, <3>3 DEF Settled, Apart, Elsewhere
      <4>3. Known'
        BY <2>1, <3>1, <3>3 DEF Settled, Known, Elsewhere
      <4>4. QED
        BY <4>1, <4>2, <4>3 DEF Settled
  <2>4. QED
    BY <1>5, <2>2, <2>3 DEF Put
<1>6. ASSUME NEW c \in Clients, NEW b \in Browsers, CloseReturned(c, b) \/ Recycle(c, b) \/ Abandon(c, b)
      PROVE  Settled'
  <2>1. /\ idle' = idle /\ retiring' = retiring /\ closer' = closer /\ client[c].has = {b}
        /\ client'[c].has = {} /\ \A d \in Clients \ {c} : client'[d] = client[d]
        /\ browser'[b].state # "runs" /\ browser'[b].scans = 0 /\ \A x \in Browsers \ {b} : browser'[x] = browser[x]
    BY <1>0, <1>6 DEF CloseReturned, Recycle, Abandon, Ends, GoesWithout, poolVars, ends, Blank
  <2>2. Lists' /\ Once'
    BY <2>1 DEF Settled, Lists, Once
  <2>3. Apart'
    BY <2>1 DEF Settled, Apart, Elsewhere
  <2>4. Elsewhere' = Elsewhere /\ b \notin Elsewhere /\ \A d \in Clients \ {c} : b \notin client[d].has
    BY <2>1 DEF Settled, Apart, Elsewhere
  <2>5. ASSUME NEW x \in Browsers, x # b
        PROVE  x \in Elsewhere' \/ (\E d \in Clients : x \in client'[d].has) <=> x \in Elsewhere \/ \E d \in Clients : x \in client[d].has
    BY <2>1, <2>4, <2>5
  <2>6. Known'
    BY <2>1, <2>4, <2>5 DEF Settled, Known
  <2>7. QED
    BY <2>2, <2>3, <2>6 DEF Settled
<1>7. CASE Switch
  <2>1. /\ idle' = <<>> /\ retiring = <<>> /\ retiring' = idle
        /\ closer' = closer /\ browser' = browser /\ client' = client
    BY <1>7 DEF Switch
  <2>2. Lists' /\ Once'
    BY <2>1, EmptyList DEF Settled, Lists, Once
  <2>3. Apart'
    BY <2>1, EmptyList DEF Settled, Apart, Elsewhere
  <2>4. Known'
    BY <2>1, EmptyList DEF Settled, Known, Elsewhere
  <2>5. QED
    BY <2>2, <2>3, <2>4 DEF Settled
<1>8. CASE CloseRetired
  <2>1. /\ retiring # <<>> /\ retiring' = Tail(retiring) /\ Unique(retiring) /\ retiring \in Seq(Browsers)
        /\ idle' = idle /\ closer' = closer /\ client' = client
    BY <1>8 DEF CloseRetired, Settled, Once, Lists
  <2>2. /\ Head(retiring) \in Browsers /\ Head(retiring) \in ToSet(retiring)
        /\ retiring' \in Seq(Browsers) /\ Unique(retiring')
        /\ ToSet(retiring') = ToSet(retiring) \ {Head(retiring)}
    BY <2>1, TailOfList
  <2>3. /\ browser'[Head(retiring)].state # "runs" /\ browser'[Head(retiring)].scans = 0
        /\ \A x \in Browsers \ {Head(retiring)} : browser'[x] = browser[x]
    BY <1>0, <1>8, <2>2 DEF CloseRetired, Ends, Blank
  <2>4. QED
    BY <2>1, <2>2, <2>3 DEF Settled, Lists, Once, Apart, Known, Elsewhere
<1>9. CASE TakeIdle
  <2>1. /\ idle' = <<>> /\ closer.closes = <<>> /\ closer'.closes = idle
        /\ retiring' = retiring /\ browser' = browser /\ client' = client
    BY <1>0, <1>9 DEF TakeIdle, Closing
  <2>2. Lists' /\ Once'
    BY <2>1, EmptyList DEF Settled, Lists, Once
  <2>3. Apart'
    BY <2>1, EmptyList DEF Settled, Apart, Elsewhere
  <2>4. Known'
    BY <2>1, EmptyList DEF Settled, Known, Elsewhere
  <2>5. QED
    BY <2>2, <2>3, <2>4 DEF Settled
<1>10. CASE CloseIdle
  <2>1. /\ closer.closes # <<>> /\ closer'.closes = Tail(closer.closes)
        /\ Unique(closer.closes) /\ closer.closes \in Seq(Browsers)
        /\ idle' = idle /\ retiring' = retiring /\ client' = client
    BY <1>0, <1>10 DEF CloseIdle, Settled, Once, Lists
  <2>2. /\ Head(closer.closes) \in Browsers /\ Head(closer.closes) \in ToSet(closer.closes)
        /\ closer'.closes \in Seq(Browsers) /\ Unique(closer'.closes)
        /\ ToSet(closer'.closes) = ToSet(closer.closes) \ {Head(closer.closes)}
    BY <2>1, TailOfList
  <2>3. /\ browser'[Head(closer.closes)].state # "runs" /\ browser'[Head(closer.closes)].scans = 0
        /\ \A x \in Browsers \ {Head(closer.closes)} : browser'[x] = browser[x]
    BY <1>0, <1>10, <2>2 DEF CloseIdle, Ends, Blank
  <2>4. QED
    BY <2>1, <2>2, <2>3 DEF Settled, Lists, Once, Apart, Known, Elsewhere
<1>11. CASE StartClose \/ Drain \/ FinishClose \/ UNCHANGED vars
  <2>1. /\ idle' = idle /\ retiring' = retiring /\ closer'.closes = closer.closes
        /\ client' = client /\ browser' = browser
    BY <1>0, <1>11 DEF StartClose, Drain, FinishClose, vars, poolVars, ends
  <2>2. QED
    BY <2>1, StaysPut
<1>12. QED
  BY <1>1, <1>2, <1>3, <1>4, <1>5, <1>6, <1>7, <1>8, <1>9, <1>10, <1>11
     DEF Next, ClientNext, Works, CloserNext

-----------------------------------------------------------------------------
(* The counter of live browsers.                                              *)

\* Going on between two counted places, or empty handed, leaves the counted ones alone.
LEMMA HeldGoes ==
    ASSUME TypeOK, NEW c \in Clients, NEW place \in Places, Goes(c, place),
           client[c].has = {} \/ (client[c].at \in Counted <=> place \in Counted)
    PROVE  Held' = Held
<1>1. /\ client'[c].at = place
      /\ \A d \in Clients : client'[d].has = client[d].has
      /\ \A d \in Clients \ {c} : client'[d] = client[d]
  BY GoesKeeps
<1>2. ASSUME NEW b \in Browsers, NEW d \in Clients
      PROVE  (client'[d].at \in Counted /\ client'[d].has = {b}) <=> (client[d].at \in Counted /\ client[d].has = {b})
  BY <1>1
<1>3. QED
  BY <1>2 DEF Held

\* A client that takes a browser into a counted place adds it to the counted ones.
LEMMA HeldGains ==
    ASSUME Hands, NEW c \in Clients, NEW b \in Browsers, client[c].has = {}, client'[c].has = {b},
           client'[c].at \in Counted, \A d \in Clients \ {c} : client'[d] = client[d]
    PROVE  Held' = Held \cup {b}
<1>1. ASSUME NEW x \in Browsers, NEW d \in Clients
      PROVE  (client'[d].at \in Counted /\ client'[d].has = {x}) <=>
             (client[d].at \in Counted /\ client[d].has = {x}) \/ (d = c /\ x = b)
  BY <1>1
<1>2. QED
  BY <1>1 DEF Held

\* A client that parts with a counted browser takes it off them.
LEMMA HeldLoses ==
    ASSUME Hands, Apart, NEW c \in Clients, NEW b \in Browsers, client[c].has = {b}, client'[c].has = {},
           client[c].at \in Counted, \A d \in Clients \ {c} : client'[d] = client[d]
    PROVE  Held' = Held \ {b} /\ b \in Held
<1>1. \A d \in Clients \ {c} : b \notin client[d].has
  BY DEF Apart
<1>2. ASSUME NEW x \in Browsers, NEW d \in Clients
      PROVE  (client'[d].at \in Counted /\ client'[d].has = {x}) <=>
             (client[d].at \in Counted /\ client[d].has = {x}) /\ x # b
  BY <1>1
<1>3. QED
  BY <1>2 DEF Held

\* What no client does leaves the counted ones alone.
LEMMA HeldSame ==
    ASSUME client' = client
    PROVE  Held' = Held
BY DEF Held

\* Every step that adds a browser to those the pool keeps counts it up, every step that
\* takes one away counts it down, and no other step touches the counter.
LEMMA KeptStep ==
    ASSUME TypeOK, Hands, Closing, Settled, [Next]_vars
    PROVE  \/ Kept' = Kept /\ live' = live
           \/ \E b \in Browsers \ Kept : Kept' = Kept \cup {b} /\ live' = live + 1
           \/ \E b \in Kept : Kept' = Kept \ {b} /\ live' = live - 1
<1> DEFINE Follows == \/ Kept' = Kept /\ live' = live
                      \/ \E b \in Browsers \ Kept : Kept' = Kept \cup {b} /\ live' = live + 1
                      \/ \E b \in Kept : Kept' = Kept \ {b} /\ live' = live - 1
<1>0. /\ client \in [Clients -> [at : Places, has : SUBSET Browsers, gen : 0..MaxGeneration]]
      /\ browser \in [Browsers -> [state : States, gen : 0..MaxGeneration, scans : 0..MaxScans, dead : BOOLEAN]]
      /\ closer \in [at : {"rest", "drain", "close", "done"}, took : 0..Size, closes : Seq(Browsers)]
      /\ Lists /\ Once /\ Apart /\ Known
  BY DEF TypeOK, Lists, Settled
<1>1. ASSUME NEW c \in Clients, TakeSlot(c) \/ LaunchFails(c) \/ Release(c) \/ ReturnSlot(c)
      PROVE  Follows
  <2>1. idle' = idle /\ retiring' = retiring /\ closer' = closer /\ live' = live
    BY <1>1 DEF TakeSlot, LaunchFails, Release, ReturnSlot, poolVars, ends
  <2>2. PICK place \in Places : Goes(c, place) /\ (client[c].has = {} \/ (client[c].at \in Counted <=> place \in Counted))
    BY <1>1 DEF TakeSlot, LaunchFails, Release, ReturnSlot, Places, Counted, At, Hands, Bare
  <2>3. Held' = Held
    BY <2>2, HeldGoes
  <2>4. QED
    BY <2>1, <2>3 DEF Kept, Elsewhere
<1>2. ASSUME NEW c \in Clients, Join(c) PROVE Follows
  <2>1. idle' = idle /\ retiring' = retiring /\ closer' = closer /\ client[c].at = "join"
    BY <1>2 DEF Join, ends, At
  <2>2. PICK b \in Browsers : client[c].has = {b}
    BY <2>1 DEF Hands, Bare
  <2>3. CASE closed
    <3>1. Goes(c, "abandon") /\ live' = live
      BY <1>2, <2>3 DEF Join
    <3>2. Held' = Held
      BY <2>1, <3>1, HeldGoes DEF Places, Counted
    <3>3. QED
      BY <2>1, <3>1, <3>2 DEF Kept, Elsewhere
  <2>4. CASE ~closed
    <3>1. Goes(c, "open") /\ live' = live + 1
      BY <1>2, <2>4 DEF Join
    <3>2. /\ client'[c].at = "open" /\ client'[c].has = {b}
          /\ \A d \in Clients \ {c} : client'[d] = client[d]
      BY <2>2, <3>1, GoesKeeps DEF Places
    <3>3. b \notin Elsewhere /\ \A d \in Clients \ {c} : b \notin client[d].has
      BY <1>0, <2>2 DEF Apart
    <3>4. b \notin Held
      BY <2>1, <3>3 DEF Held, Counted
    <3>5. Held' = Held \cup {b}
      <4>1. ASSUME NEW x \in Browsers, NEW d \in Clients
            PROVE  (client'[d].at \in Counted /\ client'[d].has = {x}) <=>
                   (client[d].at \in Counted /\ client[d].has = {x}) \/ (d = c /\ x = b)
        BY <2>1, <3>2 DEF Counted
      <4>2. QED
        BY <4>1 DEF Held
    <3>6. QED
      BY <2>1, <3>1, <3>3, <3>4, <3>5 DEF Kept, Elsewhere
  <2>5. QED
    BY <2>3, <2>4
<1>3. ASSUME NEW c \in Clients, Take(c) PROVE Follows
  <2>1. /\ retiring' = retiring /\ closer' = closer /\ live' = live
        /\ \A d \in Clients \ {c} : client'[d] = client[d]
        /\ client[c].has = {}
    BY <1>0, <1>3 DEF Take, Goes, GoesWith, ends, Hands, At, Bare
  <2>2. CASE client'[c].has = {} /\ idle' = idle
    <3>1. ASSUME NEW x \in Browsers, NEW d \in Clients
          PROVE  (client'[d].at \in Counted /\ client'[d].has = {x}) <=> (client[d].at \in Counted /\ client[d].has = {x})
      BY <2>1, <2>2
    <3>2. Held' = Held
      BY <3>1 DEF Held
    <3>3. QED
      BY <2>1, <2>2, <3>2 DEF Kept, Elsewhere
  <2>3. ASSUME NEW b \in ToSet(idle) \cap Browsers, client'[c].at = "vet", client'[c].has = {b},
               ToSet(idle') = ToSet(idle) \ {b}
        PROVE  Follows
    <3>1. Held' = Held \cup {b}
      BY <2>1, <2>3, HeldGains DEF Counted
    <3>2. QED
      BY <2>1, <2>3, <3>1 DEF Kept, Elsewhere
  <2>4. QED
    BY <1>0, <1>3, <2>2, <2>3, TakeStep
<1>4. ASSUME NEW c \in Clients, NEW b \in Browsers, Vet(c, b) \/ Check(c, b) \/ Open(c, b) \/ Discard(c, b)
      PROVE  Follows
  <2>1. idle' = idle /\ retiring' = retiring /\ closer' = closer /\ live' = live
    BY <1>4 DEF Vet, Check, Open, Discard, poolVars, ends
  <2>2. PICK place \in Places : Goes(c, place) /\ (client[c].at \in Counted <=> place \in Counted)
    BY <1>4 DEF Vet, Check, Open, Discard, Places, Counted, At
  <2>3. Held' = Held
    BY <2>2, HeldGoes
  <2>4. QED
    BY <2>1, <2>3 DEF Kept, Elsewhere
<1>5. ASSUME NEW c \in Clients, NEW b \in Browsers, Launch(c, b) PROVE Follows
  <2>1. /\ idle' = idle /\ retiring' = retiring /\ closer' = closer /\ live' = live
        /\ client'[c].at = "join" /\ \A d \in Clients \ {c} : client'[d] = client[d]
        /\ client[c].at = "launch"
    BY <1>0, <1>5 DEF Launch, GoesWith, poolVars, ends, At
  <2>2. ASSUME NEW x \in Browsers, NEW d \in Clients
        PROVE  (client'[d].at \in Counted /\ client'[d].has = {x}) <=> (client[d].at \in Counted /\ client[d].has = {x})
    BY <2>1 DEF Counted
  <2>3. Held' = Held
    BY <2>2 DEF Held
  <2>4. QED
    BY <2>1, <2>3 DEF Kept, Elsewhere
<1>6. ASSUME NEW c \in Clients, NEW b \in Browsers, Put(c, b) PROVE Follows
  <2>1. /\ retiring' = retiring /\ closer' = closer /\ live' = live
        /\ client[c].has = {b} /\ client[c].at = "put"
    BY <1>6 DEF Put, ends, At
  <2>2. CASE Goes(c, "shut") /\ idle' = idle
    <3>1. Held' = Held
      BY <2>1, <2>2, HeldGoes DEF Places, Counted
    <3>2. QED
      BY <2>1, <2>2, <3>1 DEF Kept, Elsewhere
  <2>3. CASE GoesWithout(c, "leave") /\ idle' = Append(idle, b)
    <3>1. client'[c].has = {} /\ \A d \in Clients \ {c} : client'[d] = client[d]
      BY <1>0, <2>3 DEF GoesWithout
    <3>2. Held' = Held \ {b} /\ b \in Held
      BY <1>0, <2>1, <3>1, HeldLoses DEF Counted
    <3>3. b \notin ToSet(idle) /\ idle \in Seq(Browsers) /\ Unique(idle)
      BY <1>0, <2>1 DEF Lists, Once, Apart, Elsewhere
    <3>4. ToSet(idle') = ToSet(idle) \cup {b}
      BY <2>3, <3>3, AppendToList
    <3>5. QED
      BY <2>1, <3>2, <3>4 DEF Kept, Elsewhere
  <2>4. QED
    BY <1>6, <2>2, <2>3 DEF Put
<1>7. ASSUME NEW c \in Clients, NEW b \in Browsers, CloseReturned(c, b) \/ Recycle(c, b)
      PROVE  Follows
  <2>1. /\ idle' = idle /\ retiring' = retiring /\ closer' = closer /\ live' = live - 1
        /\ client[c].has = {b} /\ client[c].at \in Counted
        /\ client'[c].has = {} /\ \A d \in Clients \ {c} : client'[d] = client[d]
    BY <1>0, <1>7 DEF CloseReturned, Recycle, GoesWithout, ends, At, Counted
  <2>2. Held' = Held \ {b} /\ b \in Held
    BY <1>0, <2>1, HeldLoses
  <2>3. Elsewhere' = Elsewhere /\ b \notin Elsewhere
    BY <1>0, <2>1 DEF Apart, Elsewhere
  <2>4. QED
    BY <2>1, <2>2, <2>3 DEF Kept
<1>8. ASSUME NEW c \in Clients, NEW b \in Browsers, Abandon(c, b) PROVE Follows
  <2>1. /\ idle' = idle /\ retiring' = retiring /\ closer' = closer /\ live' = live
        /\ client'[c].has = {} /\ \A d \in Clients \ {c} : client'[d] = client[d]
        /\ client[c].at = "abandon"
    BY <1>0, <1>8 DEF Abandon, GoesWithout, poolVars, ends, At
  <2>2. ASSUME NEW x \in Browsers, NEW d \in Clients
        PROVE  (client'[d].at \in Counted /\ client'[d].has = {x}) <=> (client[d].at \in Counted /\ client[d].has = {x})
    BY <2>1 DEF Counted
  <2>3. Held' = Held
    BY <2>2 DEF Held
  <2>4. QED
    BY <2>1, <2>3 DEF Kept, Elsewhere
<1>9. CASE Switch
  <2>1. idle' = <<>> /\ retiring = <<>> /\ retiring' = idle /\ closer' = closer /\ client' = client /\ live' = live
    BY <1>9 DEF Switch
  <2>2. Elsewhere' = Elsewhere
    BY <2>1, EmptyList DEF Elsewhere
  <2>3. QED
    BY <2>1, <2>2, HeldSame DEF Kept
<1>10. CASE CloseRetired
  <2>1. /\ retiring # <<>> /\ retiring' = Tail(retiring) /\ Unique(retiring) /\ retiring \in Seq(Browsers)
        /\ idle' = idle /\ closer' = closer /\ client' = client /\ live' = live - 1
    BY <1>0, <1>10 DEF CloseRetired, Once, Lists
  <2>2. PICK b \in ToSet(retiring) : b \in Browsers /\ ToSet(retiring') = ToSet(retiring) \ {b}
    BY <2>1, TailOfList
  <2>3. b \notin Held
    BY <1>0 DEF Held, Apart, Elsewhere
  <2>4. Elsewhere' = Elsewhere \ {b} /\ b \in Elsewhere
    BY <1>0, <2>1, <2>2 DEF Elsewhere, Apart
  <2>5. QED
    BY <2>1, <2>3, <2>4, HeldSame DEF Kept
<1>11. CASE TakeIdle
  <2>1. /\ idle' = <<>> /\ closer.closes = <<>> /\ closer'.closes = idle
        /\ retiring' = retiring /\ client' = client /\ live' = live
    BY <1>0, <1>11 DEF TakeIdle, Closing
  <2>2. Elsewhere' = Elsewhere
    BY <2>1, EmptyList DEF Elsewhere
  <2>3. QED
    BY <2>1, <2>2, HeldSame DEF Kept
<1>12. CASE CloseIdle
  <2>1. /\ closer.closes # <<>> /\ closer'.closes = Tail(closer.closes)
        /\ Unique(closer.closes) /\ closer.closes \in Seq(Browsers)
        /\ idle' = idle /\ retiring' = retiring /\ client' = client /\ live' = live - 1
    BY <1>0, <1>12 DEF CloseIdle, Once, Lists
  <2>2. PICK b \in ToSet(closer.closes) : b \in Browsers /\ ToSet(closer'.closes) = ToSet(closer.closes) \ {b}
    BY <2>1, TailOfList
  <2>3. b \notin Held
    BY <1>0 DEF Held, Apart, Elsewhere
  <2>4. Elsewhere' = Elsewhere \ {b} /\ b \in Elsewhere
    BY <1>0, <2>1, <2>2 DEF Elsewhere, Apart
  <2>5. QED
    BY <2>1, <2>3, <2>4, HeldSame DEF Kept
<1>13. CASE StartClose \/ Drain \/ FinishClose \/ UNCHANGED vars
  <2>1. /\ idle' = idle /\ retiring' = retiring /\ closer'.closes = closer.closes
        /\ client' = client /\ live' = live
    BY <1>0, <1>13 DEF StartClose, Drain, FinishClose, vars, poolVars, ends
  <2>2. QED
    BY <2>1, HeldSame DEF Kept, Elsewhere
<1>14. QED
  BY <1>1, <1>2, <1>3, <1>4, <1>5, <1>6, <1>7, <1>8, <1>9, <1>10, <1>11, <1>12, <1>13
     DEF Next, ClientNext, Works, CloserNext

\* So the counter is the number of browsers kept.
LEMMA CountsStep ==
    ASSUME TypeOK, Hands, Closing, Settled, Counts, [Next]_vars
    PROVE  Counts'
<1>1. IsFiniteSet(Kept)
  <2>1. Kept \subseteq Browsers
    BY ListCount DEF Kept, Held, Elsewhere, Settled, Lists, Once
  <2>2. QED
    BY <2>1, SetsAssumption, FS_Subset
<1>2. ASSUME NEW b, b \notin Kept PROVE Cardinality(Kept \cup {b}) = Cardinality(Kept) + 1
  BY <1>1, <1>2, FS_AddElement
<1>3. ASSUME NEW b \in Kept PROVE Cardinality(Kept \ {b}) = Cardinality(Kept) - 1
  BY <1>1, FS_RemoveElement
<1>4. QED
  BY <1>2, <1>3, KeptStep DEF Counts

-----------------------------------------------------------------------------
(* The tokens, and the other parts of the invariant.                          *)

\* The clients that have a slot are finitely many.
LEMMA AwayIsFinite ==
    /\ IsFiniteSet(Away) /\ Cardinality(Away) \in Nat
    /\ \A c : c \notin Away => Cardinality(Away \cup {c}) = Cardinality(Away) + 1
    /\ \A c \in Away : Cardinality(Away \ {c}) = Cardinality(Away) - 1
<1>1. IsFiniteSet(Away)
  BY SetsAssumption, FS_Subset DEF Away
<1>2. QED
  BY <1>1, FS_CardinalityType, FS_AddElement, FS_RemoveElement

\* Every token is in the channel, with Close, or with one client (Acquire, put, Close).
LEMMA TokensStep ==
    ASSUME TypeOK, Hands, Tokens, [Next]_vars
    PROVE  Tokens'
<1>0. /\ client \in [Clients -> [at : Places, has : SUBSET Browsers, gen : 0..MaxGeneration]]
      /\ closer \in [at : {"rest", "drain", "close", "done"}, took : 0..Size, closes : Seq(Browsers)]
      /\ slots \in 0..Size /\ Size \in Nat
  BY SizeAssumption DEF TypeOK
<1>1. CASE slots' = slots /\ closer'.took = closer.took /\ Away' = Away
  BY <1>1 DEF Tokens
<1>2. ASSUME NEW c \in Clients, TakeSlot(c) PROVE Tokens'
  <2>1. c \notin Away /\ Away' = Away \cup {c}
    BY <1>0, <1>2 DEF TakeSlot, Away, At, Goes
  <2>2. slots' = slots - 1 /\ closer' = closer
    BY <1>2 DEF TakeSlot, ends
  <2>3. Cardinality(Away') = Cardinality(Away) + 1
    BY <2>1, AwayIsFinite
  <2>4. QED
    BY <1>0, <2>2, <2>3, AwayIsFinite DEF Tokens
<1>3. ASSUME NEW c \in Clients, ReturnSlot(c) PROVE Tokens'
  <2>1. c \in Away /\ Away' = Away \ {c}
    BY <1>0, <1>3 DEF ReturnSlot, Away, At, Goes
  <2>2. slots' = slots + 1 /\ closer' = closer
    BY <1>3 DEF ReturnSlot, ends
  <2>3. Cardinality(Away') = Cardinality(Away) - 1
    BY <2>1, AwayIsFinite
  <2>4. QED
    BY <1>0, <2>2, <2>3, AwayIsFinite DEF Tokens
<1>4. CASE Drain
  <2>1. Away' = Away /\ slots' = slots - 1 /\ closer'.took = closer.took + 1
    BY <1>0, <1>4 DEF Drain, Away
  <2>2. QED
    BY <1>0, <2>1, AwayIsFinite DEF Tokens
<1>5. ASSUME NEW c \in Clients, Take(c) \/ LaunchFails(c) \/ Join(c) \/ Release(c) PROVE Tokens'
  <2>1. slots' = slots /\ closer' = closer
    BY <1>5 DEF Take, LaunchFails, Join, Release, ends
  <2>2. /\ client[c].at # "wait" /\ client'[c].at # "wait"
        /\ \A d \in Clients \ {c} : client'[d] = client[d]
    BY <1>0, <1>5 DEF Take, LaunchFails, Join, Release, At, Goes, GoesWith
  <2>3. Away' = Away
    BY <2>2 DEF Away
  <2>4. QED
    BY <1>1, <2>1, <2>3
<1>6. ASSUME NEW c \in Clients, NEW b \in Browsers,
             \/ Vet(c, b) \/ Check(c, b) \/ Launch(c, b) \/ Open(c, b) \/ Discard(c, b)
             \/ Put(c, b) \/ CloseReturned(c, b) \/ Recycle(c, b) \/ Abandon(c, b)
      PROVE  Tokens'
  <2>1. slots' = slots /\ closer' = closer
    BY <1>6 DEF Vet, Check, Launch, Open, Discard, Put, CloseReturned, Recycle, Abandon, ends
  <2>2. /\ client[c].at # "wait" /\ client'[c].at # "wait"
        /\ \A d \in Clients \ {c} : client'[d] = client[d]
    <3>1. CASE Vet(c, b) \/ Check(c, b) \/ Launch(c, b) \/ Open(c, b) \/ Discard(c, b)
      BY <1>0, <3>1 DEF Vet, Check, Launch, Open, Discard, At, Goes, GoesWith
    <3>2. CASE Put(c, b) \/ CloseReturned(c, b) \/ Recycle(c, b) \/ Abandon(c, b)
      BY <1>0, <3>2 DEF Put, CloseReturned, Recycle, Abandon, At, Goes, GoesWithout
    <3>3. QED
      BY <1>6, <3>1, <3>2
  <2>3. Away' = Away
    BY <2>2 DEF Away
  <2>4. QED
    BY <1>1, <2>1, <2>3
<1>7. CASE Switch \/ CloseRetired \/ StartClose \/ TakeIdle \/ CloseIdle \/ FinishClose \/ UNCHANGED vars
  <2>1. slots' = slots /\ closer'.took = closer.took /\ client' = client
    BY <1>0, <1>7 DEF Switch, CloseRetired, StartClose, TakeIdle, CloseIdle, FinishClose, vars, ends
  <2>2. QED
    BY <1>1, <2>1 DEF Away
<1>8. QED
  BY <1>2, <1>3, <1>4, <1>5, <1>6, <1>7 DEF Next, ClientNext, Works, CloserNext

\* The pool is closed from the first step of Close, and stays empty once Close has
\* every slot: what is pushed on the stack was seen not to be closed under the lock.
LEMMA ClosingStep ==
    ASSUME TypeOK, Closing, [Next]_vars
    PROVE  Closing'
<1>0. closer \in [at : {"rest", "drain", "close", "done"}, took : 0..Size, closes : Seq(Browsers)]
  BY DEF TypeOK
<1>1. CASE idle' = idle /\ closed' = closed /\ closer' = closer
  BY <1>1 DEF Closing
<1>2. ASSUME NEW c \in Clients, TakeSlot(c) \/ LaunchFails(c) \/ Join(c) \/ Release(c) \/ ReturnSlot(c)
      PROVE  Closing'
  BY <1>1, <1>2 DEF TakeSlot, LaunchFails, Join, Release, ReturnSlot, poolVars, ends
<1>3. ASSUME NEW c \in Clients, NEW b \in Browsers,
             \/ Vet(c, b) \/ Check(c, b) \/ Launch(c, b) \/ Open(c, b) \/ Discard(c, b)
             \/ CloseReturned(c, b) \/ Recycle(c, b) \/ Abandon(c, b)
      PROVE  Closing'
  BY <1>1, <1>3 DEF Vet, Check, Launch, Open, Discard, CloseReturned, Recycle, Abandon, poolVars, ends
<1>4. ASSUME NEW c \in Clients, Take(c) PROVE Closing'
  BY <1>4 DEF Take, Closing, ends
<1>5. ASSUME NEW c \in Clients, NEW b \in Browsers, Put(c, b) PROVE Closing'
  BY <1>0, <1>5 DEF Put, Closing, ends
<1>6. CASE Switch \/ CloseRetired \/ UNCHANGED vars
  BY <1>6 DEF Switch, CloseRetired, Closing, vars, poolVars, ends
<1>7. CASE StartClose \/ Drain \/ TakeIdle \/ CloseIdle \/ FinishClose
  BY <1>0, <1>7 DEF StartClose, Drain, TakeIdle, CloseIdle, FinishClose, Closing, poolVars
<1>8. QED
  BY <1>2, <1>3, <1>4, <1>5, <1>6, <1>7 DEF Next, ClientNext, Works, CloserNext

\* What the probe found holds for the life of the pool.
LEMMA ProbedOnce ==
    ASSUME [Next]_vars
    PROVE  contexts' = contexts
<1>1. ASSUME NEW c \in Clients, TakeSlot(c) \/ LaunchFails(c) \/ Join(c) \/ Release(c) \/ ReturnSlot(c) \/ Take(c)
      PROVE  contexts' = contexts
  BY <1>1 DEF TakeSlot, LaunchFails, Join, Release, ReturnSlot, Take
<1>2. ASSUME NEW c \in Clients, NEW b \in Browsers, Vet(c, b) \/ Check(c, b) \/ Launch(c, b) \/ Open(c, b)
      PROVE  contexts' = contexts
  BY <1>2 DEF Vet, Check, Launch, Open
<1>3. ASSUME NEW c \in Clients, NEW b \in Browsers,
             Discard(c, b) \/ Put(c, b) \/ CloseReturned(c, b) \/ Recycle(c, b) \/ Abandon(c, b)
      PROVE  contexts' = contexts
  BY <1>3 DEF Discard, Put, CloseReturned, Recycle, Abandon
<1>4. CASE Switch \/ CloseRetired \/ CloserNext \/ UNCHANGED vars
  BY <1>4 DEF Switch, CloseRetired, CloserNext, StartClose, Drain, TakeIdle, CloseIdle, FinishClose, vars
<1>5. QED
  BY <1>1, <1>2, <1>3, <1>4 DEF Next, ClientNext, Works

\* Without contexts a browser that is about to serve a scan has served none.
LEMMA FreshStep ==
    ASSUME TypeOK, Hands, Settled, Fresh, [Next]_vars
    PROVE  Fresh'
<1>0. /\ client \in [Clients -> [at : Places, has : SUBSET Browsers, gen : 0..MaxGeneration]]
      /\ browser \in [Browsers -> [state : States, gen : 0..MaxGeneration, scans : 0..MaxScans, dead : BOOLEAN]]
      /\ Apart
  BY DEF TypeOK, Settled
<1> SUFFICES ASSUME ~contexts, NEW e \in Clients, client'[e].at \in {"join", "open"}, NEW x \in client'[e].has
             PROVE  browser'[x].scans = 0
  BY ProbedOnce DEF Fresh
<1>1. ASSUME NEW c \in Clients, TakeSlot(c) \/ LaunchFails(c) \/ Join(c) \/ Release(c) \/ ReturnSlot(c)
      PROVE  browser'[x].scans = 0
  <2>0. LaunchFails(c) \/ browser' = browser
    BY <1>1 DEF TakeSlot, Join, Release, ReturnSlot
  <2>1. \A y \in Browsers : browser'[y].scans = browser[y].scans
    BY <2>0, FailedLaunch
  <2>2. PICK place \in Places : Goes(c, place) /\ (place \in {"join", "open"} => client[c].at = "join")
    BY <1>1 DEF TakeSlot, LaunchFails, Join, Release, ReturnSlot, Places, At
  <2>3. QED
    BY <1>0, <2>1, <2>2, GoesKeeps DEF Fresh
<1>2. ASSUME NEW c \in Clients, Take(c) PROVE browser'[x].scans = 0
  <2>1. /\ browser' = browser /\ client'[c].at \notin {"join", "open"}
        /\ \A d \in Clients \ {c} : client'[d] = client[d]
    BY <1>0, <1>2 DEF Take, Goes, GoesWith
  <2>2. QED
    BY <2>1 DEF Fresh
<1>3. ASSUME NEW c \in Clients, NEW b \in Browsers, Vet(c, b) \/ Discard(c, b) PROVE browser'[x].scans = 0
  <2>1. PICK place \in Places : Goes(c, place) /\ place \notin {"join", "open"}
    BY <1>3 DEF Vet, Discard, Places
  <2>2. \A y \in Browsers : browser'[y].scans = browser[y].scans
    BY <1>0, <1>3 DEF Vet, Discard
  <2>3. QED
    BY <1>0, <2>1, <2>2, GoesKeeps DEF Fresh
<1>4. ASSUME NEW c \in Clients, NEW b \in Browsers, Check(c, b) PROVE browser'[x].scans = 0
  <2>1. PICK place \in Places : Goes(c, place) /\ (place = "open" => ~WornOut(b)) /\ place # "join"
    BY <1>4 DEF Check, Places
  <2>2. \A y \in Browsers : browser'[y].scans = browser[y].scans
    BY <1>0, <1>4 DEF Check
  <2>3. CASE e = c
    <3>1. x = b /\ ~WornOut(b)
      BY <1>0, <1>4, <2>1, <2>3, GoesKeeps DEF Check
    <3>2. browser[b].scans = 0
      BY <1>0, <3>1, SizeAssumption DEF WornOut, EffectiveLimit
    <3>3. QED
      BY <2>2, <3>1, <3>2
  <2>4. CASE e # c
    BY <1>0, <2>1, <2>2, <2>4, GoesKeeps DEF Fresh
  <2>5. QED
    BY <2>3, <2>4
<1>5. ASSUME NEW c \in Clients, NEW b \in Browsers, Launch(c, b) PROVE browser'[x].scans = 0
  <2>1. /\ client'[c].has = {b} /\ \A d \in Clients \ {c} : client'[d] = client[d]
        /\ browser'[b].scans = 0 /\ \A y \in Browsers \ {b} : browser'[y] = browser[y]
    BY <1>0, <1>5 DEF Launch, GoesWith, Blank
  <2>2. QED
    BY <1>0, <2>1 DEF Fresh
<1>6. ASSUME NEW c \in Clients, NEW b \in Browsers, Open(c, b) PROVE browser'[x].scans = 0
  <2>1. /\ client'[c].at = "scan" /\ client[c].has = {b}
        /\ \A d \in Clients \ {c} : client'[d] = client[d]
        /\ \A y \in Browsers \ {b} : browser'[y] = browser[y]
    BY <1>0, <1>6 DEF Open, Goes
  <2>2. QED
    BY <1>0, <2>1 DEF Fresh, Apart
<1>7. ASSUME NEW c \in Clients, NEW b \in Browsers,
             Put(c, b) \/ CloseReturned(c, b) \/ Recycle(c, b) \/ Abandon(c, b)
      PROVE  browser'[x].scans = 0
  <2>1. /\ client'[c].at \notin {"join", "open"}
        /\ \A d \in Clients \ {c} : client'[d] = client[d]
    BY <1>0, <1>7 DEF Put, CloseReturned, Recycle, Abandon, Goes, GoesWithout
  <2>2. \A y \in Browsers : browser'[y].scans \in {browser[y].scans, 0}
    BY <1>0, <1>7 DEF Put, CloseReturned, Recycle, Abandon, Ends, Blank
  <2>3. QED
    BY <1>0, <2>1, <2>2 DEF Fresh
<1>8. CASE Switch \/ CloseRetired \/ CloserNext \/ UNCHANGED vars
  <2>1. client' = client
    BY <1>8 DEF Switch, CloseRetired, CloserNext, StartClose, Drain, TakeIdle, CloseIdle, FinishClose, vars
  <2>2. \A y \in Browsers : browser'[y].scans \in {browser[y].scans, 0}
    BY <1>0, <1>8 DEF Switch, CloseRetired, CloserNext, StartClose, Drain, TakeIdle, CloseIdle, FinishClose, vars,
       Ends, Blank
  <2>3. QED
    BY <1>0, <2>1, <2>2 DEF Fresh
<1>9. QED
  BY <1>1, <1>2, <1>3, <1>4, <1>5, <1>6, <1>7, <1>8 DEF Next, ClientNext, Works

\* Every step leaves on the idle stack browsers of the current generation only.
LEMMA CurrentStep ==
    ASSUME TypeOK, Hands, Settled, IdleIsCurrent, [Next]_vars
    PROVE  IdleIsCurrent'
<1>0. /\ client \in [Clients -> [at : Places, has : SUBSET Browsers, gen : 0..MaxGeneration]]
      /\ browser \in [Browsers -> [state : States, gen : 0..MaxGeneration, scans : 0..MaxScans, dead : BOOLEAN]]
      /\ Apart /\ Lists /\ Once /\ ToSet(idle) \subseteq Browsers
  BY ListCount DEF TypeOK, Settled, Lists, Once
<1>1. CASE ToSet(idle') = ToSet(idle) /\ generation' = generation /\ \A b \in ToSet(idle) : browser'[b].gen = browser[b].gen
  BY <1>1 DEF IdleIsCurrent
<1>2. ASSUME NEW c \in Clients, TakeSlot(c) \/ LaunchFails(c) \/ Join(c) \/ Release(c) \/ ReturnSlot(c)
      PROVE  IdleIsCurrent'
  <2>1. idle' = idle /\ generation' = generation
    BY <1>2 DEF TakeSlot, LaunchFails, Join, Release, ReturnSlot, poolVars
  <2>2. \A b \in ToSet(idle) : browser[b].state = "runs"
    BY <1>0 DEF Settled, Known, Elsewhere
  <2>3. LaunchFails(c) \/ browser' = browser
    BY <1>2 DEF TakeSlot, Join, Release, ReturnSlot
  <2>a. \A x \in Browsers : (browser[x].state = "runs") => (browser'[x] = browser[x])
    BY <2>3, FailedLaunch
  <2>4. \A b \in ToSet(idle) : browser'[b] = browser[b]
    BY <1>0, <2>2, <2>a
  <2>5. QED
    BY <1>1, <2>1, <2>4
<1>3. ASSUME NEW c \in Clients, Take(c) PROVE IdleIsCurrent'
  <2>1. ToSet(idle') \subseteq ToSet(idle)
    BY <1>0, <1>3, TakeStep
  <2>2. generation' = generation /\ browser' = browser
    BY <1>3 DEF Take
  <2>3. QED
    BY <2>1, <2>2 DEF IdleIsCurrent
<1>4. ASSUME NEW c \in Clients, NEW b \in Browsers, Vet(c, b) \/ Check(c, b) \/ Open(c, b) \/ Discard(c, b)
      PROVE  IdleIsCurrent'
  <2>1. idle' = idle /\ generation' = generation
    BY <1>4 DEF Vet, Check, Open, Discard, poolVars
  <2>2. \A x \in Browsers : browser'[x].gen = browser[x].gen
    BY <1>0, <1>4 DEF Vet, Check, Open, Discard
  <2>3. QED
    BY <1>0, <1>1, <2>1, <2>2
<1>5. ASSUME NEW c \in Clients, NEW b \in Browsers, Launch(c, b) PROVE IdleIsCurrent'
  <2>1. b \notin ToSet(idle)
    BY <1>5 DEF Launch, Settled, Known, Elsewhere
  <2>2. idle' = idle /\ generation' = generation /\ \A x \in Browsers \ {b} : browser'[x] = browser[x]
    BY <1>0, <1>5 DEF Launch, poolVars
  <2>3. QED
    BY <1>0, <1>1, <2>1, <2>2
<1>6. ASSUME NEW c \in Clients, NEW b \in Browsers, Put(c, b) PROVE IdleIsCurrent'
  <2>1. browser' = browser /\ generation' = generation /\ client[c].has = {b}
    BY <1>6 DEF Put
  <2>2. CASE idle' = idle
    BY <1>1, <2>1, <2>2
  <2>3. CASE browser[b].gen = generation /\ idle' = Append(idle, b)
    <3>1. b \notin ToSet(idle) /\ idle \in Seq(Browsers) /\ Unique(idle)
      BY <1>0, <2>1 DEF Lists, Once, Apart, Elsewhere
    <3>2. ToSet(idle') = ToSet(idle) \cup {b}
      BY <2>3, <3>1, AppendToList
    <3>3. QED
      BY <2>1, <2>3, <3>2 DEF IdleIsCurrent
  <2>4. QED
    BY <1>6, <2>2, <2>3 DEF Put
<1>7. ASSUME NEW c \in Clients, NEW b \in Browsers, CloseReturned(c, b) \/ Recycle(c, b) \/ Abandon(c, b)
      PROVE  IdleIsCurrent'
  <2>1. client[c].has = {b}
    BY <1>7 DEF CloseReturned, Recycle, Abandon
  <2>2. b \notin ToSet(idle)
    BY <1>0, <2>1 DEF Apart, Elsewhere
  <2>3. idle' = idle /\ generation' = generation /\ \A x \in Browsers \ {b} : browser'[x] = browser[x]
    BY <1>0, <1>7 DEF CloseReturned, Recycle, Abandon, Ends, poolVars
  <2>4. QED
    BY <1>0, <1>1, <2>2, <2>3
<1>8. CASE Switch \/ TakeIdle
  BY <1>8, EmptyList DEF Switch, TakeIdle, IdleIsCurrent
<1>9. CASE CloseRetired
  <2>1. Head(retiring) \in ToSet(retiring) /\ Head(retiring) \in Browsers
    BY <1>0, <1>9, TailOfList DEF CloseRetired, Lists, Once
  <2>2. idle' = idle /\ generation' = generation /\ \A x \in Browsers \ {Head(retiring)} : browser'[x] = browser[x]
    BY <1>0, <1>9 DEF CloseRetired, Ends
  <2>3. QED
    BY <1>0, <1>1, <2>1, <2>2 DEF Apart
<1>10. CASE CloseIdle
  <2>1. Head(closer.closes) \in ToSet(closer.closes) /\ Head(closer.closes) \in Browsers
    BY <1>0, <1>10, TailOfList DEF CloseIdle, Lists, Once
  <2>2. idle' = idle /\ generation' = generation /\ \A x \in Browsers \ {Head(closer.closes)} : browser'[x] = browser[x]
    BY <1>0, <1>10 DEF CloseIdle, Ends
  <2>3. QED
    BY <1>0, <1>1, <2>1, <2>2 DEF Apart
<1>11. CASE StartClose \/ Drain \/ FinishClose \/ UNCHANGED vars
  BY <1>1, <1>11 DEF StartClose, Drain, FinishClose, vars, poolVars
<1>12. QED
  BY <1>2, <1>3, <1>4, <1>5, <1>6, <1>7, <1>8, <1>9, <1>10, <1>11
     DEF Next, ClientNext, Works, CloserNext

-----------------------------------------------------------------------------
(* The types.                                                                 *)

BrowserType == [state : States, gen : 0..MaxGeneration, scans : 0..MaxScans, dead : BOOLEAN]
ClientType == [at : Places, has : SUBSET Browsers, gen : 0..MaxGeneration]
CloserType == [at : {"rest", "drain", "close", "done"}, took : 0..Size, closes : Seq(Browsers)]

\* A client that goes on is still a client.
LEMMA ClientTyped ==
    ASSUME client \in [Clients -> ClientType], generation \in 0..MaxGeneration, NEW c \in Clients,
           NEW place \in Places, NEW b \in Browsers,
           \/ Goes(c, place) \/ GoesWith(c, place, b) \/ GoesWithout(c, place)
           \/ client' = [client EXCEPT ![c].at = place, ![c].gen = generation]
    PROVE  client' \in [Clients -> ClientType]
<1>0. client[c] \in ClientType
  OBVIOUS
<1>1. \A r \in ClientType : [client EXCEPT ![c] = r] \in [Clients -> ClientType]
  OBVIOUS
<1>2. \A h \in SUBSET Browsers : [client[c] EXCEPT !.at = place, !.has = h] \in ClientType
  BY <1>0 DEF ClientType
<1>3. \A h \in SUBSET Browsers : [client EXCEPT ![c].at = place, ![c].has = h] =
                                 [client EXCEPT ![c] = [client[c] EXCEPT !.at = place, !.has = h]]
  BY <1>0 DEF ClientType
<1>4. CASE Goes(c, place)
  BY <1>0, <1>4 DEF Goes, ClientType
<1>5. CASE GoesWith(c, place, b)
  <2>1. {b} \in SUBSET Browsers
    OBVIOUS
  <2>2. QED
    BY <1>1, <1>2, <1>3, <1>5, <2>1 DEF GoesWith
<1>6. CASE GoesWithout(c, place)
  <2>1. {} \in SUBSET Browsers
    OBVIOUS
  <2>2. QED
    BY <1>1, <1>2, <1>3, <1>6, <2>1 DEF GoesWithout
<1>7. CASE client' = [client EXCEPT ![c].at = place, ![c].gen = generation]
  <2>1. [client[c] EXCEPT !.at = place, !.gen = generation] \in ClientType
    BY <1>0 DEF ClientType
  <2>2. client' = [client EXCEPT ![c] = [client[c] EXCEPT !.at = place, !.gen = generation]]
    BY <1>0, <1>7 DEF ClientType
  <2>3. QED
    BY <1>1, <2>1, <2>2
<1>8. QED
  BY <1>4, <1>5, <1>6, <1>7

\* A browser that is launched, used, marked dead or closed is still a browser.
LEMMA BrowserTyped ==
    ASSUME browser \in [Browsers -> BrowserType], NEW b \in Browsers, NEW g \in 0..MaxGeneration,
           \/ Ends(b) \/ browser' = [browser EXCEPT ![b] = [Blank EXCEPT !.state = "runs", !.gen = g]]
           \/ browser' = [browser EXCEPT ![b] = [Blank EXCEPT !.state = "halfLaunched"]]
           \/ \E dead \in BOOLEAN : browser' = [browser EXCEPT ![b].dead = dead]
           \/ browser[b].scans < MaxScans /\ browser' = [browser EXCEPT ![b].scans = @ + 1]
    PROVE  browser' \in [Browsers -> BrowserType]
<1>0. browser[b] \in BrowserType /\ MaxScans \in Nat /\ MaxGeneration \in Nat
  BY SizeAssumption
<1>1. \A r \in BrowserType : [browser EXCEPT ![b] = r] \in [Browsers -> BrowserType]
  OBVIOUS
<1>2. /\ [Blank EXCEPT !.state = "runs", !.gen = g] \in BrowserType
      /\ \A end \in States : [Blank EXCEPT !.state = end] \in BrowserType
  <2>1. 0 \in 0..MaxScans /\ 0 \in 0..MaxGeneration
    BY <1>0
  <2>2. Blank \in BrowserType
    BY <2>1 DEF Blank, BrowserType, States
  <2>3. \A r \in BrowserType : [r EXCEPT !.state = "runs", !.gen = g] \in BrowserType
    BY DEF BrowserType, States
  <2>4. \A r \in BrowserType, end \in States : [r EXCEPT !.state = end] \in BrowserType
    BY DEF BrowserType
  <2>5. QED
    BY <2>2, <2>3, <2>4
<1>3. \A dead \in BOOLEAN : [browser EXCEPT ![b].dead = dead] \in [Browsers -> BrowserType]
  <2> TAKE dead \in BOOLEAN
  <2>1. [browser[b] EXCEPT !.dead = dead] \in BrowserType
    BY <1>0 DEF BrowserType
  <2>2. [browser EXCEPT ![b].dead = dead] = [browser EXCEPT ![b] = [browser[b] EXCEPT !.dead = dead]]
    OBVIOUS
  <2>3. QED
    BY <1>1, <2>1, <2>2
<1>4. CASE browser[b].scans < MaxScans /\ browser' = [browser EXCEPT ![b].scans = @ + 1]
  <2>1. browser[b].scans + 1 \in 0..MaxScans
    BY <1>0, <1>4 DEF BrowserType
  <2>2. [browser[b] EXCEPT !.scans = browser[b].scans + 1] \in BrowserType
    BY <1>0, <2>1 DEF BrowserType
  <2>3. browser' = [browser EXCEPT ![b] = [browser[b] EXCEPT !.scans = browser[b].scans + 1]]
    BY <1>4
  <2>4. QED
    BY <1>1, <2>2, <2>3
<1>5. {"none", "notRemoved", "halfLaunched"} \subseteq States
  BY DEF States, Left
<1>6. QED
  BY <1>1, <1>2, <1>3, <1>4, <1>5 DEF Ends

\* Every step leaves clients and browsers of their types.
LEMMA RecordsStep ==
    ASSUME TypeOK, Hands, Closing, Settled, [Next]_vars
    PROVE  client' \in [Clients -> ClientType] /\ browser' \in [Browsers -> BrowserType]
<1>0. /\ client \in [Clients -> ClientType] /\ browser \in [Browsers -> BrowserType]
      /\ generation \in 0..MaxGeneration /\ Lists /\ Once
  BY DEF TypeOK, ClientType, BrowserType, Lists, Settled
<1> DEFINE Typed == client' \in [Clients -> ClientType] /\ browser' \in [Browsers -> BrowserType]
<1>1. ASSUME NEW c \in Clients, TakeSlot(c) \/ LaunchFails(c) \/ Join(c) \/ Release(c) \/ ReturnSlot(c)
      PROVE  Typed
  <2>1. PICK place \in Places : Goes(c, place)
    BY <1>1 DEF TakeSlot, LaunchFails, Join, Release, ReturnSlot, Places
  <2>0. 0 \in 0..MaxGeneration
    BY SizeAssumption
  <2>2. browser' \in [Browsers -> BrowserType]
    BY <1>0, <1>1, <2>0, BrowserTyped DEF TakeSlot, LaunchFails, Join, Release, ReturnSlot
  <2>3. client' \in [Clients -> ClientType]
    BY <1>0, <2>1 DEF Goes, ClientType
  <2>4. QED
    BY <1>0, <2>2, <2>3
<1>2. ASSUME NEW c \in Clients, Take(c) PROVE Typed
  <2>1. browser' = browser
    BY <1>2 DEF Take
  <2>2. CASE Goes(c, "leave")
    BY <1>0, <2>1, <2>2 DEF Goes, Places, ClientType
  <2>3. CASE idle # <<>> /\ GoesWith(c, "vet", Last(idle))
    <3>1. Last(idle) \in Browsers /\ "vet" \in Places
      BY <1>0, <2>3, FrontOfList DEF Lists, Once, Places
    <3>2. QED
      BY <1>0, <2>1, <2>3, <3>1, ClientTyped
  <2>4. CASE client' = [client EXCEPT ![c].at = "launch", ![c].gen = generation]
    <3>1. "launch" \in Places
      BY DEF Places
    <3>2. [client[c] EXCEPT !.at = "launch", !.gen = generation] \in ClientType
      BY <1>0, <3>1 DEF ClientType
    <3>3. client' = [client EXCEPT ![c] = [client[c] EXCEPT !.at = "launch", !.gen = generation]]
      BY <1>0, <2>4 DEF ClientType
    <3>4. QED
      BY <1>0, <2>1, <3>2, <3>3
  <2>5. QED
    BY <1>2, <2>2, <2>3, <2>4 DEF Take
<1>3. ASSUME NEW c \in Clients, NEW b \in Browsers,
             \/ Vet(c, b) \/ Check(c, b) \/ Launch(c, b) \/ Open(c, b) \/ Discard(c, b)
             \/ Put(c, b) \/ CloseReturned(c, b) \/ Recycle(c, b) \/ Abandon(c, b)
      PROVE  Typed
  <2>1. \E place \in Places : Goes(c, place) \/ GoesWith(c, place, b) \/ GoesWithout(c, place)
    BY <1>3 DEF Vet, Check, Launch, Open, Discard, Put, CloseReturned, Recycle, Abandon, Places
  <2>2. client' \in [Clients -> ClientType]
    BY <1>0, <2>1, ClientTyped
  <2>3. CASE Launch(c, b)
    <3>1. client[c].gen \in 0..MaxGeneration
      BY <1>0 DEF ClientType
    <3>2. QED
      BY <1>0, <2>2, <2>3, <3>1, BrowserTyped DEF Launch
  <2>4. CASE Check(c, b)
    <3>1. PICK silent \in BOOLEAN : browser' = [browser EXCEPT ![b].dead = @ \/ silent]
      BY <2>4 DEF Check
    <3>2. PICK dead \in BOOLEAN : dead = (browser[b].dead \/ silent)
      OBVIOUS
    <3>3. browser' = [browser EXCEPT ![b].dead = dead]
      BY <3>1, <3>2
    <3>4. QED
      BY <1>0, <2>2, <3>3, BrowserTyped
  <2>5. CASE \/ Vet(c, b) \/ Open(c, b) \/ Discard(c, b) \/ Put(c, b)
             \/ CloseReturned(c, b) \/ Recycle(c, b) \/ Abandon(c, b)
    <3>1. \/ browser' = browser \/ Ends(b)
          \/ \E dead \in BOOLEAN : browser' = [browser EXCEPT ![b].dead = dead]
          \/ browser[b].scans < MaxScans /\ browser' = [browser EXCEPT ![b].scans = @ + 1]
      BY <2>5 DEF Vet, Open, Discard, Put, CloseReturned, Recycle, Abandon
    <3>2. QED
      BY <1>0, <2>2, <3>1, BrowserTyped
  <2>6. QED
    BY <1>3, <2>3, <2>4, <2>5
<1>4. CASE CloseRetired
  <2>1. Ends(Head(retiring)) /\ Head(retiring) \in Browsers /\ client' = client
    BY <1>0, <1>4, TailOfList DEF CloseRetired, Lists, Once
  <2>2. QED
    BY <1>0, <2>1, BrowserTyped
<1>5. CASE CloseIdle
  <2>1. Ends(Head(closer.closes)) /\ Head(closer.closes) \in Browsers /\ client' = client
    BY <1>0, <1>5, TailOfList DEF CloseIdle, Lists, Once
  <2>2. QED
    BY <1>0, <2>1, BrowserTyped
<1>6. CASE Switch \/ StartClose \/ Drain \/ TakeIdle \/ FinishClose \/ UNCHANGED vars
  BY <1>0, <1>6 DEF Switch, StartClose, Drain, TakeIdle, FinishClose, vars
<1>7. QED
  BY <1>1, <1>2, <1>3, <1>4, <1>5, <1>6 DEF Next, ClientNext, Works, CloserNext

\* Every step leaves the pool and Close of their types.
LEMMA PoolStep ==
    ASSUME TypeOK, Settled, [Next]_vars
    PROVE  closed' \in BOOLEAN /\ generation' \in 0..MaxGeneration /\ closer' \in CloserType
<1>0. closed \in BOOLEAN /\ generation \in 0..MaxGeneration /\ closer \in CloserType
      /\ MaxGeneration \in Nat /\ Size \in Nat /\ idle \in Seq(Browsers)
  BY SizeAssumption DEF TypeOK, CloserType
<1> DEFINE Typed == closed' \in BOOLEAN /\ generation' \in 0..MaxGeneration /\ closer' \in CloserType
<1>1. ASSUME NEW c \in Clients, TakeSlot(c) \/ LaunchFails(c) \/ Join(c) \/ Release(c) \/ ReturnSlot(c) \/ Take(c)
      PROVE  Typed
  BY <1>0, <1>1 DEF TakeSlot, LaunchFails, Join, Release, ReturnSlot, Take, poolVars, ends
<1>2. ASSUME NEW c \in Clients, NEW b \in Browsers,
             \/ Vet(c, b) \/ Check(c, b) \/ Launch(c, b) \/ Open(c, b) \/ Discard(c, b)
             \/ Put(c, b) \/ CloseReturned(c, b) \/ Recycle(c, b) \/ Abandon(c, b)
      PROVE  Typed
  BY <1>0, <1>2 DEF Vet, Check, Launch, Open, Discard, Put, CloseReturned, Recycle, Abandon, poolVars, ends
<1>3. CASE Switch \/ CloseRetired \/ UNCHANGED vars
  BY <1>0, <1>3 DEF Switch, CloseRetired, vars, poolVars, ends
<1>4. CASE StartClose \/ Drain \/ TakeIdle \/ FinishClose
  <2>1. generation' = generation /\ closed' \in BOOLEAN
    BY <1>0, <1>4 DEF StartClose, Drain, TakeIdle, FinishClose, poolVars
  <2>2. CASE Drain
    <3>1. closer.took + 1 \in 0..Size
      BY <1>0, <2>2 DEF Drain, CloserType
    <3>2. closer' \in CloserType
      BY <1>0, <2>2, <3>1 DEF Drain, CloserType
    <3>3. QED
      BY <1>0, <2>1, <3>2
  <2>3. CASE StartClose \/ TakeIdle \/ FinishClose
    BY <1>0, <2>1, <2>3 DEF StartClose, TakeIdle, FinishClose, CloserType
  <2>4. QED
    BY <1>4, <2>2, <2>3
<1>5. CASE CloseIdle
  <2>1. Tail(closer.closes) \in Seq(Browsers)
    BY <1>5, TailOfList DEF CloseIdle, Settled, Lists, Once
  <2>2. QED
    BY <1>0, <1>5, <2>1 DEF CloseIdle, CloserType
<1>6. QED
  BY <1>1, <1>2, <1>3, <1>4, <1>5 DEF Next, ClientNext, Works, CloserNext

\* No step takes a token the channel does not hold.
LEMMA SlotsStep ==
    ASSUME TypeOK, [Next]_vars
    PROVE  slots' \in Nat
<1>0. slots \in Nat /\ Size \in Nat
  BY SizeAssumption DEF TypeOK
<1>1. ASSUME NEW c \in Clients, TakeSlot(c) \/ LaunchFails(c) \/ Join(c) \/ Release(c) \/ ReturnSlot(c) \/ Take(c)
      PROVE  slots' \in Nat
  BY <1>0, <1>1 DEF TakeSlot, LaunchFails, Join, Release, ReturnSlot, Take
<1>2. ASSUME NEW c \in Clients, NEW b \in Browsers,
             \/ Vet(c, b) \/ Check(c, b) \/ Launch(c, b) \/ Open(c, b) \/ Discard(c, b)
             \/ Put(c, b) \/ CloseReturned(c, b) \/ Recycle(c, b) \/ Abandon(c, b)
      PROVE  slots' \in Nat
  BY <1>0, <1>2 DEF Vet, Check, Launch, Open, Discard, Put, CloseReturned, Recycle, Abandon
<1>3. CASE Switch \/ CloseRetired \/ CloserNext \/ UNCHANGED vars
  BY <1>0, <1>3 DEF Switch, CloseRetired, CloserNext, StartClose, Drain, TakeIdle, CloseIdle, FinishClose, vars
<1>4. QED
  BY <1>1, <1>2, <1>3 DEF Next, ClientNext, Works

-----------------------------------------------------------------------------
(* The invariant, and what follows from it.                                   *)

IInv == TypeOK /\ Hands /\ Settled /\ Counts /\ Tokens /\ Closing /\ Fresh /\ IdleIsCurrent

\* A new pool, with the browser of the probe or without, is in the invariant.
LEMMA InvInit == Init => IInv
<1> SUFFICES ASSUME Init PROVE IInv
  OBVIOUS
<1>0. Size \in Nat \ {0} /\ MaxScans \in Nat /\ MaxGeneration \in Nat
  BY SizeAssumption
<1>1. /\ client = [c \in Clients |-> [at |-> "wait", has |-> {}, gen |-> 0]]
      /\ closer = [at |-> "rest", took |-> 0, closes |-> <<>>] /\ retiring = <<>>
      /\ slots = Size /\ closed = FALSE /\ generation = 0 /\ live = Len(idle) /\ contexts \in BOOLEAN
  BY DEF Init
<1>2. idle \in Seq(Browsers) /\ Unique(idle) /\ (ToSet(idle) = {} \/ \E b \in Browsers : idle = <<b>> /\ ToSet(idle) = {b})
  <2>1. CASE idle = <<>>
    BY <2>1, EmptyList
  <2>2. ASSUME NEW b \in Browsers, idle = <<b>> PROVE idle \in Seq(Browsers) /\ Unique(idle) /\ ToSet(idle) = {b}
    BY <2>2 DEF Unique, ToSet
  <2>3. QED
    BY <2>1, <2>2, EmptyList DEF Init
<1>3. \A b \in Browsers : browser[b] = IF <<b>> = idle THEN [Blank EXCEPT !.state = "runs"] ELSE Blank
  BY DEF Init
<1>4. \A b \in Browsers : <<b>> = idle <=> b \in ToSet(idle)
  <2>1. \A b, x \in Browsers : <<b>> = <<x>> => b = x
    OBVIOUS
  <2>2. ASSUME NEW b \in Browsers, <<b>> = idle PROVE b \in ToSet(idle)
    BY <2>2 DEF ToSet
  <2>3. QED
    BY <1>2, <2>1, <2>2
<1>5. \A b \in Browsers : /\ browser[b].state = "runs" <=> b \in ToSet(idle)
                          /\ browser[b].scans = 0 /\ browser[b].gen = 0
  BY <1>3, <1>4 DEF Blank
<1>6. TypeOK
  <2>1. browser \in [Browsers -> [state : States, gen : 0..MaxGeneration, scans : 0..MaxScans, dead : BOOLEAN]]
    <3>1. /\ Blank \in BrowserType /\ [Blank EXCEPT !.state = "runs"] \in BrowserType
      <4>1. 0 \in 0..MaxScans /\ 0 \in 0..MaxGeneration
        BY <1>0
      <4>2. Blank \in BrowserType
        BY <4>1 DEF Blank, BrowserType, States
      <4>3. \A r \in BrowserType : [r EXCEPT !.state = "runs"] \in BrowserType
        BY DEF BrowserType, States
      <4>4. QED
        BY <4>2, <4>3
    <3>2. browser \in [Browsers -> BrowserType]
      BY <3>1 DEF Init
    <3>3. QED
      BY <3>2 DEF BrowserType
  <2>2. live \in Nat
    BY <1>1, <1>2, LenProperties
  <2>0. 0 \in 0..Size /\ 0 \in 0..MaxGeneration /\ slots \in 0..Size
    BY <1>0, <1>1
  <2>3. client \in [Clients -> [at : Places, has : SUBSET Browsers, gen : 0..MaxGeneration]]
    BY <1>1, <2>0 DEF Places
  <2>4. closer \in [at : {"rest", "drain", "close", "done"}, took : 0..Size, closes : Seq(Browsers)]
        /\ retiring \in Seq(Browsers)
    BY <1>1, <2>0, EmptyList
  <2>5. QED
    BY <1>1, <1>2, <2>0, <2>1, <2>2, <2>3, <2>4 DEF TypeOK
<1>7. Hands
  BY <1>1 DEF Hands, Bare
<1>8. ToSet(retiring) = {} /\ ToSet(closer.closes) = {} /\ Elsewhere = ToSet(idle)
  BY <1>1, EmptyList DEF Elsewhere
<1>9. Settled
  BY <1>1, <1>2, <1>5, <1>8, EmptyList DEF Settled, Lists, Once, Apart, Known
<1>10. Counts
  <2>1. Held = {}
    BY <1>1 DEF Held, Counted
  <2>2. QED
    BY <1>1, <1>2, <1>8, <2>1, ListCount DEF Counts, Kept
<1>11. Tokens
  <2>1. Away = {}
    BY <1>1 DEF Away
  <2>2. QED
    BY <1>0, <1>1, <2>1, FS_EmptySet DEF Tokens
<1>12. Closing /\ Fresh
  BY <1>1 DEF Closing, Fresh
<1>13. IdleIsCurrent
  BY <1>1, <1>2, <1>5 DEF IdleIsCurrent
<1>14. QED
  BY <1>6, <1>7, <1>9, <1>10, <1>11, <1>12, <1>13 DEF IInv

\* Every step keeps the invariant.
LEMMA InvStep == IInv /\ [Next]_vars => IInv'
<1> SUFFICES ASSUME IInv, [Next]_vars PROVE IInv'
  OBVIOUS
<1> USE DEF IInv
<1>1. Hands' /\ Settled' /\ Counts' /\ Tokens' /\ Closing' /\ Fresh' /\ IdleIsCurrent'
  BY HandsStep, SettledStep, CountsStep, TokensStep, ClosingStep, FreshStep, CurrentStep DEF Settled
<1>2. /\ client' \in [Clients -> ClientType] /\ browser' \in [Browsers -> BrowserType]
      /\ closed' \in BOOLEAN /\ generation' \in 0..MaxGeneration /\ closer' \in CloserType
      /\ contexts' \in BOOLEAN /\ slots' \in Nat
  BY RecordsStep, PoolStep, SlotsStep, ProbedOnce DEF TypeOK
<1>3. live' \in Nat
  <2>1. Cardinality(Kept') \in Nat
    <3>1. Kept' \subseteq Browsers
      BY <1>1, ListCount DEF Kept, Held, Elsewhere, Settled, Lists, Once
    <3>2. QED
      BY <3>1, SetsAssumption, FS_Subset, FS_CardinalityType
  <2>2. QED
    BY <1>1, <2>1 DEF Counts
<1>4. slots' \in 0..Size
  <2>1. Cardinality(Away') \in Nat
    <3>1. Away' \in SUBSET Clients
      BY DEF Away
    <3>2. QED
      BY <3>1, SetsAssumption, FS_Subset, FS_CardinalityType
  <2>2. slots' + closer'.took + Cardinality(Away') = Size /\ closer'.took \in 0..Size /\ Size \in Nat
    BY <1>1, <1>2, SizeAssumption DEF Tokens, CloserType
  <2>3. QED
    BY <1>2, <2>1, <2>2
<1>5. TypeOK'
  BY <1>1, <1>2, <1>3, <1>4 DEF TypeOK, ClientType, BrowserType, CloserType, Settled, Lists
<1>6. QED
  BY <1>1, <1>5

\* For any numbers of clients, browsers and slots the invariant holds at every moment.
THEOREM Invariance == Spec => []IInv
<1>1. Init => IInv
  BY InvInit
<1>2. IInv /\ [Next]_vars => IInv'
  BY InvStep
<1>3. QED
  BY <1>1, <1>2, PTL DEF Spec

\* Every variable keeps its type: no token is ever minted beyond Size, and the counter of
\* live browsers never falls below zero.
THEOREM TypeCorrect == Spec => []TypeOK
<1>1. IInv => TypeOK
  BY DEF IInv
<1>2. QED
  BY <1>1, Invariance, PTL

\* No browser of an older image waits for a scan, however takes, returns and switches
\* interleave (put and Switch under the same lock).
THEOREM IdleStaysCurrent == Spec => []IdleIsCurrent
<1>1. IInv => IdleIsCurrent
  BY DEF IInv
<1>2. QED
  BY <1>1, Invariance, PTL

\* Close that has every slot is alone: no client is between Acquire and put.
LEMMA EverySlotTaken ==
    ASSUME IInv, closer.took = Size
    PROVE  Away = {} /\ \A c \in Clients : client[c].at = "wait" /\ client[c].has = {}
<1>1. Cardinality(Away) = 0
  <2>1. Cardinality(Away) \in Nat /\ slots \in Nat /\ Size \in Nat
    BY AwayIsFinite, SizeAssumption DEF IInv, TypeOK
  <2>2. QED
    BY <2>1 DEF IInv, Tokens
<1>2. Away = {}
  BY <1>1, AwayIsFinite, FS_EmptySet
<1>3. QED
  BY <1>2 DEF Away, IInv, Hands, Bare

\* Close leaves nothing of any browser, whatever was being launched, checked or given back
\* when it was called, but what Switch is closing, what a failed launch left and what
\* refused to be removed.
THEOREM CloseLeavesNone == Spec => []NoneOutlivesClose
<1>1. ASSUME IInv, closer.at = "done", NEW b \in Browsers, browser[b].state = "runs" PROVE b \in ToSet(retiring)
  <2>1. idle = <<>> /\ closer.closes = <<>> /\ closer.took = Size
    BY <1>1 DEF IInv, Closing
  <2>2. \A c \in Clients : client[c].has = {}
    BY <1>1, <2>1, EverySlotTaken
  <2>3. b \in Elsewhere
    BY <1>1, <2>2 DEF IInv, Settled, Known
  <2>4. QED
    BY <2>1, <2>3, EmptyList DEF Elsewhere
<1>2. IInv => NoneOutlivesClose
  <2>1. ASSUME IInv, NEW b \in Browsers PROVE browser[b].state \in {"none", "runs"} \cup Left
    BY <2>1 DEF IInv, TypeOK, States
  <2>2. QED
    BY <1>1, <2>1 DEF NoneOutlivesClose
<1>3. QED
  BY <1>2, Invariance, PTL

\* Two sets that share nothing count as their sum.
LEMMA DisjointUnion ==
    ASSUME NEW S, NEW T, IsFiniteSet(S), IsFiniteSet(T), S \cap T = {}
    PROVE  IsFiniteSet(S \cup T) /\ Cardinality(S \cup T) = Cardinality(S) + Cardinality(T)
<1>1. /\ IsFiniteSet(S \cup T)
      /\ Cardinality(S \cup T) = Cardinality(S) + Cardinality(T) - Cardinality(S \cap T)
  BY FS_Union
<1>2. Cardinality(S) \in Nat /\ Cardinality(T) \in Nat
  BY FS_CardinalityType
<1>3. Cardinality(S \cap T) = 0
  BY FS_EmptySet
<1>4. QED
  BY <1>1, <1>2, <1>3

\* Four sets that share nothing count as their sum.
LEMMA FourParts ==
    ASSUME NEW S, NEW T, NEW U, NEW V, IsFiniteSet(S), IsFiniteSet(T), IsFiniteSet(U), IsFiniteSet(V),
           S \cap (T \cup U \cup V) = {}, T \cap U = {}, (T \cup U) \cap V = {}
    PROVE  Cardinality(S \cup (T \cup U \cup V)) = Cardinality(S) + Cardinality(T) + Cardinality(U) + Cardinality(V)
<1>1. /\ IsFiniteSet(T \cup U) /\ Cardinality(T \cup U) = Cardinality(T) + Cardinality(U)
  BY DisjointUnion
<1>2. /\ IsFiniteSet(T \cup U \cup V)
      /\ Cardinality(T \cup U \cup V) = Cardinality(T) + Cardinality(U) + Cardinality(V)
  BY <1>1, DisjointUnion
<1>3. Cardinality(S \cup (T \cup U \cup V)) = Cardinality(S) + Cardinality(T \cup U \cup V)
  BY <1>2, DisjointUnion
<1>4. /\ Cardinality(S) \in Nat /\ Cardinality(T) \in Nat /\ Cardinality(U) \in Nat /\ Cardinality(V) \in Nat
  BY FS_CardinalityType
<1>5. QED
  BY <1>2, <1>3, <1>4

\* The counter of live browsers equals what is leased, idle and being closed, at every
\* moment of every interleaving, and no browser is counted in two of them.
THEOREM LiveStaysTrue == Spec => []LiveIsTrue
<1>1. ASSUME IInv PROVE LiveIsTrue
  <2>1. /\ Lists /\ Once /\ Apart /\ Counts
    BY <1>1 DEF IInv, Settled
  <2>2. /\ IsFiniteSet(ToSet(idle)) /\ Cardinality(ToSet(idle)) = Len(idle)
        /\ IsFiniteSet(ToSet(retiring)) /\ Cardinality(ToSet(retiring)) = Len(retiring)
        /\ IsFiniteSet(ToSet(closer.closes)) /\ Cardinality(ToSet(closer.closes)) = Len(closer.closes)
    BY <2>1, ListCount DEF Lists, Once
  <2>3. IsFiniteSet(Held)
    BY SetsAssumption, FS_Subset DEF Held
  <2>4. /\ Held \cap Elsewhere = {}
        /\ ToSet(idle) \cap ToSet(retiring) = {}
        /\ (ToSet(idle) \cup ToSet(retiring)) \cap ToSet(closer.closes) = {}
    BY <2>1 DEF Held, Apart
  <2>5. Cardinality(Held \cup Elsewhere) =
            Cardinality(Held) + Cardinality(ToSet(idle)) + Cardinality(ToSet(retiring)) + Cardinality(ToSet(closer.closes))
    BY <2>2, <2>3, <2>4, FourParts DEF Elsewhere
  <2>6. live = Cardinality(Held \cup Elsewhere)
    BY <2>1 DEF Counts, Kept
  <2>7. QED
    BY <2>2, <2>5, <2>6 DEF LiveIsTrue
<1>2. QED
  BY <1>1, Invariance, PTL

-----------------------------------------------------------------------------
(* The pool implements Leases.                                                *)

Serves == [c \in Clients |-> IF At(c, "scan") THEN client[c].has ELSE {}]
Used == {b \in Browsers : browser[b].scans > 0}
HasShut == closer.at \in {"close", "done"}
Busy == UNION {Serves[c] : c \in Clients}

\* A client about to open a context has a slot that no scan has, so one fewer scans than
\* slots are running.
LEMMA FewerThanSize ==
    ASSUME IInv, NEW c \in Clients, client[c].at = "open"
    PROVE  Cardinality(Busy) < Size
<1> DEFINE Scanning == {d \in Clients : client[d].at = "scan"}
           F == [d \in Scanning |-> CHOOSE b \in Browsers : client[d].has = {b}]
<1>1. c \in Away /\ Scanning \subseteq Away \ {c}
  BY DEF Away
<1>2. IsFiniteSet(Away \ {c}) /\ Cardinality(Away \ {c}) = Cardinality(Away) - 1 /\ Cardinality(Away) \in Nat
  BY <1>1, AwayIsFinite, FS_Subset
<1>3. IsFiniteSet(Scanning) /\ Cardinality(Scanning) <= Cardinality(Away \ {c}) /\ Cardinality(Scanning) \in Nat
  BY <1>1, <1>2, FS_Subset, FS_CardinalityType
<1>4. \A d \in Scanning : F[d] \in Browsers /\ client[d].has = {F[d]}
  BY DEF IInv, Hands, Bare
<1>5. Busy = {F[d] : d \in Scanning}
  <2>1. \A d \in Clients : Serves[d] = IF d \in Scanning THEN {F[d]} ELSE {}
    BY <1>4 DEF Serves, At
  <2>2. ASSUME NEW b \in Busy PROVE b \in {F[d] : d \in Scanning}
    <3>1. PICK d \in Clients : b \in Serves[d]
      BY DEF Busy
    <3>2. QED
      BY <2>1, <3>1
  <2>3. ASSUME NEW d \in Scanning PROVE F[d] \in Busy
    <3>1. d \in Clients /\ F[d] \in Serves[d]
      BY <2>1
    <3>2. QED
      BY <3>1 DEF Busy
  <2>4. QED
    BY <2>2, <2>3
<1>6. F \in Surjection(Scanning, Busy)
  BY <1>5 DEF Surjection
<1>7. Cardinality(Busy) <= Cardinality(Scanning) /\ IsFiniteSet(Busy)
  BY <1>3, <1>6, FS_Surjection
<1>8. Cardinality(Busy) \in Nat
  BY <1>7, FS_CardinalityType
<1>9. Cardinality(Away) <= Size
  BY <1>2, SizeAssumption DEF IInv, Tokens, TypeOK
<1>10. QED
  BY <1>2, <1>3, <1>7, <1>8, <1>9, SizeAssumption

\* A step that starts and ends no scan.
LEMMA ServesSame ==
    ASSUME \A c \in Clients : \/ client[c].at # "scan" /\ client'[c].at # "scan"
                              \/ client[c].at = "scan" /\ client'[c].at = "scan" /\ client'[c].has = client[c].has
    PROVE  Serves' = Serves
BY DEF Serves, At

\* A step that changes nothing the promise speaks of is a stutter of it.
LEMMA Idles ==
    ASSUME Serves' = Serves, Used' = Used, contexts' = contexts, HasShut' = HasShut
    PROVE  UNCHANGED Promise!vars
BY DEF Serves, Used, HasShut, Promise!vars

\* A step that ends a scan is the end of its lease.
LEMMA Yields ==
    ASSUME IInv, NEW c \in Clients, client[c].at = "scan", client'[c].at # "scan",
           \A d \in Clients \ {c} : client'[d] = client[d],
           Used' = Used, contexts' = contexts, HasShut' = HasShut
    PROVE  Promise!Next
<1>1. Serves[c] # {} /\ Serves' = [Serves EXCEPT ![c] = {}]
  BY DEF Serves, At, IInv, Hands, Bare
<1>2. Promise!Yield(c)
  BY <1>1 DEF Promise!Yield, Serves, Used, HasShut
<1>3. QED
  BY <1>2 DEF Promise!Next

\* Closing a browser that no scan runs in replaces it, or is a stutter when it is unused.
LEMMA Replaces ==
    ASSUME IInv, NEW b \in Browsers, Ends(b), Serves' = Serves, contexts' = contexts, HasShut' = HasShut,
           b \notin Busy
    PROVE  [Promise!Next]_Promise!vars
<1>1. Used' = Used \ {b}
  BY DEF Used, Ends, Blank, IInv, TypeOK
<1>2. CASE b \in Used
  <2>1. Promise!Replace(b)
    BY <1>1, <1>2 DEF Promise!Replace, Promise!Busy, Busy, Serves, Used, HasShut
  <2>2. QED
    BY <2>1 DEF Promise!Next
<1>3. CASE b \notin Used
  BY <1>1, <1>3, Idles
<1>4. QED
  BY <1>2, <1>3

\* A new pool is a new promise.
LEMMA LeasesInit == Init => Promise!Init
<1> SUFFICES ASSUME Init PROVE Promise!Init
  OBVIOUS
<1>1. IInv
  BY InvInit
<1>2. Serves = [c \in Clients |-> {}] /\ ~HasShut /\ contexts \in BOOLEAN
  BY DEF Init, Serves, At, HasShut
<1>3. Used = {}
  BY DEF Init, Used, Blank
<1>4. QED
  BY <1>2, <1>3 DEF Promise!Init, Serves, Used, HasShut

\* Every step of the pool is a step of the promise or a stutter.
LEMMA LeasesStep ==
    ASSUME IInv, [Next]_vars
    PROVE  [Promise!Next]_Promise!vars
<1>0. /\ client \in [Clients -> [at : Places, has : SUBSET Browsers, gen : 0..MaxGeneration]]
      /\ browser \in [Browsers -> [state : States, gen : 0..MaxGeneration, scans : 0..MaxScans, dead : BOOLEAN]]
      /\ closer \in [at : {"rest", "drain", "close", "done"}, took : 0..Size, closes : Seq(Browsers)]
      /\ TypeOK /\ Hands /\ Lists /\ Once /\ Apart /\ contexts' = contexts
  BY ProbedOnce DEF IInv, TypeOK, Settled
<1>busy. ASSUME NEW c \in Clients, NEW b \in Browsers, client[c].has = {b}, client[c].at # "scan"
         PROVE  b \notin Busy
  <2>1. ASSUME NEW d \in Clients, b \in Serves[d] PROVE FALSE
    <3>1. client[d].at = "scan" /\ b \in client[d].has
      BY <2>1 DEF Serves, At
    <3>2. QED
      BY <1>0, <1>busy, <3>1 DEF Apart
  <2>2. QED
    BY <2>1 DEF Busy
<1>else. \A b \in Elsewhere : b \notin Busy
  BY <1>0 DEF Busy, Serves, At, Apart
<1>1. ASSUME NEW c \in Clients, TakeSlot(c) \/ LaunchFails(c) \/ Join(c) \/ ReturnSlot(c)
      PROVE  UNCHANGED Promise!vars
  <2>0. closer' = closer /\ (LaunchFails(c) \/ browser' = browser)
    BY <1>1 DEF TakeSlot, LaunchFails, Join, ReturnSlot, ends
  <2>a. TypeOK /\ Settled
    BY DEF IInv
  <2>b. \A x \in Browsers : browser'[x].scans = browser[x].scans
    BY <2>0, <2>a, FailedLaunch
  <2>1. closer' = closer /\ \A x \in Browsers : browser'[x].scans = browser[x].scans
    BY <2>0, <2>b
  <2>2. PICK place \in Places : Goes(c, place) /\ client[c].at # "scan" /\ place # "scan"
    BY <1>1 DEF TakeSlot, LaunchFails, Join, ReturnSlot, Places, At
  <2>3. Serves' = Serves
    BY <1>0, <2>2, GoesKeeps, ServesSame
  <2>4. QED
    BY <1>0, <2>1, <2>3, Idles DEF Used, HasShut
<1>2. ASSUME NEW c \in Clients, Release(c) PROVE Promise!Next
  <2>1. browser' = browser /\ closer' = closer /\ client[c].at = "scan" /\ Goes(c, "put")
    BY <1>2 DEF Release, ends, At
  <2>2. client'[c].at = "put" /\ \A d \in Clients \ {c} : client'[d] = client[d]
    BY <1>0, <2>1, GoesKeeps DEF Places
  <2>3. QED
    BY <1>0, <2>1, <2>2, Yields DEF Used, HasShut
<1>3. ASSUME NEW c \in Clients, Take(c) PROVE UNCHANGED Promise!vars
  <2>1. browser' = browser /\ closer' = closer /\ client[c].at = "take"
    BY <1>3 DEF Take, ends, At
  <2>2. client'[c].at # "scan" /\ \A d \in Clients \ {c} : client'[d] = client[d]
    BY <1>0, <1>3 DEF Take, Goes, GoesWith
  <2>3. Serves' = Serves
    BY <2>1, <2>2, ServesSame
  <2>4. QED
    BY <1>0, <2>1, <2>3, Idles DEF Used, HasShut
<1>4. ASSUME NEW c \in Clients, NEW b \in Browsers, Vet(c, b) \/ Check(c, b) PROVE UNCHANGED Promise!vars
  <2>1. closer' = closer
    BY <1>4 DEF Vet, Check, ends
  <2>2. PICK place \in Places : Goes(c, place) /\ client[c].at # "scan" /\ place # "scan"
    BY <1>4 DEF Vet, Check, Places, At
  <2>3. Serves' = Serves
    BY <1>0, <2>2, GoesKeeps, ServesSame
  <2>4. \A x \in Browsers : browser'[x].scans = browser[x].scans
    <3>1. CASE Vet(c, b)
      BY <3>1 DEF Vet
    <3>2. CASE Check(c, b)
      BY <1>0, <3>2 DEF Check
    <3>3. QED
      BY <1>4, <3>1, <3>2
  <2>5. QED
    BY <1>0, <2>1, <2>3, <2>4, Idles DEF Used, HasShut
<1>5. ASSUME NEW c \in Clients, NEW b \in Browsers, Launch(c, b) PROVE UNCHANGED Promise!vars
  <2>1. /\ closer' = closer /\ client[c].at = "launch" /\ client'[c].at = "join"
        /\ \A d \in Clients \ {c} : client'[d] = client[d]
    BY <1>0, <1>5 DEF Launch, GoesWith, ends, At
  <2>2. Serves' = Serves
    BY <2>1, ServesSame
  <2>3. browser[b].scans = 0 /\ browser'[b].scans = 0 /\ \A x \in Browsers \ {b} : browser'[x] = browser[x]
    BY <1>0, <1>5 DEF Launch, Blank, IInv, Settled, Known
  <2>4. Used' = Used
    BY <2>3 DEF Used
  <2>5. QED
    BY <1>0, <2>1, <2>2, <2>4, Idles DEF HasShut
<1>6. ASSUME NEW c \in Clients, NEW b \in Browsers, Open(c, b) PROVE Promise!Next
  <2>1. /\ closer' = closer /\ client[c].at = "open" /\ client[c].has = {b}
        /\ client'[c].at = "scan" /\ client'[c].has = {b}
        /\ \A d \in Clients \ {c} : client'[d] = client[d]
        /\ \A x \in Browsers \ {b} : browser'[x] = browser[x]
        /\ browser'[b].scans > 0
    BY <1>0, <1>6, SizeAssumption DEF Open, Goes, ends, At
  <2>2. ~HasShut
    <3>1. CASE closer.took = Size
      BY <2>1, <3>1, EverySlotTaken
    <3>2. CASE closer.took # Size
      BY <3>2 DEF IInv, Closing, HasShut
    <3>3. QED
      BY <3>1, <3>2
  <2>3. Serves[c] = {} /\ Serves' = [Serves EXCEPT ![c] = {b}]
    BY <2>1 DEF Serves, At
  <2>4. b \notin Busy /\ Cardinality(Busy) < Size
    BY <1>busy, <2>1, FewerThanSize
  <2>5. contexts \/ b \notin Used
    BY <2>1 DEF IInv, Fresh, Used
  <2>6. Used' = Used \cup {b}
    BY <2>1 DEF Used
  <2>7. Promise!Grant(c, b)
    <3>1. Promise!Busy = Busy
      BY DEF Promise!Busy, Busy, Serves
    <3>2. HasShut' = HasShut
      BY <2>1 DEF HasShut
    <3>3. Serves[c] = {} /\ Serves' = [Serves EXCEPT ![c] = {b}] /\ Used' = Used \cup {b} /\ (contexts \/ b \notin Used)
      BY <2>3, <2>5, <2>6
    <3>4. ~HasShut /\ HasShut' = HasShut /\ contexts' = contexts
      BY <1>0, <2>2, <3>2
    <3>5. b \notin Promise!Busy /\ Promise!Cardinality(Promise!Busy) < Size
      <4>1. Promise!Cardinality(Busy) = Cardinality(Busy)
        BY DEF Promise!Cardinality, Cardinality
      <4>2. QED
        BY <2>4, <3>1, <4>1
    <3>6. QED
      BY <3>3, <3>4, <3>5 DEF Promise!Grant, Serves, Used, HasShut, At
  <2>8. QED
    BY <2>7 DEF Promise!Next
<1>7. ASSUME NEW c \in Clients, NEW b \in Browsers, Discard(c, b) PROVE [Promise!Next]_Promise!vars
  <2>1. closer' = closer /\ Goes(c, "put") /\ client[c].at \in {"open", "scan"}
    BY <1>7 DEF Discard, ends
  <2>2. client'[c].at = "put" /\ \A d \in Clients \ {c} : client'[d] = client[d]
    BY <1>0, <2>1, GoesKeeps DEF Places
  <2>3. \A x \in Browsers : browser'[x].scans = browser[x].scans
    BY <1>0, <1>7 DEF Discard
  <2>4. Used' = Used /\ HasShut' = HasShut
    BY <2>1, <2>3 DEF Used, HasShut
  <2>5. CASE client[c].at = "scan"
    BY <1>0, <2>2, <2>4, <2>5, Yields
  <2>6. CASE client[c].at = "open"
    <3>1. Serves' = Serves
      BY <2>2, <2>6, ServesSame
    <3>2. QED
      BY <1>0, <2>4, <3>1, Idles
  <2>7. QED
    BY <2>1, <2>5, <2>6
<1>8. ASSUME NEW c \in Clients, NEW b \in Browsers, Put(c, b) PROVE UNCHANGED Promise!vars
  <2>1. /\ closer' = closer /\ browser' = browser /\ client[c].at = "put" /\ client'[c].at # "scan"
        /\ \A d \in Clients \ {c} : client'[d] = client[d]
    BY <1>0, <1>8 DEF Put, ends, At, Goes, GoesWithout
  <2>2. Serves' = Serves
    BY <2>1, ServesSame
  <2>3. QED
    BY <1>0, <2>1, <2>2, Idles DEF Used, HasShut
<1>9. ASSUME NEW c \in Clients, NEW b \in Browsers, CloseReturned(c, b) \/ Recycle(c, b) \/ Abandon(c, b)
      PROVE  [Promise!Next]_Promise!vars
  <2>1. /\ closer' = closer /\ Ends(b) /\ client[c].has = {b}
        /\ client[c].at # "scan" /\ client'[c].at # "scan"
        /\ \A d \in Clients \ {c} : client'[d] = client[d]
    BY <1>0, <1>9 DEF CloseReturned, Recycle, Abandon, ends, At, GoesWithout
  <2>2. Serves' = Serves
    BY <2>1, ServesSame
  <2>3. QED
    BY <1>0, <1>busy, <2>1, <2>2, Replaces DEF HasShut
<1>10. CASE CloseRetired
  <2>1. Ends(Head(retiring)) /\ Head(retiring) \in Browsers /\ Head(retiring) \in Elsewhere
    BY <1>0, <1>10, TailOfList DEF CloseRetired, Lists, Once, Elsewhere
  <2>2. client' = client /\ closer' = closer
    BY <1>10 DEF CloseRetired
  <2>3. QED
    BY <1>0, <1>else, <2>1, <2>2, Replaces DEF HasShut, Serves, At
<1>11. CASE CloseIdle
  <2>1. Ends(Head(closer.closes)) /\ Head(closer.closes) \in Browsers /\ Head(closer.closes) \in Elsewhere
    BY <1>0, <1>11, TailOfList DEF CloseIdle, Lists, Once, Elsewhere
  <2>2. client' = client /\ closer'.at = closer.at
    BY <1>0, <1>11 DEF CloseIdle
  <2>3. QED
    BY <1>0, <1>else, <2>1, <2>2, Replaces DEF HasShut, Serves, At
<1>12. CASE TakeIdle
  <2>1. client' = client /\ browser' = browser /\ closer.took = Size /\ ~HasShut /\ HasShut'
    BY <1>0, <1>12 DEF TakeIdle, HasShut
  <2>2. \A c \in Clients : Serves[c] = {}
    BY <2>1, EverySlotTaken DEF Serves, At
  <2>3. Busy = {}
    BY <2>2 DEF Busy
  <2>4. Serves' = Serves /\ Used' = Used
    BY <2>1 DEF Serves, At, Used
  <2>5. Promise!Shut
    BY <1>0, <2>1, <2>3, <2>4 DEF Promise!Shut, Promise!Busy, Busy, Serves, Used, HasShut
  <2>6. QED
    BY <2>5 DEF Promise!Next
<1>13. CASE Switch \/ StartClose \/ Drain \/ FinishClose \/ UNCHANGED vars
  <2>1. client' = client /\ browser' = browser
    BY <1>13 DEF Switch, StartClose, Drain, FinishClose, vars
  <2>2. HasShut' = HasShut
    BY <1>0, <1>13 DEF Switch, StartClose, Drain, FinishClose, vars, ends, HasShut
  <2>3. QED
    BY <1>0, <2>1, <2>2, Idles DEF Serves, At, Used
<1>14. QED
  BY <1>1, <1>2, <1>3, <1>4, <1>5, <1>6, <1>7, <1>8, <1>9, <1>10, <1>11, <1>12, <1>13
     DEF Next, ClientNext, Works, CloserNext

\* The pool implements the promise: never more scans than slots, no two in one browser,
\* none in a used browser that cannot separate them, none after the pool has shut.
THEOREM KeepsItsLeases == Spec => LeasesAreKept
<1>1. IInv /\ [Next]_vars => [Promise!Next]_Promise!vars
  BY LeasesStep
<1>2. QED
  BY LeasesInit, <1>1, Invariance, PTL DEF Spec, LeasesAreKept, Promise!Spec
================================================================================
