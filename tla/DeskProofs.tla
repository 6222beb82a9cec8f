------------------------------- MODULE DeskProofs -------------------------------
(* What Desk promises, for every value of its constants: of typed addresses,   *)
(* of what a comparison says, of what browsers leave behind, of a reload, of   *)
(* shared links, of the settings of a target and of the keys of assets.  Each  *)
(* machine has an inductive invariant and a lemma per action; the theorems at  *)
(* the end are of their sum.                                                   *)
EXTENDS Desk, TLAPS, FiniteSetTheorems, WellFoundedInduction

\* ScanDesk and Drift count with operators of their own.
LEMMA Counting ==
    \A T : /\ U!Cardinality(T) = Cardinality(T) /\ D!Cardinality(T) = Cardinality(T)
           /\ (U!IsFiniteSet(T) <=> IsFiniteSet(T)) /\ (D!IsFiniteSet(T) <=> IsFiniteSet(T))
BY DEF U!Cardinality, D!Cardinality, U!IsFiniteSet, D!IsFiniteSet, Cardinality, IsFiniteSet

LEMMA Least == ASSUME NEW X, X \subseteq Nat, X # {} PROVE \E m \in X : \A l \in X : m <= l
<1> DEFINE Less == OpToRel(<, Nat)
<1>1. \A x, y \in Nat : <<y, x>> \in Less <=> y < x
  BY DEF OpToRel
<1>2. IsWellFoundedOn(Less, Nat)
  BY NatLessThanWellFounded
<1> HIDE DEF Less
<1>3. PICK m \in X : \A l \in X : ~ (<<l, m>> \in Less)
  BY <1>2, WFMin
<1>4. m \in Nat /\ \A l \in X : l \in Nat /\ ~ (l < m)
  BY <1>1, <1>3
<1>5. \A l \in X : m <= l
  BY <1>4
<1>6. QED
  BY <1>5

-----------------------------------------------------------------------------
(* ScanDesk: presses, the budget and the scans.                               *)

PressAt == {"idle", "look", "take", "begin", "start", "scan", "over"}
PressType == [at : PressAt, name : U!TargetNames, url : BOOLEAN]
DeskTyped ==
    /\ now \in 0..MaxTime /\ press \in [Presses -> PressType]
    /\ budget \subseteq [by : Presses, at : 0..MaxTime]
    /\ live \subseteq [who : Presses \cup {U!Scheduler}, name : U!TargetNames, began : 0..MaxTime]
    /\ stored \subseteq [name : U!TargetNames, began : 0..MaxTime]
    /\ admitted \in [Presses -> SUBSET (0..MaxTime)] /\ knew \in [Presses -> SUBSET stored]
    /\ \A p \in Presses : press[p].at \in {"take", "begin"} => press[p].url

\* A press has at most one scan, of its own name, and has it while it waits for it.
ScansOfPresses ==
    /\ \A p \in Presses : press[p].at = "scan" <=> \E s \in live : s.who = p
    /\ \A s \in live : s.who \in Presses =>
         s.name = press[s.who].name /\ \A t \in live : t.who = s.who => t = s

\* Whoever was let in less than an hour ago is still in the budget.
Admits(p, from) == \E a \in admitted[p] : a \in from..(from + Hour - 1)
Budgeted ==
    /\ IsFiniteSet(budget) /\ Cardinality(budget) <= Limit
    /\ \A p \in Presses : \A a \in admitted[p] :
         a <= now /\ (now - a < Hour => [by |-> p, at |-> a] \in budget)
    /\ \A t \in 0..MaxTime : Cardinality({p \in Presses : Admits(p, t)}) <= Limit

\* What the store knew of when p last looked is past its rest.
Rested(p, when) == \A e \in knew[p] : e.name = press[p].name => e.began + MinInterval <= when
RestIsKept ==
    /\ \A p \in Presses : press[p].url /\ press[p].at = "start" => Rested(p, now)
    /\ \A s \in live : s.who \in Presses /\ press[s.who].url => Rested(s.who, s.began)
DeskInv == DeskTyped /\ ScansOfPresses /\ Budgeted /\ RestIsKept

LEMMA DeskConstants ==
    /\ Limit \in Nat /\ Hour \in Nat /\ Hour > 0 /\ MinInterval \in Nat /\ MaxTime \in Nat
    /\ IsFiniteSet(Presses) /\ U!Scheduler \notin Presses
BY DeskAssumption, Counting DEF U!DeskAssumption, U!Scheduler

LEMMA PressFields ==
    ASSUME NEW q \in PressType, NEW place \in PressAt
    PROVE  /\ q.at \in PressAt /\ q.name \in U!TargetNames /\ q.url \in BOOLEAN
           /\ [q EXCEPT !.at = place] \in PressType
           /\ [q EXCEPT !.at = place].at = place
           /\ [q EXCEPT !.at = place].name = q.name /\ [q EXCEPT !.at = place].url = q.url
BY DEF PressType

\* A press that goes on keeps its name and its kind, and the others stay where they are.
LEMMA PressGoesOn ==
    ASSUME DeskInv, NEW p \in Presses, NEW place \in PressAt, U!Goes(p, place)
    PROVE  /\ press' \in [Presses -> PressType] /\ press'[p].at = place
           /\ \A q \in Presses : /\ press'[q].name = press[q].name /\ press'[q].url = press[q].url
                                 /\ q # p => press'[q].at = press[q].at
<1>1. press[p] \in PressType
  BY DEF DeskInv, DeskTyped
<1>2. press' = [press EXCEPT ![p] = [press[p] EXCEPT !.at = place]]
  BY DEF U!Goes
<1>3. /\ press' \in [Presses -> PressType] /\ press'[p] = [press[p] EXCEPT !.at = place]
      /\ \A q \in Presses \ {p} : press'[q] = press[q]
  BY <1>1, <1>2, PressFields DEF DeskInv, DeskTyped
<1>4. /\ press'[p].at = place /\ press'[p].name = press[p].name /\ press'[p].url = press[p].url
  BY <1>1, <1>3, PressFields
<1>5. QED
  BY <1>3, <1>4

\* A step of a press that neither takes from the budget nor scans.
LEMMA PressKeeps ==
    ASSUME DeskInv, NEW p \in Presses, NEW place \in PressAt, U!Goes(p, place),
           UNCHANGED <<now, budget, live, stored, admitted, knew>>,
           press[p].at # "scan", place # "scan", place \in {"take", "begin"} => press[p].url,
           place = "start" => ~press[p].url
    PROVE  DeskInv'
<1>1. /\ press' \in [Presses -> PressType] /\ press'[p].at = place
      /\ \A q \in Presses : /\ press'[q].name = press[q].name /\ press'[q].url = press[q].url
                            /\ q # p => press'[q].at = press[q].at
  BY PressGoesOn
<1>2. DeskTyped'
  BY <1>1 DEF DeskInv, DeskTyped
<1>3. ScansOfPresses'
  BY <1>1 DEF DeskInv, ScansOfPresses
<1>4. Budgeted'
  BY DEF DeskInv, Budgeted, Admits
<1>5. RestIsKept'
  BY <1>1 DEF DeskInv, RestIsKept, Rested
<1>6. QED
  BY <1>2, <1>3, <1>4, <1>5 DEF DeskInv

LEMMA SubmitKeeps == ASSUME DeskInv, NEW p \in Presses, U!Submit(p) PROVE DeskInv'
<1>1. /\ press[p].at = "idle" /\ (U!Goes(p, "over") \/ U!Goes(p, "look"))
      /\ UNCHANGED <<now, budget, live, stored, admitted, knew>>
  BY DEF U!Submit, U!Unspent, U!Unscanned
<1>2. {"over", "look"} \subseteq PressAt
  BY DEF PressAt
<1>3. CASE U!Goes(p, "over")
  BY <1>1, <1>2, <1>3, PressKeeps
<1>4. CASE U!Goes(p, "look")
  BY <1>1, <1>2, <1>4, PressKeeps
<1>5. QED
  BY <1>1, <1>3, <1>4

LEMMA LookKeeps == ASSUME DeskInv, NEW p \in Presses, U!LookAtRunning(p) PROVE DeskInv'
<1>1. press[p].at = "look" /\ UNCHANGED <<now, budget, live, stored, admitted, knew>>
  BY DEF U!LookAtRunning, U!Unspent, U!Unscanned
<1>2. PICK place \in {"over", "take", "start"} :
        /\ U!Goes(p, place)
        /\ place = "take" => press[p].url
        /\ place = "start" => ~press[p].url
  BY DEF U!LookAtRunning
<1>3. place \in PressAt
  BY DEF PressAt
<1>4. QED
  BY <1>1, <1>2, <1>3, PressKeeps

-----------------------------------------------------------------------------
(* The budget.                                                               *)

\* What is left of it, and the other windows, when the rest expires.
LEMMA WithinHour ==
    ASSUME DeskInv
    PROVE  /\ U!Within(budget) \subseteq budget /\ IsFiniteSet(U!Within(budget))
           /\ Cardinality(U!Within(budget)) \in Nat
           /\ Cardinality(U!Within(budget)) <= Limit
           /\ \A p \in Presses : \A a \in admitted[p] :
                now - a < Hour => [by |-> p, at |-> a] \in U!Within(budget)
<1>1. U!Within(budget) \subseteq budget
  BY DEF U!Within
<1>2. /\ IsFiniteSet(U!Within(budget)) /\ Cardinality(U!Within(budget)) \in Nat
      /\ Cardinality(U!Within(budget)) <= Cardinality(budget) /\ Cardinality(budget) \in Nat
  BY <1>1, FS_Subset, FS_CardinalityType DEF DeskInv, Budgeted
<1>3. Cardinality(U!Within(budget)) <= Limit
  BY <1>2, DeskConstants DEF DeskInv, Budgeted
<1>4. ASSUME NEW p \in Presses, NEW a \in admitted[p], now - a < Hour
      PROVE  [by |-> p, at |-> a] \in U!Within(budget)
  BY <1>4 DEF U!Within, DeskInv, Budgeted
<1>5. QED
  BY <1>1, <1>2, <1>3, <1>4

LEMMA RemainingKeeps == ASSUME DeskInv, U!Remaining PROVE DeskInv'
<1>1. budget' = U!Within(budget) /\ UNCHANGED <<now, press, live, stored, admitted, knew>>
  BY DEF U!Remaining
<1>2. DeskTyped' /\ ScansOfPresses' /\ RestIsKept'
  BY <1>1, WithinHour DEF DeskInv, DeskTyped, ScansOfPresses, RestIsKept, Rested
<1>3. Budgeted'
  BY <1>1, WithinHour DEF DeskInv, Budgeted, Admits
<1>4. QED
  BY <1>2, <1>3 DEF DeskInv

\* Who was let in within the hour of a take is in the budget, so that no window that
\* holds the take holds more than the budget does.
LEMMA WindowHolds ==
    ASSUME DeskInv, NEW p \in Presses, Cardinality(U!Within(budget)) < Limit,
           admitted' = [admitted EXCEPT ![p] = {now}], NEW t \in 0..MaxTime
    PROVE  Cardinality({q \in Presses : Admits(q, t)'}) <= Limit
<1> DEFINE Old == {q \in Presses : Admits(q, t)}
           New == {q \in Presses : Admits(q, t)'}
           kept == U!Within(budget)
           Takers == {s.by : s \in kept}
<1>1. admitted'[p] = {now} /\ \A q \in Presses \ {p} : admitted'[q] = admitted[q]
  BY DEF DeskInv, DeskTyped
<1>2. IsFiniteSet(Old) /\ Cardinality(Old) \in Nat /\ Cardinality(Old) <= Limit
  BY DeskConstants, FS_Subset, FS_CardinalityType DEF DeskInv, Budgeted
<1>3. now \in Nat /\ t \in Nat /\ Hour \in Nat /\ Limit \in Nat
  BY DeskConstants DEF DeskInv, DeskTyped
<1>4. CASE now \notin t..(t + Hour - 1)
  <2>1. New \subseteq Old
    BY <1>1, <1>4 DEF Admits
  <2>2. Cardinality(New) <= Cardinality(Old) /\ Cardinality(New) \in Nat
    BY <1>2, <2>1, FS_Subset, FS_CardinalityType
  <2>3. QED
    BY <1>2, <1>3, <2>2
<1>5. CASE now \in t..(t + Hour - 1)
  <2>1. IsFiniteSet(kept) /\ Cardinality(kept) \in Nat
    BY WithinHour
  <2>2. IsFiniteSet(Takers) /\ Cardinality(Takers) <= Cardinality(kept) /\ Cardinality(Takers) \in Nat
    <3>1. [s \in kept |-> s.by] \in Surjection(kept, Takers)
      BY DEF Surjection
    <3> HIDE DEF Takers, kept
    <3>2. QED
      BY <2>1, <3>1, FS_Surjection, FS_CardinalityType
  <2>3. New \subseteq Takers \cup {p}
    <3> SUFFICES ASSUME NEW q \in New, q # p PROVE q \in Takers
      OBVIOUS
    <3>1. PICK a \in admitted[q] : a \in t..(t + Hour - 1)
      BY <1>1 DEF Admits
    <3>2. a \in Nat /\ now - a < Hour
      BY <1>3, <1>5, <3>1 DEF DeskInv, DeskTyped
    <3>3. [by |-> q, at |-> a] \in kept
      BY <3>2, WithinHour
    <3>4. QED
      BY <3>3
  <2>4. IsFiniteSet(Takers \cup {p}) /\ Cardinality(Takers \cup {p}) <= Cardinality(Takers) + 1
        /\ Cardinality(Takers \cup {p}) \in Nat
    <3> HIDE DEF Takers
    <3>1. /\ IsFiniteSet(Takers \cup {p})
          /\ Cardinality(Takers \cup {p}) = IF p \in Takers THEN Cardinality(Takers) ELSE Cardinality(Takers) + 1
      BY <2>2, FS_AddElement
    <3>2. QED
      BY <2>2, <3>1
  <2>5. Cardinality(New) <= Cardinality(Takers \cup {p}) /\ Cardinality(New) \in Nat
    BY <2>3, <2>4, FS_Subset, FS_CardinalityType
  <2>6. QED
    BY <1>3, <2>1, <2>2, <2>4, <2>5
<1>6. QED
  BY <1>4, <1>5

LEMMA TakeKeeps == ASSUME DeskInv, NEW p \in Presses, U!TakeBudget(p) PROVE DeskInv'
<1> DEFINE kept == U!Within(budget)
<1>1. press[p].at = "take" /\ press[p].url /\ UNCHANGED <<now, live, stored, knew>>
  BY DEF U!TakeBudget, U!Unscanned, DeskInv, DeskTyped
<1>2. CASE Cardinality(kept) >= Limit /\ budget' = kept /\ U!Goes(p, "over") /\ UNCHANGED admitted
  <2>1. /\ press' \in [Presses -> PressType] /\ press'[p].at = "over"
        /\ \A q \in Presses : /\ press'[q].name = press[q].name /\ press'[q].url = press[q].url
                              /\ q # p => press'[q].at = press[q].at
    BY <1>2, PressGoesOn DEF PressAt
  <2>2. DeskTyped' /\ ScansOfPresses'
    BY <1>1, <1>2, <2>1, WithinHour DEF DeskInv, DeskTyped, ScansOfPresses
  <2>3. Budgeted'
    BY <1>1, <1>2, WithinHour DEF DeskInv, Budgeted, Admits
  <2>4. RestIsKept'
    BY <1>1, <2>1 DEF DeskInv, RestIsKept, Rested
  <2>5. QED
    BY <2>2, <2>3, <2>4 DEF DeskInv
<1>3. CASE /\ Cardinality(kept) < Limit /\ budget' = kept \cup {[by |-> p, at |-> now]} /\ U!Goes(p, "begin")
           /\ admitted' = [admitted EXCEPT ![p] = {now}]
  <2>1. /\ press' \in [Presses -> PressType] /\ press'[p].at = "begin"
        /\ \A q \in Presses : /\ press'[q].name = press[q].name /\ press'[q].url = press[q].url
                              /\ q # p => press'[q].at = press[q].at
    BY <1>3, PressGoesOn DEF PressAt
  <2>2. now \in 0..MaxTime /\ now \in Nat
    BY DeskConstants DEF DeskInv, DeskTyped
  <2>3. /\ admitted' \in [Presses -> SUBSET (0..MaxTime)] /\ admitted'[p] = {now}
        /\ \A q \in Presses \ {p} : admitted'[q] = admitted[q]
    BY <1>3, <2>2 DEF DeskInv, DeskTyped
  <2>4. budget' \subseteq [by : Presses, at : 0..MaxTime]
    BY <1>3, <2>2, WithinHour DEF DeskInv, DeskTyped
  <2>5. DeskTyped'
    BY <1>1, <2>1, <2>3, <2>4 DEF DeskInv, DeskTyped
  <2>6. ScansOfPresses' /\ RestIsKept'
    BY <1>1, <2>1 DEF DeskInv, ScansOfPresses, RestIsKept, Rested
  <2>7. IsFiniteSet(budget') /\ Cardinality(budget') <= Limit
    <3>1. IsFiniteSet(kept) /\ Cardinality(kept) \in Nat
      BY WithinHour
    <3>2. PICK e : e = [by |-> p, at |-> now]
      OBVIOUS
    <3> HIDE DEF kept
    <3>3. /\ IsFiniteSet(kept \cup {e})
          /\ Cardinality(kept \cup {e}) = IF e \in kept THEN Cardinality(kept) ELSE Cardinality(kept) + 1
      BY <3>1, FS_AddElement
    <3>4. budget' = kept \cup {e}
      BY <1>3, <3>2
    <3>5. QED
      BY <1>3, <3>1, <3>3, <3>4, DeskConstants
  <2>8. ASSUME NEW q \in Presses, NEW a \in admitted'[q]
        PROVE  a <= now' /\ (now' - a < Hour => [by |-> q, at |-> a] \in budget')
    <3>1. CASE q = p
      BY <1>1, <1>3, <2>2, <2>3, <3>1
    <3>2. CASE q # p
      <4>1. a \in admitted[q]
        BY <2>3, <3>2
      <4>2. QED
        BY <1>1, <1>3, <4>1, WithinHour DEF DeskInv, Budgeted
    <3>3. QED
      BY <3>1, <3>2
  <2>9. \A t \in 0..MaxTime : Cardinality({q \in Presses : Admits(q, t)'}) <= Limit
    BY <1>3, WindowHolds
  <2>10. Budgeted'
    BY <2>7, <2>8, <2>9 DEF Budgeted
  <2>11. QED
    BY <2>5, <2>6, <2>10 DEF DeskInv
<1>4. QED
  <2>1. Cardinality(kept) \in Nat /\ Limit \in Nat
    BY WithinHour, DeskConstants
  <2>2. \/ Cardinality(kept) >= Limit /\ budget' = kept /\ U!Goes(p, "over") /\ UNCHANGED admitted
        \/ /\ ~(Cardinality(kept) >= Limit) /\ budget' = kept \cup {[by |-> p, at |-> now]} /\ U!Goes(p, "begin")
           /\ admitted' = [admitted EXCEPT ![p] = {now}]
    BY Counting DEF U!TakeBudget
  <2> HIDE DEF kept
  <2>3. QED
    BY <1>2, <1>3, <2>1, <2>2

-----------------------------------------------------------------------------
(* Scans.                                                                    *)

\* The checks are repeated on what is stored then.
LEMMA ScanURLKeeps == ASSUME DeskInv, NEW p \in Presses, U!ScanURL(p) PROVE DeskInv'
<1>1. /\ press[p].at = "begin" /\ press[p].url /\ knew' = [knew EXCEPT ![p] = stored]
      /\ UNCHANGED <<now, budget, live, stored, admitted>>
  BY DEF U!ScanURL, U!Unspent, U!Unscanned, DeskInv, DeskTyped
<1>2. PICK place \in {"start", "over"} :
        U!Goes(p, place) /\ (place = "start" => ~U!TooSoon(press[p].name))
  BY DEF U!ScanURL
<1>3. /\ press' \in [Presses -> PressType] /\ press'[p].at = place
      /\ \A q \in Presses : /\ press'[q].name = press[q].name /\ press'[q].url = press[q].url
                            /\ q # p => press'[q].at = press[q].at
  BY <1>2, PressGoesOn DEF PressAt
<1>4. /\ knew' \in [Presses -> SUBSET stored] /\ knew'[p] = stored
      /\ \A q \in Presses \ {p} : knew'[q] = knew[q]
  BY <1>1 DEF DeskInv, DeskTyped
<1>5. DeskTyped'
  BY <1>1, <1>2, <1>3, <1>4 DEF DeskInv, DeskTyped
<1>6. ScansOfPresses' /\ Budgeted'
  BY <1>1, <1>2, <1>3 DEF DeskInv, ScansOfPresses, Budgeted, Admits
<1>7. ASSUME place = "start" PROVE Rested(p, now)'
  <2> SUFFICES ASSUME NEW e \in stored, e.name = press[p].name PROVE e.began + MinInterval <= now
    BY <1>1, <1>3, <1>4 DEF Rested
  <2>1. e.began \in U!LastScan(press[p].name)
    BY DEF U!LastScan
  <2>2. ~(now - e.began < MinInterval)
    BY <1>2, <1>7, <2>1 DEF U!TooSoon
  <2>3. e.began \in Nat /\ now \in Nat
    BY DeskConstants DEF DeskInv, DeskTyped
  <2>4. QED
    BY <2>2, <2>3, DeskConstants
<1>8. RestIsKept'
  <2>1. ASSUME NEW q \in Presses, press'[q].url, press'[q].at = "start" PROVE Rested(q, now)'
    BY <1>1, <1>3, <1>4, <1>7, <2>1 DEF DeskInv, RestIsKept, Rested
  <2>2. ASSUME NEW s \in live', s.who \in Presses, press'[s.who].url PROVE Rested(s.who, s.began)'
    <3>1. s.who # p
      BY <1>1, <2>2 DEF DeskInv, ScansOfPresses
    <3>2. QED
      BY <1>1, <1>3, <1>4, <2>2, <3>1 DEF DeskInv, RestIsKept, Rested
  <2>3. QED
    BY <2>1, <2>2 DEF RestIsKept
<1>9. QED
  BY <1>5, <1>6, <1>8 DEF DeskInv

LEMMA BeginKeeps == ASSUME DeskInv, NEW p \in Presses, U!Begin(p) PROVE DeskInv'
<1>1. /\ press[p].at = "start" /\ U!Goes(p, "scan")
      /\ live' = live \cup {[who |-> p, name |-> press[p].name, began |-> now]}
      /\ UNCHANGED <<now, budget, stored, admitted, knew>>
  BY DEF U!Begin, U!Unspent
<1>2. /\ press' \in [Presses -> PressType] /\ press'[p].at = "scan"
      /\ \A q \in Presses : /\ press'[q].name = press[q].name /\ press'[q].url = press[q].url
                            /\ q # p => press'[q].at = press[q].at
  BY <1>1, PressGoesOn DEF PressAt
<1>3. PICK s : s = [who |-> p, name |-> press[p].name, began |-> now]
  OBVIOUS
<1>4. /\ s.who = p /\ s.name = press[p].name /\ s.began = now /\ live' = live \cup {s}
      /\ s \in [who : Presses \cup {U!Scheduler}, name : U!TargetNames, began : 0..MaxTime]
  <2>1. press[p] \in PressType /\ now \in 0..MaxTime
    BY DEF DeskInv, DeskTyped
  <2>2. press[p].name \in U!TargetNames
    BY <2>1 DEF PressType
  <2>3. QED
    BY <1>1, <1>3, <2>1, <2>2
<1>5. \A t \in live : t.who # p
  BY <1>1 DEF DeskInv, ScansOfPresses
<1>6. DeskTyped'
  BY <1>1, <1>2, <1>4 DEF DeskInv, DeskTyped
<1>7. ScansOfPresses'
  <2>1. ASSUME NEW q \in Presses PROVE press'[q].at = "scan" <=> \E t \in live' : t.who = q
    BY <1>2, <1>4, <1>5 DEF DeskInv, ScansOfPresses
  <2>2. ASSUME NEW t \in live', t.who \in Presses
        PROVE  t.name = press'[t.who].name /\ \A u \in live' : u.who = t.who => u = t
    BY <1>2, <1>4, <1>5, <2>2 DEF DeskInv, ScansOfPresses
  <2>3. QED
    BY <2>1, <2>2 DEF ScansOfPresses
<1>8. Budgeted'
  BY <1>1 DEF DeskInv, Budgeted, Admits
<1>9. RestIsKept'
  <2>1. ASSUME NEW q \in Presses, press'[q].url, press'[q].at = "start" PROVE Rested(q, now)'
    BY <1>1, <1>2, <2>1 DEF DeskInv, RestIsKept, Rested
  <2>2. ASSUME NEW t \in live', t.who \in Presses, press'[t.who].url PROVE Rested(t.who, t.began)'
    BY <1>1, <1>2, <1>4, <2>2 DEF DeskInv, RestIsKept, Rested
  <2>3. QED
    BY <2>1, <2>2 DEF RestIsKept
<1>10. QED
  BY <1>6, <1>7, <1>8, <1>9 DEF DeskInv

LEMMA BeginScheduledKeeps ==
    ASSUME DeskInv, NEW name \in Configured, U!BeginScheduled(name)
    PROVE  DeskInv'
<1>1. UNCHANGED <<now, press, budget, stored, admitted, knew>>
  BY DEF U!BeginScheduled, U!Unspent
<1>2. PICK s : s = [who |-> U!Scheduler, name |-> name, began |-> now]
  OBVIOUS
<1>3. /\ s.who \notin Presses /\ live' = live \cup {s}
      /\ s \in [who : Presses \cup {U!Scheduler}, name : U!TargetNames, began : 0..MaxTime]
  BY <1>2, DeskConstants DEF U!BeginScheduled, DeskInv, DeskTyped, U!TargetNames
<1>4. DeskTyped'
  BY <1>1, <1>3 DEF DeskInv, DeskTyped
<1>5. ScansOfPresses'
  BY <1>1, <1>3 DEF DeskInv, ScansOfPresses
<1>6. Budgeted'
  BY <1>1 DEF DeskInv, Budgeted, Admits
<1>7. RestIsKept'
  BY <1>1, <1>3 DEF DeskInv, RestIsKept, Rested
<1>8. QED
  BY <1>4, <1>5, <1>6, <1>7 DEF DeskInv

LEMMA EndKeeps == ASSUME DeskInv, NEW s \in live, U!End(s) PROVE DeskInv'
<1>1. /\ live' = live \ {s} /\ stored \subseteq stored'
      /\ stored' \in {stored, stored \cup {[name |-> s.name, began |-> s.began]}}
      /\ UNCHANGED <<now, budget, admitted, knew>>
  BY DEF U!End, U!Unspent
<1>2. s \in [who : Presses \cup {U!Scheduler}, name : U!TargetNames, began : 0..MaxTime]
  BY DEF DeskInv, DeskTyped
<1>3. stored' \subseteq [name : U!TargetNames, began : 0..MaxTime] /\ knew' \in [Presses -> SUBSET stored']
  BY <1>1, <1>2 DEF DeskInv, DeskTyped
<1>4. /\ press' \in [Presses -> PressType]
      /\ \A q \in Presses : /\ press'[q].name = press[q].name /\ press'[q].url = press[q].url
                            /\ q # s.who => press'[q].at = press[q].at
                            /\ q = s.who => press'[q].at = "over"
  <2>1. CASE s.who \in Presses
    <3>1. U!Goes(s.who, "over")
      BY <2>1 DEF U!End
    <3>2. QED
      BY <2>1, <3>1, PressGoesOn DEF PressAt
  <2>2. CASE s.who \notin Presses
    BY <2>2 DEF U!End, DeskInv, DeskTyped
  <2>3. QED
    BY <2>1, <2>2
<1>5. DeskTyped'
  BY <1>1, <1>3, <1>4 DEF DeskInv, DeskTyped
<1>6. ScansOfPresses'
  <2>1. ASSUME NEW q \in Presses PROVE press'[q].at = "scan" <=> \E t \in live' : t.who = q
    BY <1>1, <1>4 DEF DeskInv, ScansOfPresses
  <2>2. QED
    BY <1>1, <1>4, <2>1 DEF DeskInv, ScansOfPresses
<1>7. Budgeted'
  BY <1>1 DEF DeskInv, Budgeted, Admits
<1>8. RestIsKept'
  BY <1>1, <1>4 DEF DeskInv, RestIsKept, Rested
<1>9. QED
  BY <1>5, <1>6, <1>7, <1>8 DEF DeskInv

LEMMA DeskTick == ASSUME DeskInv, U!Tick PROVE DeskInv'
<1>1. now < MaxTime /\ now' = now + 1 /\ UNCHANGED <<press, budget, live, stored, admitted, knew>>
  BY DEF U!Tick
<1>2. now \in Nat /\ now' \in 0..MaxTime /\ MaxTime \in Nat
  BY <1>1, DeskConstants DEF DeskInv, DeskTyped
<1>3. DeskTyped' /\ ScansOfPresses'
  BY <1>1, <1>2 DEF DeskInv, DeskTyped, ScansOfPresses
<1>4. ASSUME NEW p \in Presses, NEW a \in admitted[p]
      PROVE  a <= now' /\ (now' - a < Hour => [by |-> p, at |-> a] \in budget)
  <2>1. a \in Nat /\ a <= now /\ (now - a < Hour => [by |-> p, at |-> a] \in budget)
    BY <1>2 DEF DeskInv, DeskTyped, Budgeted
  <2>2. QED
    BY <1>1, <1>2, <2>1, DeskConstants
<1>5. Budgeted'
  BY <1>1, <1>4 DEF DeskInv, Budgeted, Admits
<1>6. ASSUME NEW p \in Presses, Rested(p, now) PROVE Rested(p, now)'
  <2> SUFFICES ASSUME NEW e \in knew[p], e.name = press[p].name PROVE e.began + MinInterval <= now'
    BY <1>1 DEF Rested
  <2>1. e.began \in Nat
    BY <1>2 DEF DeskInv, DeskTyped
  <2>2. QED
    BY <1>1, <1>2, <1>6, <2>1, DeskConstants DEF Rested
<1>7. RestIsKept'
  BY <1>1, <1>6 DEF DeskInv, RestIsKept, Rested
<1>8. QED
  BY <1>3, <1>5, <1>7 DEF DeskInv

LEMMA DeskRests == ASSUME DeskInv, UNCHANGED U!vars PROVE DeskInv'
<1>1. UNCHANGED <<now, press, budget, live, stored, admitted, knew>>
  BY DEF U!vars
<1>2. QED
  BY <1>1 DEF DeskInv, DeskTyped, ScansOfPresses, Budgeted, Admits, RestIsKept, Rested

LEMMA DeskStep == ASSUME DeskInv, [U!Next]_U!vars PROVE DeskInv'
<1>1. ASSUME NEW p \in Presses, U!Ask(p) PROVE DeskInv'
  BY <1>1, SubmitKeeps, LookKeeps, TakeKeeps, ScanURLKeeps, BeginKeeps DEF U!Ask
<1>2. QED
  BY <1>1, RemainingKeeps, BeginScheduledKeeps, EndKeeps, DeskTick, DeskRests DEF U!Next

LEMMA DeskStart == U!Init => DeskInv
<1> SUFFICES ASSUME U!Init PROVE DeskInv
  OBVIOUS
<1>1. /\ now = 0 /\ budget = {} /\ live = {} /\ stored = {}
      /\ admitted = [p \in Presses |-> {}] /\ knew = [p \in Presses |-> {}]
      /\ press \in [Presses -> [at : {"idle"}, name : Typed, url : {TRUE}]
                               \cup [at : {"idle"}, name : Configured, url : {FALSE}]]
  BY DEF U!Init
<1>2. press \in [Presses -> PressType] /\ \A p \in Presses : press[p].at = "idle"
  BY <1>1 DEF PressType, PressAt, U!TargetNames
<1>3. 0 \in 0..MaxTime
  BY DeskConstants
<1>4. DeskTyped /\ ScansOfPresses /\ RestIsKept
  BY <1>1, <1>2, <1>3 DEF DeskTyped, ScansOfPresses, RestIsKept
<1>5. Budgeted
  <2>1. IsFiniteSet(budget) /\ Cardinality(budget) <= Limit
    BY <1>1, FS_EmptySet, DeskConstants
  <2>2. ASSUME NEW t \in 0..MaxTime PROVE Cardinality({p \in Presses : Admits(p, t)}) <= Limit
    <3>1. {p \in Presses : Admits(p, t)} = {}
      BY <1>1 DEF Admits
    <3>2. QED
      BY <3>1, FS_EmptySet, DeskConstants
  <2>3. QED
    BY <1>1, <2>1, <2>2 DEF Budgeted
<1>6. QED
  BY <1>4, <1>5 DEF DeskInv

LEMMA DeskPromise == DeskInv => U!TypeOK /\ U!BudgetHolds /\ U!AddressesRest
<1> SUFFICES ASSUME DeskInv PROVE U!TypeOK /\ U!BudgetHolds /\ U!AddressesRest
  OBVIOUS
<1>1. U!TypeOK
  BY Counting DEF U!TypeOK, DeskInv, DeskTyped, ScansOfPresses, Budgeted, PressType, PressAt
<1>2. U!BudgetHolds
  BY Counting DEF U!BudgetHolds, DeskInv, Budgeted, Admits
<1>3. U!AddressesRest
  BY DEF U!AddressesRest, DeskInv, ScansOfPresses, RestIsKept, Rested
<1>4. QED
  BY <1>1, <1>2, <1>3

-----------------------------------------------------------------------------
(* Drift: a scan and what its comparison says.                                *)

DriftTyped ==
    /\ basis \in {"previous", "approved"} /\ gone \in BOOLEAN /\ known \subseteq Domains
    /\ base = {} \/ \E r \in D!Scan : r.end # "failed" /\ base = {r}
    /\ latest = {} \/ \E s \in D!Scan : latest = {s}
    /\ report.comparable \in BOOLEAN /\ report.suppressed \in Nat
    /\ \A c \in report.changes : c.type \in D!Types
\* Whatever host a later scan may be compared with is accounted for.
Familiar == \A r \in base \cup latest : D!Hosts(r) \subseteq known
DriftInv == DriftTyped /\ Familiar /\ D!RemovalIsReal /\ D!BandAgrees

LEMMA DriftConstants ==
    /\ IsFiniteSet(Assets) /\ Page \notin Assets /\ Cause \in [Assets -> Assets \cup {Page}]
    /\ Domain \in [Assets -> Domains] /\ Healthy \in Nat /\ Healthy > 0
    /\ RatioNum \in Nat /\ RatioDen \in Nat /\ Assets \cap Domains = {} /\ Stacks \subseteq BOOLEAN
BY DeskAssumption, Counting DEF D!DriftAssumption

LEMMA ImageFinite ==
    ASSUME NEW X, IsFiniteSet(X), NEW f, X = DOMAIN f
    PROVE  IsFiniteSet({f[x] : x \in X})
<1> DEFINE T == {f[x] : x \in X}
           g == [x \in X |-> f[x]]
<1>1. g \in Surjection(X, T)
  BY DEF Surjection
<1>2. QED
  BY <1>1, FS_Surjection

LEMMA ScanSets ==
    ASSUME NEW s \in D!Scan
    PROVE  /\ D!Requested(s) \subseteq Assets /\ IsFiniteSet(D!Requested(s)) /\ IsFiniteSet(D!Lost(s))
           /\ D!Hosts(s) \subseteq Domains /\ IsFiniteSet(D!Hosts(s))
           /\ D!Cookies(s) \subseteq Assets
           /\ D!Cardinality(D!Lost(s)) \in Nat /\ D!Total(s) \in Nat /\ D!Total(s) > 0
<1>1. /\ D!Requested(s) \subseteq Assets /\ D!Lost(s) \subseteq Assets /\ D!Cookies(s) \subseteq Assets
  BY DEF D!Requested, D!Lost, D!Cookies, D!Loaded
<1>2. IsFiniteSet(D!Requested(s)) /\ IsFiniteSet(D!Lost(s))
  BY <1>1, DriftConstants, FS_Subset
<1>3. D!Cardinality(D!Lost(s)) \in Nat /\ D!Cardinality(D!Requested(s)) \in Nat
  BY <1>2, FS_CardinalityType, Counting
<1>4. D!Hosts(s) \subseteq Domains
  BY <1>1, DriftConstants DEF D!Hosts
<1>5. IsFiniteSet(D!Hosts(s))
  <2> DEFINE f == [a \in D!Requested(s) |-> Domain[a]]
  <2>1. IsFiniteSet({f[a] : a \in D!Requested(s)})
    BY <1>2, ImageFinite
  <2>2. D!Hosts(s) = {f[a] : a \in D!Requested(s)}
    BY DEF D!Hosts
  <2>3. QED
    BY <2>1, <2>2
<1>6. D!Total(s) \in Nat /\ D!Total(s) > 0
  BY <1>3, DriftConstants DEF D!Total
<1>7. QED
  BY <1>1, <1>2, <1>3, <1>4, <1>5, <1>6

-----------------------------------------------------------------------------
(* The score.                                                                *)

LEMMA DivNat == ASSUME NEW x \in Nat, NEW y \in Nat, y > 0 PROVE x \div y \in Nat
OBVIOUS

LEMMA LowerOfNat ==
    ASSUME NEW x \in Int, NEW y \in Int
    PROVE  /\ D!LowerOf(x, y) \in Int /\ D!LowerOf(x, y) <= x /\ D!LowerOf(x, y) <= y
           /\ x >= 0 /\ y >= 0 => D!LowerOf(x, y) >= 0
BY DEF D!LowerOf

LEMMA PointsCount ==
    ASSUME NEW s \in D!Scan, NEW d \in {0, 15, 30}
    PROVE  /\ D!Points(s, d) \in Nat
           /\ s.consent = "failed" => D!Points(s, d) >= 40
<1> DEFINE n == D!Cardinality(D!Lost(s))
           t == D!Total(s)
           cut == IF s.end = "cut" THEN 25 ELSE 0
           consent == CASE s.consent = "failed" -> 40 [] OTHER -> 0
           fetches == D!LowerOf(60, (800 * n + t) \div (2 * t))
<1>1. n \in Nat /\ t \in Nat /\ t > 0
  BY ScanSets
<1>2. cut \in Nat /\ consent \in Nat /\ (s.consent = "failed" => consent = 40)
  OBVIOUS
<1>3. fetches \in Nat
  <2>1. (800 * n + t) \in Nat /\ 2 * t \in Nat /\ 2 * t > 0
    BY <1>1
  <2>2. ((800 * n + t) \div (2 * t)) \in Nat
    BY <2>1, DivNat
  <2> DEFINE q == (800 * n + t) \div (2 * t)
  <2> HIDE DEF q
  <2>3. q \in Nat => D!LowerOf(60, q) \in Nat
    BY DEF D!LowerOf
  <2>4. QED
    BY <2>2, <2>3 DEF q
<1>4. D!Points(s, d) = cut + fetches + d + consent
  BY DEF D!Points
<1> HIDE DEF n, t, cut, consent, fetches
<1>5. QED
  BY <1>2, <1>3, <1>4

LEMMA ScoreIsCareful ==
    ASSUME NEW s \in D!Scan, NEW d \in {0, 15, 30}
    PROVE  /\ D!Degraded(s) /\ s.end # "failed" => D!Score(s, d) = "low"
           /\ s.consent = "failed" => D!Score(s, d) # "high"
<1> DEFINE points == D!Points(s, d)
           floored == D!Floored(points)
           score == D!Capped(s, floored)
<1>1. points \in Nat /\ (s.consent = "failed" => points >= 40)
  BY PointsCount
<1>2. floored \in Nat /\ (s.consent = "failed" => floored <= 60)
  BY <1>1 DEF D!Floored
<1>3. /\ score \in Int /\ score <= floored
      /\ D!Degraded(s) => score <= 59
  <2>2. score = IF D!Degraded(s) THEN D!LowerOf(floored, 59) ELSE floored
    BY DEF D!Capped
  <2> HIDE DEF floored, score
  <2>1. D!LowerOf(floored, 59) \in Int /\ D!LowerOf(floored, 59) <= floored /\ D!LowerOf(floored, 59) <= 59
    BY <1>2 DEF D!LowerOf
  <2>3. QED
    BY <1>2, <2>1, <2>2
<1>4. D!Score(s, d) = CASE s.end = "failed" -> "none" [] score >= 90 -> "high"
                        [] score >= 60 -> "medium" [] OTHER -> "low"
  BY DEF D!Score
<1> HIDE DEF points, floored, score
<1>5. ASSUME D!Degraded(s), s.end # "failed" PROVE D!Score(s, d) = "low"
  <2>1. score \in Int /\ ~(score >= 90) /\ ~(score >= 60)
    BY <1>3, <1>5
  <2>2. QED
    BY <1>4, <1>5, <2>1
<1>6. ASSUME s.consent = "failed" PROVE D!Score(s, d) # "high"
  <2>1. ~(score >= 90)
    BY <1>2, <1>3, <1>6
  <2>2. CASE s.end = "failed"
    BY <1>4, <2>1, <2>2
  <2>3. CASE s.end # "failed"
    BY <1>4, <2>1, <2>3
  <2>4. QED
    BY <2>2, <2>3
<1>7. QED
  BY <1>5, <1>6

-----------------------------------------------------------------------------
(* What asks for what.                                                       *)

LEMMA ChainGoesUp ==
    ASSUME NEW a \in Assets
    PROVE  /\ D!Chain(a) \subseteq Assets
           /\ \A b \in D!Chain(a) \cup {a} : Cause[b] = Page \/ Cause[b] \in D!Chain(a)
<1>1. \A b \in Assets : Cause[b] \in Assets \cup {Page}
  BY DriftConstants
<1>2. D!Chain(a) \subseteq Assets
  BY DEF D!Chain
<1>3. Cause[a] = Page \/ Cause[a] \in D!Chain(a)
  BY <1>1 DEF D!Chain
<1>4. ASSUME NEW b \in D!Chain(a), Cause[b] # Page PROVE Cause[b] \in D!Chain(a)
  <2>1. b \in Assets /\ Cause[b] \in Assets
    BY <1>1, <1>2, <1>4
  <2> SUFFICES ASSUME NEW X \in SUBSET Assets, Cause[a] \in X \cup {Page}, D!Upward(X)
               PROVE  Cause[b] \in X
    BY <2>1 DEF D!Chain
  <2>2. b \in X
    BY DEF D!Chain
  <2>3. QED
    BY <1>4, <2>2 DEF D!Upward
<1>5. QED
  BY <1>2, <1>3, <1>4

\* If all that asks for a was asked for and none was lost or declined, a was observed.
LEMMA AskedIsObserved ==
    ASSUME NEW s \in D!Scan, s.fate \in D!Observed(s.asks, s.end), s.end # "cut", NEW a \in Assets,
           \A b \in D!Chain(a) \cup {a} : b \in s.asks /\ s.fate[b] # "declined",
           \A b \in D!Chain(a) : s.fate[b] # "lost"
    PROVE  s.fate[a] # "absent"
<1> DEFINE line == D!Chain(a) \cup {a}
<1>1. PICK depth \in [Assets -> 1..D!Cardinality(Assets)] :
        \A b \in Assets : Cause[b] = Page \/ depth[Cause[b]] < depth[b]
  BY DeskAssumption DEF D!DriftAssumption, D!Acyclic
<1>2. line \subseteq Assets /\ \A b \in line : Cause[b] = Page \/ Cause[b] \in D!Chain(a)
  BY ChainGoesUp
<1>3. \A b \in Assets : depth[b] \in Nat
  <2>1. D!Cardinality(Assets) \in Nat
    BY DriftConstants, Counting, FS_CardinalityType
  <2>2. QED
    BY <1>1, <2>1
<1>4. \A b \in line : s.fate[b] = "absent" => Cause[b] # Page /\ Cause[b] \in D!Chain(a) /\ s.fate[Cause[b]] # "ok"
  BY <1>2 DEF D!Observed
<1>5. \A b \in Assets : s.fate[b] \in {"absent", "ok", "lost", "declined"}
  BY DEF D!Scan, D!Fates
<1>6. \A b \in line : s.fate[b] = "absent" => Cause[b] \in line /\ s.fate[Cause[b]] = "absent" /\ depth[Cause[b]] < depth[b]
  BY <1>1, <1>2, <1>4, <1>5
<1> SUFFICES ASSUME s.fate[a] = "absent" PROVE FALSE
  OBVIOUS
<1> DEFINE depths == {depth[b] : b \in {c \in line : s.fate[c] = "absent"}}
<1>7. depths \subseteq Nat /\ depths # {}
  BY <1>2, <1>3
<1>8. PICK m \in depths : \A l \in depths : m <= l
  BY <1>7, Least
<1>9. PICK b \in line : s.fate[b] = "absent" /\ depth[b] = m
  BY <1>8
<1>10. Cause[b] \in line /\ depth[Cause[b]] \in depths /\ depth[Cause[b]] < depth[b]
  BY <1>6, <1>9
<1>11. depth[Cause[b]] \in Nat /\ depth[b] \in Nat /\ depth[b] <= depth[Cause[b]]
  BY <1>2, <1>3, <1>8, <1>9, <1>10
<1>12. QED
  BY <1>10, <1>11

-----------------------------------------------------------------------------
(* The comparison.                                                           *)

LEMMA ChangeFields ==
    \A t, x : D!Change(t, x).type = t /\ D!Change(t, x).subject = x
BY DEF D!Change

\* A comparison that took place.
LEMMA Compared ==
    ASSUME NEW b \in D!Scan, NEW s \in D!Scan, NEW evidenceGone, s.end # "failed", b.end # "failed"
    PROVE  D!Compare({b}, s, evidenceGone) =
             LET diffs == D!Added(b, s) \cup D!Removed(b, s) \cup D!Changed(b, s)
             IN  [comparable |-> TRUE, reason |-> "", stack |-> b.stack,
                  changes |-> {c \in diffs : ~D!Suppressed(c)} \cup D!Denied(s) \cup D!Flagged(b, s),
                  suppressed |-> D!Withheld(b, s) + D!Cardinality({c \in diffs : D!Suppressed(c)})]
<1>1. {b} # {} /\ (CHOOSE r \in {b} : TRUE) = b
  OBVIOUS
<1>2. QED
  BY <1>1 DEF D!Compare

LEMMA IncomparableFields ==
    ASSUME NEW why, NEW what
    PROVE  /\ D!Incomparable(why, what).comparable \in BOOLEAN /\ D!Incomparable(why, what).reason = why
           /\ D!Incomparable(why, what).changes = what /\ D!Incomparable(why, what).suppressed = 0
BY DEF D!Incomparable, D!Nothing

\* One that did not.
LEMMA Failed ==
    ASSUME NEW s, s.end = "failed", NEW b, NEW evidenceGone
    PROVE  LET r == D!Compare(b, s, evidenceGone)
           IN  /\ r.comparable \in BOOLEAN /\ r.suppressed = 0
               /\ \A c \in r.changes : c.type = "scan-degraded" /\ c.subject = "failed"
<1> DEFINE what == {D!Change("scan-degraded", "failed")}
           r == D!Compare(b, s, evidenceGone)
<1>1. r = D!Incomparable("failed", what)
  BY DEF D!Compare
<1>2. \A c \in what : c.type = "scan-degraded" /\ c.subject = "failed"
  BY ChangeFields
<1> HIDE DEF what, r
<1>3. r.comparable \in BOOLEAN /\ r.suppressed = 0 /\ r.changes = what
  BY <1>1, IncomparableFields
<1>4. QED
  BY <1>2, <1>3 DEF r

LEMMA NoBase ==
    ASSUME NEW s, s.end # "failed", NEW evidenceGone
    PROVE  LET r == D!Compare({}, s, evidenceGone)
           IN  /\ r.comparable \in BOOLEAN /\ r.suppressed = 0 /\ r.changes = {}
               /\ r.reason \in {"none", "gone"}
<1> DEFINE why == IF evidenceGone THEN "gone" ELSE "none"
           r == D!Compare({}, s, evidenceGone)
<1>1. r = D!Incomparable(why, {})
  BY DEF D!Compare
<1>2. why \in {"none", "gone"}
  OBVIOUS
<1> HIDE DEF why, r
<1>3. r.comparable \in BOOLEAN /\ r.suppressed = 0 /\ r.changes = {} /\ r.reason = why
  BY <1>1, IncomparableFields
<1>4. QED
  BY <1>2, <1>3 DEF r

\* What one list has more than the other is finite, so what is left out can be counted.
LEMMA ChangesFinite == ASSUME NEW t, NEW X, IsFiniteSet(X) PROVE IsFiniteSet({D!Change(t, x) : x \in X})
<1> DEFINE f == [x \in X |-> D!Change(t, x)]
<1>1. IsFiniteSet({f[x] : x \in X})
  BY ImageFinite
<1>2. {D!Change(t, x) : x \in X} = {f[x] : x \in X}
  OBVIOUS
<1>3. QED
  BY <1>1, <1>2

LEMMA DifferencesCount ==
    ASSUME NEW b \in D!Scan, NEW s \in D!Scan
    PROVE  LET diffs == D!Added(b, s) \cup D!Removed(b, s) \cup D!Changed(b, s)
           IN  D!Withheld(b, s) + D!Cardinality({c \in diffs : D!Suppressed(c)}) \in Nat
<1> DEFINE X == Assets \cup D!Hosts(b) \cup D!Hosts(s) \cup {Script} \cup {s.consent}
           Of(t) == {D!Change(t, x) : x \in X}
           diffs == D!Added(b, s) \cup D!Removed(b, s) \cup D!Changed(b, s)
<1>1. IsFiniteSet(X)
  <2>1. IsFiniteSet(Assets \cup D!Hosts(b))
    BY DriftConstants, ScanSets, FS_Union
  <2>2. IsFiniteSet(Assets \cup D!Hosts(b) \cup D!Hosts(s))
    BY <2>1, ScanSets, FS_Union
  <2>3. IsFiniteSet({Script}) /\ IsFiniteSet({s.consent})
    BY FS_Singleton
  <2>4. IsFiniteSet(Assets \cup D!Hosts(b) \cup D!Hosts(s) \cup {Script})
    BY <2>2, <2>3, FS_Union
  <2>5. QED
    BY <2>3, <2>4, FS_Union
<1>2. /\ D!Requested(b) \subseteq Assets /\ D!Requested(s) \subseteq Assets
      /\ D!Cookies(b) \subseteq Assets /\ D!Cookies(s) \subseteq Assets
  BY ScanSets
<1>3. D!Added(b, s) \subseteq Of("host-added") \cup Of("asset-added") \cup Of("cookie-added")
  BY <1>2 DEF D!Added
<1>4. D!Removed(b, s) \subseteq Of("host-removed") \cup Of("asset-removed") \cup Of("cookie-removed")
  BY <1>2 DEF D!Removed
<1>5. D!Changed(b, s) \subseteq Of("script-changed") \cup Of("consent-changed")
  BY DEF D!Changed
<1>6. \A t : IsFiniteSet(Of(t))
  BY <1>1, ChangesFinite
<1> HIDE DEF X, Of
<1>7. IsFiniteSet(diffs)
  <2> DEFINE Adds == Of("host-added") \cup Of("asset-added") \cup Of("cookie-added")
             Drops == Of("host-removed") \cup Of("asset-removed") \cup Of("cookie-removed")
             Turns == Of("script-changed") \cup Of("consent-changed")
  <2>1. IsFiniteSet(Of("host-added") \cup Of("asset-added")) /\ IsFiniteSet(Of("host-removed") \cup Of("asset-removed"))
    BY <1>6, FS_Union
  <2>2. IsFiniteSet(Adds) /\ IsFiniteSet(Drops) /\ IsFiniteSet(Turns)
    BY <1>6, <2>1, FS_Union
  <2>3. diffs \subseteq Adds \cup Drops \cup Turns
    BY <1>3, <1>4, <1>5
  <2> HIDE DEF Adds, Drops, Turns, diffs
  <2>4. IsFiniteSet(Adds \cup Drops)
    BY <2>2, FS_Union
  <2>5. IsFiniteSet(Adds \cup Drops \cup Turns)
    BY <2>2, <2>4, FS_Union
  <2>6. QED
    BY <2>3, <2>5, FS_Subset
<1>8. D!Cardinality({c \in diffs : D!Suppressed(c)}) \in Nat
  <2> DEFINE Y == {c \in diffs : D!Suppressed(c)}
  <2>1. Y \subseteq diffs
    OBVIOUS
  <2> HIDE DEF Y, diffs
  <2>2. IsFiniteSet(Y)
    BY <1>7, <2>1, FS_Subset
  <2>3. D!Cardinality(Y) \in Nat
    BY <2>2, FS_CardinalityType, Counting
  <2>4. QED
    BY <2>3 DEF Y
<1>9. D!Withheld(b, s) \in Nat
  <2> DEFINE H == {h \in D!Hosts(b) \ D!Hosts(s) : D!RemovalUnprovable(s, h, {})}
             R1 == {a \in D!Requested(b) \ D!Requested(s) : D!RemovalUnprovable(s, Domain[a], D!Initiators(b, a))}
  <2>1. H \subseteq D!Hosts(b) /\ R1 \subseteq D!Requested(b)
    OBVIOUS
  <2>2. D!Withheld(b, s) = D!Cardinality(H) + D!Cardinality(R1)
    BY DEF D!Withheld
  <2> HIDE DEF H, R1
  <2>3. IsFiniteSet(H) /\ IsFiniteSet(R1)
    BY <2>1, ScanSets, FS_Subset
  <2>4. D!Cardinality(H) \in Nat /\ D!Cardinality(R1) \in Nat
    BY <2>3, FS_CardinalityType, Counting
  <2>5. QED
    BY <2>2, <2>4
<1> HIDE DEF diffs
<1>10. D!Withheld(b, s) + D!Cardinality({c \in diffs : D!Suppressed(c)}) \in Nat
  BY <1>8, <1>9
<1>11. QED
  BY <1>10 DEF diffs

LEMMA ComparedFields ==
    ASSUME NEW b \in D!Scan, NEW s \in D!Scan, NEW evidenceGone, s.end # "failed", b.end # "failed"
    PROVE  LET r == D!Compare({b}, s, evidenceGone)
           IN  /\ r.comparable = TRUE /\ r.reason = "" /\ r.stack = b.stack /\ r.suppressed \in Nat
               /\ \A c : c \in r.changes <=>
                      \/ c \in D!Added(b, s) \cup D!Removed(b, s) \cup D!Changed(b, s) /\ ~D!Suppressed(c)
                      \/ c \in D!Denied(s) \cup D!Flagged(b, s)
<1> DEFINE diffs == D!Added(b, s) \cup D!Removed(b, s) \cup D!Changed(b, s)
           changes == {c \in diffs : ~D!Suppressed(c)} \cup D!Denied(s) \cup D!Flagged(b, s)
           count == D!Withheld(b, s) + D!Cardinality({c \in diffs : D!Suppressed(c)})
<1>1. D!Compare({b}, s, evidenceGone) =
        [comparable |-> TRUE, reason |-> "", stack |-> b.stack, changes |-> changes, suppressed |-> count]
  BY Compared
<1>2. count \in Nat
  BY DifferencesCount
<1>3. \A c : c \in changes <=>
             \/ c \in D!Added(b, s) \cup D!Removed(b, s) \cup D!Changed(b, s) /\ ~D!Suppressed(c)
             \/ c \in D!Denied(s) \cup D!Flagged(b, s)
  OBVIOUS
<1> DEFINE r == D!Compare({b}, s, evidenceGone)
<1> HIDE DEF changes, count, diffs, r
<1>4. r.comparable = TRUE /\ r.reason = "" /\ r.stack = b.stack /\ r.suppressed = count /\ r.changes = changes
  <2> DEFINE R1 == [comparable |-> TRUE, reason |-> "", stack |-> b.stack, changes |-> changes, suppressed |-> count]
  <2>1. r = R1
    BY <1>1 DEF r
  <2>2. R1.comparable = TRUE
    OBVIOUS
  <2>3. R1.reason = "" /\ R1.stack = b.stack
    OBVIOUS
  <2>4. R1.suppressed = count /\ R1.changes = changes
    OBVIOUS
  <2> HIDE DEF R1
  <2>5. QED
    BY <2>1, <2>2, <2>3, <2>4
<1>5. /\ r.comparable = TRUE /\ r.reason = "" /\ r.stack = b.stack /\ r.suppressed \in Nat
      /\ \A c : c \in r.changes <=>
             \/ c \in D!Added(b, s) \cup D!Removed(b, s) \cup D!Changed(b, s) /\ ~D!Suppressed(c)
             \/ c \in D!Denied(s) \cup D!Flagged(b, s)
  BY <1>2, <1>3, <1>4
<1>6. QED
  BY <1>5 DEF r

LEMMA ChangesTyped ==
    ASSUME NEW b \in D!Scan, NEW s \in D!Scan,
           NEW c \in D!Added(b, s) \cup D!Removed(b, s) \cup D!Changed(b, s) \cup D!Denied(s) \cup D!Flagged(b, s)
    PROVE  c.type \in D!Types
<1>1. CASE c \in D!Added(b, s)
  <2>1. c.type \in {"host-added", "asset-added", "cookie-added"}
    BY <1>1, ChangeFields DEF D!Added
  <2>2. QED
    BY <2>1 DEF D!Types
<1>2. CASE c \in D!Removed(b, s)
  <2>1. c.type \in {"host-removed", "asset-removed", "cookie-removed"}
    BY <1>2, ChangeFields DEF D!Removed
  <2>2. QED
    BY <2>1 DEF D!Types
<1>3. CASE c \in D!Changed(b, s) \cup D!Denied(s) \cup D!Flagged(b, s)
  <2>1. c.type \in {"script-changed", "consent-changed", "denied-host", "scan-degraded"}
    BY <1>3, ChangeFields DEF D!Changed, D!Denied, D!Flagged
  <2>2. QED
    BY <2>1 DEF D!Types
<1>4. QED
  BY <1>1, <1>2, <1>3

\* A host that is new is reported, or is on the allow list.
LEMMA NewHostIsSaid ==
    ASSUME NEW b \in D!Scan, NEW s \in D!Scan, s.end # "failed", b.end # "failed", NEW evidenceGone,
           NEW h \in D!Hosts(s) \ D!Hosts(b), h \notin Allow
    PROVE  D!Change("host-added", h) \in D!Compare({b}, s, evidenceGone).changes
<1> DEFINE c == D!Change("host-added", h)
<1>1. c \in D!Added(b, s)
  BY DEF D!Added
<1>2. h \notin Assets
  BY ScanSets, DriftConstants
<1>3. D!DomainOf(c) = h
  BY <1>2, ChangeFields DEF D!DomainOf
<1>4. ~D!Suppressed(c)
  BY <1>3 DEF D!Suppressed
<1> HIDE DEF c
<1>5. c \in D!Compare({b}, s, evidenceGone).changes
  BY <1>1, <1>4, ComparedFields
<1>6. QED
  BY <1>5 DEF c

\* A removed asset was in the base and not in the scan, and nothing on its way is a gap.
LEMMA RemovalIsProved ==
    ASSUME NEW b \in D!Scan, NEW s \in D!Scan, s.end # "failed", b.end # "failed", NEW evidenceGone,
           NEW a \in Assets, D!Change("asset-removed", a) \in D!Compare({b}, s, evidenceGone).changes
    PROVE  s.fate[a] = "absent" /\ ~D!RemovalUnprovable(s, Domain[a], D!Initiators(b, a))
<1> DEFINE c == D!Change("asset-removed", a)
<1>1. c.type = "asset-removed" /\ c.subject = a
  BY ChangeFields
<1>2. c \in D!Added(b, s) \cup D!Removed(b, s) \cup D!Changed(b, s) \cup D!Denied(s) \cup D!Flagged(b, s)
  BY ComparedFields
<1> HIDE DEF c
<1>3. c \notin D!Added(b, s) \cup D!Changed(b, s) \cup D!Denied(s) \cup D!Flagged(b, s)
  BY <1>1, ChangeFields DEF D!Added, D!Changed, D!Denied, D!Flagged
<1>4. c \in D!Removed(b, s)
  BY <1>2, <1>3
<1>5. PICK x \in D!Requested(b) \ D!Requested(s) :
        ~D!RemovalUnprovable(s, Domain[x], D!Initiators(b, x)) /\ c = D!Change("asset-removed", x)
  BY <1>1, <1>4, ChangeFields DEF D!Removed
<1>6. x = a
  BY <1>1, <1>5, ChangeFields
<1>7. QED
  BY <1>5, <1>6 DEF D!Requested

\* What a comparison says of how far the scan is to be trusted.
LEMMA Trust ==
    ASSUME NEW b \in D!Scan, NEW s \in D!Scan, s.end # "failed", b.end # "failed", NEW evidenceGone
    PROVE  /\ s.end = "cut" => D!Change("scan-degraded", "cut") \in D!Compare({b}, s, evidenceGone).changes
           /\ D!Change("scan-degraded", "current") \in D!Compare({b}, s, evidenceGone).changes => D!Degraded(s)
<1>1. s.end = "cut" => D!Change("scan-degraded", "cut") \in D!Compare({b}, s, evidenceGone).changes
  BY ComparedFields, ChangeFields DEF D!Flagged
<1> DEFINE c == D!Change("scan-degraded", "current")
<1>2. c.type = "scan-degraded" /\ c.subject = "current"
  BY ChangeFields
<1>3. ASSUME c \in D!Compare({b}, s, evidenceGone).changes PROVE D!Degraded(s)
  <2>1. c \in D!Added(b, s) \cup D!Removed(b, s) \cup D!Changed(b, s) \cup D!Denied(s) \cup D!Flagged(b, s)
    BY <1>3, ComparedFields
  <2> HIDE DEF c
  <2>2. c \notin D!Added(b, s)
    BY <1>2, ChangeFields DEF D!Added
  <2>3. c \notin D!Removed(b, s)
    BY <1>2, ChangeFields DEF D!Removed
  <2>4. c \notin D!Changed(b, s) \cup D!Denied(s)
    BY <1>2, ChangeFields DEF D!Changed, D!Denied
  <2>5. c \in D!Flagged(b, s)
    BY <2>1, <2>2, <2>3, <2>4
  <2>6. QED
    BY <1>2, <2>5, ChangeFields DEF D!Flagged
<1>4. QED
  BY <1>1, <1>3

-----------------------------------------------------------------------------
(* The steps.                                                                *)

\* What a scan that is compared, or could not be, reports.
LEMMA ReportIsTyped ==
    ASSUME NEW s \in D!Scan, NEW b, b = {} \/ \E r \in D!Scan : r.end # "failed" /\ b = {r}, NEW evidenceGone
    PROVE  LET r == D!Compare(b, s, evidenceGone)
           IN  r.comparable \in BOOLEAN /\ r.suppressed \in Nat /\ \A c \in r.changes : c.type \in D!Types
<1> DEFINE r == D!Compare(b, s, evidenceGone)
<1>1. CASE s.end = "failed"
  <2>1. r.comparable \in BOOLEAN /\ r.suppressed = 0 /\ \A c \in r.changes : c.type = "scan-degraded"
    BY <1>1, Failed
  <2>2. "scan-degraded" \in D!Types
    BY DEF D!Types
  <2> HIDE DEF r
  <2>3. r.comparable \in BOOLEAN /\ r.suppressed \in Nat /\ \A c \in r.changes : c.type \in D!Types
    BY <2>1, <2>2
  <2>4. QED
    BY <2>3 DEF r
<1>2. CASE s.end # "failed" /\ b = {}
  <2>1. r.comparable \in BOOLEAN /\ r.suppressed = 0 /\ r.changes = {}
    BY <1>2, NoBase
  <2> HIDE DEF r
  <2>2. r.comparable \in BOOLEAN /\ r.suppressed \in Nat /\ \A c \in r.changes : c.type \in D!Types
    BY <2>1
  <2>3. QED
    BY <2>2 DEF r
<1>3. CASE s.end # "failed" /\ b # {}
  <2>1. PICK base1 \in D!Scan : base1.end # "failed" /\ b = {base1}
    BY <1>3
  <2> HIDE DEF r
  <2>2. /\ r.comparable = TRUE /\ r.suppressed \in Nat
        /\ \A c \in r.changes : c \in D!Added(base1, s) \cup D!Removed(base1, s) \cup D!Changed(base1, s)
                                      \cup D!Denied(s) \cup D!Flagged(base1, s)
    BY <1>3, <2>1, ComparedFields DEF r
  <2>3. QED
    BY <2>1, <2>2, ChangesTyped DEF r
<1>4. QED
  BY <1>1, <1>2, <1>3

\* No host of a scan goes unsaid.
LEMMA HostsAreSaid ==
    ASSUME NEW s \in D!Scan, NEW b, b = {} \/ \E r \in D!Scan : r.end # "failed" /\ b = {r}, NEW evidenceGone,
           s.end = "failed" => s.fate = [a \in Assets |-> "absent"],
           NEW h \in D!Hosts(s), \A r \in b : h \notin D!Hosts(r), h \notin Allow
    PROVE  \/ D!Change("host-added", h) \in D!Compare(b, s, evidenceGone).changes
           \/ D!Compare(b, s, evidenceGone).reason \in {"none", "gone"}
<1>1. CASE s.end = "failed"
  BY <1>1 DEF D!Hosts, D!Requested
<1>2. CASE s.end # "failed" /\ b = {}
  BY <1>2, NoBase
<1>3. CASE s.end # "failed" /\ b # {}
  BY <1>3, NewHostIsSaid
<1>4. QED
  BY <1>1, <1>2, <1>3

\* What is said to be removed was not asked for, or was declined on the way, or the scan was cut.
LEMMA RemovalsAreReal ==
    ASSUME NEW s \in D!Scan, NEW b, b = {} \/ \E r \in D!Scan : r.end # "failed" /\ b = {r}, NEW evidenceGone,
           s.end # "failed" => s.fate \in D!Observed(s.asks, s.end), NEW a \in Assets,
           D!Change("asset-removed", a) \in D!Compare(b, s, evidenceGone).changes,
           D!Compare(b, s, evidenceGone).stack
    PROVE  \/ D!Change("scan-degraded", "cut") \in D!Compare(b, s, evidenceGone).changes
           \/ D!Unreachable(s, a)
<1>1. s.end # "failed"
  BY Failed, ChangeFields
<1>2. b # {}
  BY <1>1, NoBase
<1>3. PICK base1 \in D!Scan : base1.end # "failed" /\ b = {base1}
  BY <1>2
<1>4. base1.stack
  <2> DEFINE r == D!Compare({base1}, s, evidenceGone)
  <2>1. r.stack = base1.stack
    <3>1. /\ r.comparable = TRUE /\ r.reason = "" /\ r.stack = base1.stack /\ r.suppressed \in Nat
          /\ \A c : c \in r.changes <=>
                 \/ c \in D!Added(base1, s) \cup D!Removed(base1, s) \cup D!Changed(base1, s) /\ ~D!Suppressed(c)
                 \/ c \in D!Denied(s) \cup D!Flagged(base1, s)
      BY <1>1, <1>3, ComparedFields, Zenon
    <3>2. QED
      BY <3>1
  <2>2. D!Compare({base1}, s, evidenceGone).stack
    BY <1>3
  <2>3. QED
    BY <2>1, <2>2
<1>5. s.fate[a] = "absent" /\ ~D!RemovalUnprovable(s, Domain[a], D!Initiators(base1, a))
  BY <1>1, <1>3, RemovalIsProved
<1>6. \A x \in D!Chain(a) : s.fate[x] # "lost"
  <2> SUFFICES ASSUME NEW x \in D!Chain(a), s.fate[x] = "lost" PROVE FALSE
    OBVIOUS
  <2>1. x \in Assets
    BY ChainGoesUp
  <2>2. Domain[x] \in D!Unobserved(s)
    BY <2>1 DEF D!Unobserved, D!Lost
  <2>3. Domain[x] \in D!Initiators(base1, a)
    BY <1>4 DEF D!Initiators
  <2>4. QED
    BY <1>5, <2>2, <2>3 DEF D!RemovalUnprovable
<1>7. CASE s.end = "cut"
  BY <1>1, <1>3, <1>7, Trust
<1>8. CASE s.end # "cut"
  <2> SUFFICES ASSUME ~D!Unreachable(s, a) PROVE FALSE
    OBVIOUS
  <2>1. \A x \in D!Chain(a) \cup {a} : x \in s.asks /\ s.fate[x] # "declined"
    BY DEF D!Unreachable
  <2>2. QED
    BY <1>1, <1>5, <1>6, <1>8, <2>1, AskedIsObserved
<1>9. QED
  BY <1>7, <1>8

\* A scan the comparison calls degraded is.
LEMMA DegradedIs ==
    ASSUME NEW s \in D!Scan, NEW b, b = {} \/ \E r \in D!Scan : r.end # "failed" /\ b = {r}, NEW evidenceGone,
           D!Change("scan-degraded", "current") \in D!Compare(b, s, evidenceGone).changes
    PROVE  s.end # "failed" /\ D!Degraded(s)
<1>1. s.end # "failed"
  BY Failed, ChangeFields
<1>2. b # {}
  BY <1>1, NoBase
<1>3. QED
  BY <1>1, <1>2, Trust

LEMMA ScanItIs ==
    ASSUME D!ScanIt
    PROVE  \E s \in D!Scan :
             /\ s.end = "failed" => s.fate = [a \in Assets |-> "absent"]
             /\ s.end # "failed" => s.fate \in D!Observed(s.asks, s.end)
             /\ report' = D!Compare(D!BaseFor(s.stored), s, gone) /\ latest' = {s}
             /\ known' = known \cup {d \in Domains : D!Change("host-added", d) \in report'.changes}
                               \cup (D!Hosts(s) \cap Allow)
                               \cup IF report'.reason \in {"none", "gone"} THEN D!Hosts(s) ELSE {}
             /\ UNCHANGED <<basis, base, gone>>
<1>1. PICK asks \in SUBSET Assets, end \in {"idle", "cut", "failed"} :
        \E fate \in IF end = "failed" THEN {[a \in Assets |-> "absent"]} ELSE D!Observed(asks, end),
           stack \in Stacks, consent \in Outcomes, stores \in BOOLEAN :
        \E digest \in IF fate[Script] = "ok" THEN Versions \cup {0} ELSE {0} :
        LET s == [fate |-> fate, stack |-> stack, digest |-> digest, consent |-> consent,
                  end |-> end, stored |-> stores, asks |-> asks]
            r == D!Compare(D!BaseFor(stores), s, gone)
        IN /\ report' = r /\ latest' = {s}
           /\ known' = known \cup {d \in Domains : D!Change("host-added", d) \in r.changes}
                             \cup (D!Hosts(s) \cap Allow)
                             \cup IF r.reason \in {"none", "gone"} THEN D!Hosts(s) ELSE {}
           /\ UNCHANGED <<basis, base, gone>>
  BY DEF D!ScanIt
<1>2. PICK fate \in IF end = "failed" THEN {[a \in Assets |-> "absent"]} ELSE D!Observed(asks, end),
           stack \in Stacks, consent \in Outcomes, stores \in BOOLEAN :
        \E digest \in IF fate[Script] = "ok" THEN Versions \cup {0} ELSE {0} :
        LET s == [fate |-> fate, stack |-> stack, digest |-> digest, consent |-> consent,
                  end |-> end, stored |-> stores, asks |-> asks]
            r == D!Compare(D!BaseFor(stores), s, gone)
        IN /\ report' = r /\ latest' = {s}
           /\ known' = known \cup {d \in Domains : D!Change("host-added", d) \in r.changes}
                             \cup (D!Hosts(s) \cap Allow)
                             \cup IF r.reason \in {"none", "gone"} THEN D!Hosts(s) ELSE {}
           /\ UNCHANGED <<basis, base, gone>>
  BY <1>1
<1>3. PICK digest \in Versions \cup {0} :
        LET s == [fate |-> fate, stack |-> stack, digest |-> digest, consent |-> consent,
                  end |-> end, stored |-> stores, asks |-> asks]
            r == D!Compare(D!BaseFor(stores), s, gone)
        IN /\ report' = r /\ latest' = {s}
           /\ known' = known \cup {d \in Domains : D!Change("host-added", d) \in r.changes}
                             \cup (D!Hosts(s) \cap Allow)
                             \cup IF r.reason \in {"none", "gone"} THEN D!Hosts(s) ELSE {}
           /\ UNCHANGED <<basis, base, gone>>
  BY <1>2
<1> DEFINE s == [fate |-> fate, stack |-> stack, digest |-> digest, consent |-> consent,
                 end |-> end, stored |-> stores, asks |-> asks]
<1>4. fate \in [Assets -> D!Fates] /\ (end # "failed" => fate \in D!Observed(asks, end))
      /\ (end = "failed" => fate = [a \in Assets |-> "absent"])
  BY <1>2 DEF D!Observed, D!Fates
<1>5. s \in D!Scan
  BY <1>4 DEF D!Scan
<1>6. s.fate = fate /\ s.end = end /\ s.asks = asks /\ s.stored = stores
  OBVIOUS
<1>7. /\ report' = D!Compare(D!BaseFor(stores), s, gone) /\ latest' = {s}
      /\ known' = known \cup {d \in Domains : D!Change("host-added", d) \in report'.changes}
                        \cup (D!Hosts(s) \cap Allow)
                        \cup IF report'.reason \in {"none", "gone"} THEN D!Hosts(s) ELSE {}
      /\ UNCHANGED <<basis, base, gone>>
  BY <1>3
<1> HIDE DEF s
<1>8. QED
  BY <1>4, <1>5, <1>6, <1>7

LEMMA ScanItKeeps == ASSUME DriftInv, D!ScanIt PROVE DriftInv'
<1>1. PICK s \in D!Scan :
        /\ s.end = "failed" => s.fate = [a \in Assets |-> "absent"]
        /\ s.end # "failed" => s.fate \in D!Observed(s.asks, s.end)
        /\ report' = D!Compare(D!BaseFor(s.stored), s, gone) /\ latest' = {s}
        /\ known' = known \cup {d \in Domains : D!Change("host-added", d) \in report'.changes}
                          \cup (D!Hosts(s) \cap Allow)
                          \cup IF report'.reason \in {"none", "gone"} THEN D!Hosts(s) ELSE {}
        /\ UNCHANGED <<basis, base, gone>>
  BY ScanItIs
<1> DEFINE b == D!BaseFor(s.stored)
<1>2. (b = {} \/ \E r \in D!Scan : r.end # "failed" /\ b = {r}) /\ b \subseteq base
  BY DEF D!BaseFor, DriftInv, DriftTyped
<1>3. D!Hosts(s) \subseteq Domains
  BY ScanSets
<1> HIDE DEF b
<1>4. report' = D!Compare(b, s, gone)
  BY <1>1 DEF b
<1>5. report'.comparable \in BOOLEAN /\ report'.suppressed \in Nat /\ \A c \in report'.changes : c.type \in D!Types
  BY <1>2, <1>4, ReportIsTyped
<1>6. DriftTyped'
  BY <1>1, <1>3, <1>5 DEF DriftInv, DriftTyped
<1>7. ASSUME NEW h \in D!Hosts(s) PROVE h \in known'
  <2>1. CASE \E r \in b : h \in D!Hosts(r)
    BY <1>1, <1>2, <2>1 DEF DriftInv, Familiar
  <2>2. CASE h \in Allow
    BY <1>1, <1>7, <2>2
  <2>3. CASE h \notin Allow /\ \A r \in b : h \notin D!Hosts(r)
    <3>1. D!Change("host-added", h) \in report'.changes \/ report'.reason \in {"none", "gone"}
      BY <1>1, <1>2, <1>4, <1>7, <2>3, HostsAreSaid
    <3>2. QED
      BY <1>1, <1>3, <1>7, <3>1
  <2>4. QED
    BY <2>1, <2>2, <2>3
<1>8. Familiar'
  BY <1>1, <1>7 DEF DriftInv, Familiar
<1>9. D!RemovalIsReal'
  <2> SUFFICES ASSUME NEW a \in Assets, D!Change("asset-removed", a) \in report'.changes, report'.stack
               PROVE  D!Change("scan-degraded", "cut") \in report'.changes \/ D!Unreachable(s, a)
    BY <1>1 DEF D!RemovalIsReal, D!SaysIncomplete
  <2>1. QED
    BY <1>1, <1>2, <1>4, RemovalsAreReal
<1>10. D!BandAgrees'
  <2> SUFFICES ASSUME NEW d \in {0, 15, 30}
               PROVE  /\ D!Change("scan-degraded", "current") \in report'.changes => D!Score(s, d) = "low"
                      /\ s.consent = "failed" => D!Score(s, d) # "high"
    BY <1>1 DEF D!BandAgrees
  <2>1. QED
    BY <1>2, <1>4, DegradedIs, ScoreIsCareful
<1>11. QED
  BY <1>6, <1>8, <1>9, <1>10 DEF DriftInv

\* A stored scan is a base without what the site asked for, which no one but the site knows.
LEMMA StoredScan ==
    ASSUME NEW s \in D!Scan
    PROVE  /\ [s EXCEPT !.asks = {}] \in D!Scan /\ [s EXCEPT !.asks = {}].end = s.end
           /\ D!Hosts([s EXCEPT !.asks = {}]) = D!Hosts(s)
<1>1. /\ [s EXCEPT !.asks = {}] \in D!Scan /\ [s EXCEPT !.asks = {}].end = s.end
      /\ [s EXCEPT !.asks = {}].fate = s.fate
  BY DEF D!Scan
<1>2. QED
  BY <1>1 DEF D!Hosts, D!Requested

LEMMA FollowKeeps == ASSUME DriftInv, D!Follow PROVE DriftInv'
<1>1. /\ latest' = {} /\ report' = D!Nothing /\ UNCHANGED <<basis, known>> /\ gone' \in BOOLEAN
  BY DEF D!Follow, DriftInv, DriftTyped
<1>2. PICK s \in D!Scan : latest = {s}
  BY DEF D!Follow, DriftInv, DriftTyped
<1>3. base' = base \/ (base' = {[s EXCEPT !.asks = {}]} /\ s.end # "failed")
  BY <1>2 DEF D!Follow, D!IsBase
<1>4. /\ D!Nothing.comparable \in BOOLEAN /\ D!Nothing.suppressed \in Nat /\ D!Nothing.changes = {}
  BY DEF D!Nothing
<1>5. base' = {} \/ \E r \in D!Scan : r.end # "failed" /\ base' = {r}
  BY <1>3, StoredScan DEF DriftInv, DriftTyped
<1>6. DriftTyped'
  BY <1>1, <1>4, <1>5 DEF DriftInv, DriftTyped
<1>7. Familiar'
  BY <1>1, <1>2, <1>3, StoredScan DEF DriftInv, Familiar
<1>8. D!RemovalIsReal' /\ D!BandAgrees'
  BY <1>1 DEF D!RemovalIsReal, D!BandAgrees
<1>9. QED
  BY <1>6, <1>7, <1>8 DEF DriftInv

\* An operator's step leaves the report and the scan it is of.
LEMMA OperatorKeeps ==
    ASSUME DriftInv, UNCHANGED <<report, latest>>
    PROVE  D!RemovalIsReal' /\ D!BandAgrees'
BY DEF DriftInv, D!RemovalIsReal, D!BandAgrees, D!SaysIncomplete

LEMMA ApproveKeeps == ASSUME DriftInv, D!Approve PROVE DriftInv'
<1>1. /\ basis = "approved" /\ UNCHANGED <<basis, gone, latest, report>>
      /\ known' = known \cup UNION {D!Hosts(s) : s \in latest}
  BY DEF D!Approve
<1>2. PICK s \in D!Scan : latest = {s} /\ s.end # "failed" /\ base' = {[s EXCEPT !.asks = {}]}
  BY DEF D!Approve, DriftInv, DriftTyped
<1>3. known' = known \cup D!Hosts(s)
  BY <1>1, <1>2
<1>4. DriftTyped'
  BY <1>1, <1>2, <1>3, StoredScan, ScanSets DEF DriftInv, DriftTyped
<1>5. Familiar'
  BY <1>1, <1>2, <1>3, StoredScan DEF DriftInv, Familiar
<1>6. QED
  BY <1>1, <1>4, <1>5, OperatorKeeps DEF DriftInv

LEMMA ForgetsKeeps ==
    ASSUME DriftInv, D!DeleteBaseline \/ D!LoseEvidence \/ UNCHANGED D!vars
    PROVE  DriftInv'
<1>1. /\ UNCHANGED <<basis, latest, report, known>>
      /\ base' = base \/ base' = {}
      /\ gone' = gone \/ gone' = TRUE
  BY DEF D!DeleteBaseline, D!LoseEvidence, D!vars
<1>2. DriftTyped'
  <2>1. gone' \in BOOLEAN
    BY <1>1 DEF DriftInv, DriftTyped
  <2>2. base' = {} \/ \E r \in D!Scan : r.end # "failed" /\ base' = {r}
    BY <1>1 DEF DriftInv, DriftTyped
  <2>3. QED
    BY <1>1, <2>1, <2>2 DEF DriftInv, DriftTyped
<1>3. Familiar'
  BY <1>1 DEF DriftInv, Familiar
<1>4. QED
  BY <1>1, <1>2, <1>3, OperatorKeeps DEF DriftInv

LEMMA DriftStep == ASSUME DriftInv, [D!Next]_D!vars PROVE DriftInv'
BY ScanItKeeps, FollowKeeps, ApproveKeeps, ForgetsKeeps DEF D!Next

LEMMA DriftStart == D!Init => DriftInv
<1> SUFFICES ASSUME D!Init PROVE DriftInv
  OBVIOUS
<1>1. /\ basis \in {"previous", "approved"} /\ base = {} /\ gone = FALSE /\ latest = {} /\ report = D!Nothing
      /\ known = {}
  BY DEF D!Init
<1>2. /\ D!Nothing.comparable \in BOOLEAN /\ D!Nothing.suppressed \in Nat /\ D!Nothing.changes = {}
  BY DEF D!Nothing
<1>3. gone \in BOOLEAN
  BY <1>1
<1>4. DriftTyped
  BY <1>1, <1>2, <1>3 DEF DriftTyped
<1>5. Familiar /\ D!RemovalIsReal /\ D!BandAgrees
  BY <1>1 DEF Familiar, D!RemovalIsReal, D!BandAgrees
<1>6. QED
  BY <1>4, <1>5 DEF DriftInv

LEMMA DriftPromise == DriftInv => D!TypeOK /\ D!NothingSlipsIn /\ D!RemovalIsReal /\ D!BandAgrees
<1> SUFFICES ASSUME DriftInv PROVE D!TypeOK /\ D!NothingSlipsIn
  BY DEF DriftInv
<1>1. \A x : D!Cardinality({x}) = 1
  BY Counting, FS_Singleton
<1>2. D!Cardinality({}) = 0
  BY Counting, FS_EmptySet
<1>3. /\ base \subseteq D!Scan /\ D!Cardinality(base) <= 1 /\ \A r \in base : r.end # "failed"
      /\ latest \subseteq D!Scan /\ D!Cardinality(latest) <= 1
  <2>1. base = {} \/ \E r \in D!Scan : r.end # "failed" /\ base = {r}
    BY DEF DriftInv, DriftTyped
  <2>2. latest = {} \/ \E s \in D!Scan : latest = {s}
    BY DEF DriftInv, DriftTyped
  <2>3. base \subseteq D!Scan /\ D!Cardinality(base) <= 1 /\ \A r \in base : r.end # "failed"
    BY <1>1, <1>2, <2>1
  <2>4. latest \subseteq D!Scan /\ D!Cardinality(latest) <= 1
    <3>1. CASE latest = {}
      BY <1>2, <3>1
    <3>2. CASE \E s \in D!Scan : latest = {s}
      BY <1>1, <3>2
    <3>3. QED
      BY <2>2, <3>1, <3>2
  <2>5. QED
    BY <2>3, <2>4
<1>4. D!TypeOK
  BY <1>3 DEF D!TypeOK, DriftInv, DriftTyped
<1>5. D!NothingSlipsIn
  BY DEF DriftInv, Familiar, D!NothingSlipsIn
<1>6. QED
  BY <1>4, <1>5

-----------------------------------------------------------------------------
(* Containers: what processes leave on the host.                              *)

BoxType == [on : C!Runtimes \cup {"local", None}, owner : Pids \cup {None}]
Places == {"new", "resolve", "list", "reap", "ready", "wait", "attach", "open", "over"}
Losses == {"", "version", "run", "attach", "remove", "crash"}
Holding == {"wait", "attach", "open"}
BoxesTyped ==
    /\ pid \in [Procs -> Pids \cup {None}] /\ at \in [Procs -> Places]
    /\ kind \in [Procs -> C!Kinds \cup {None}] /\ tried \in [Procs -> 0..2]
    /\ runtime \in [Procs -> C!Runtimes \cup {"local", None}]
    /\ listed \in [Procs -> SUBSET Boxes] /\ held \in [Procs -> Boxes \cup {None}]
    /\ box \in [Boxes -> BoxType] /\ by \in [Boxes -> Procs \cup {None}]
    /\ left \in [Boxes -> Losses] /\ taken = {}

\* A process has a pid and a kind from its start on, and a runtime once it has asked.
Decided ==
    \A p \in Procs : /\ C!Up(p) => pid[p] \in Pids /\ kind[p] \in C!Kinds
                     /\ at[p] \in {"list", "reap", "ready"} \cup Holding => runtime[p] # None

\* What a process holds it made, and it holds something exactly while it is at work on it.
HoldsOwn ==
    \A p \in Procs : /\ held[p] # None <=> at[p] \in Holding
                     /\ held[p] # None => by[held[p]] = p

\* A label names the process that made the container, ...
Labelled(b) ==
    /\ by[b] = None => box[b].on = None
    /\ by[b] # None => at[by[b]] # "new"
    /\ box[b].owner # None => by[b] # None /\ box[b].owner = pid[by[b]]
\* ... one that is there is held or was lost, ...
Known(b) == box[b].on # None => C!InUse(b) \/ left[b] # ""
\* ... and one that is to be looked at had a label.
ListedMade ==
    \A p \in Procs : \A b \in listed[p] : by[b] # None /\ (box[b].on # None => box[b].owner # None)
\* No two processes that are up have one pid.
PidsApart == \A p, q \in Procs : C!Up(p) /\ C!Up(q) /\ pid[p] = pid[q] => p = q
BoxesInv ==
    /\ BoxesTyped /\ Decided /\ HoldsOwn /\ ListedMade /\ PidsApart
    /\ \A b \in Boxes : Labelled(b) /\ Known(b)

LEMMA NoneApart ==
    /\ None \notin Pids /\ None \notin Procs /\ None \notin Boxes
    /\ None \notin {"podman", "docker", "auto", "local"}
BY DeskAssumption DEF C!ContainersAssumption, C!Kinds, C!Runtimes

\* A step of a process that holds nothing, which leaves the boxes alone.
LEMMA QuietKeeps ==
    ASSUME BoxesInv, NEW p \in Procs, at[p] \notin Holding \cup {"new"},
           NEW place \in {"resolve", "list", "reap", "ready", "over"}, C!Goes(p, place),
           place # "over" => at[p] # "over",
           UNCHANGED <<pid, kind, held, box, by, left, taken>>,
           tried' \in [Procs -> 0..2], runtime' \in [Procs -> C!Runtimes \cup {"local", None}],
           \A q \in Procs \ {p} : runtime'[q] = runtime[q],
           place \in {"list", "reap", "ready"} => runtime'[p] # None,
           listed' \in [Procs -> SUBSET Boxes],
           \A q \in Procs : \A b \in listed'[q] : b \in listed[q] \/ box[b].owner # None
    PROVE  BoxesInv'
<1>1. /\ at' \in [Procs -> Places] /\ at'[p] = place
      /\ \A q \in Procs \ {p} : at'[q] = at[q]
  BY DEF C!Goes, BoxesInv, BoxesTyped, Places
<1>2. BoxesTyped'
  BY <1>1 DEF BoxesInv, BoxesTyped
<1>3. Decided'
  BY <1>1 DEF BoxesInv, Decided, C!Up, Holding
<1>4. HoldsOwn' /\ PidsApart'
  BY <1>1 DEF BoxesInv, HoldsOwn, PidsApart, C!Up, Holding
<1>5. ASSUME NEW b \in Boxes PROVE Labelled(b)'
  BY <1>1 DEF BoxesInv, BoxesTyped, Labelled
<1>6. ASSUME NEW b \in Boxes PROVE Known(b)'
  <2>1. C!InUse(b) => C!InUse(b)'
    BY <1>1, NoneApart DEF BoxesInv, BoxesTyped, HoldsOwn, C!InUse, C!Up
  <2>2. QED
    BY <2>1 DEF BoxesInv, Known
<1>7. ListedMade'
  <2> SUFFICES ASSUME NEW q \in Procs, NEW b \in listed'[q]
               PROVE  by[b] # None /\ (box[b].on # None => box[b].owner # None)
    BY DEF ListedMade
  <2>1. b \in Boxes
    BY DEF BoxesInv, BoxesTyped
  <2>2. QED
    BY <2>1 DEF BoxesInv, ListedMade, Labelled
<1>8. QED
  BY <1>2, <1>3, <1>4, <1>5, <1>6, <1>7 DEF BoxesInv

LEMMA AskedRuntime ==
    ASSUME BoxesInv, NEW p \in Procs, C!Asking(p)
    PROVE  at[p] = "resolve" /\ C!Asked(p) \in C!Runtimes /\ C!Asked(p) # None /\ tried[p] \in 0..1
<1>1. at[p] = "resolve" /\ kind[p] # "local" /\ tried[p] < 2 /\ tried[p] \in 0..2 /\ kind[p] \in C!Kinds
  BY DEF C!Asking, C!AutoOrder, BoxesInv, BoxesTyped, Decided, C!Up
<1>2. C!AutoOrder[tried[p] + 1] \in C!Runtimes
  BY <1>1 DEF C!AutoOrder, C!Runtimes
<1>3. C!Asked(p) \in C!Runtimes
  BY <1>2 DEF C!Asked
<1>4. QED
  BY <1>1, <1>3, NoneApart DEF C!Runtimes

LEMMA StartKeeps == ASSUME BoxesInv, NEW p \in Procs, C!Start(p) PROVE BoxesInv'
<1>1. PICK n \in Pids, k \in C!Kinds :
        /\ at[p] = "new" /\ \A q \in Procs : C!Up(q) => pid[q] # n
        /\ pid' = [pid EXCEPT ![p] = n] /\ kind' = [kind EXCEPT ![p] = k] /\ C!Goes(p, "resolve")
        /\ UNCHANGED <<tried, runtime, listed, held>> /\ UNCHANGED C!boxVars
  BY DEF C!Start
<1>2. UNCHANGED <<tried, runtime, listed, held, box, by, left, taken>>
  BY <1>1 DEF C!boxVars
<1>3. /\ at' \in [Procs -> Places] /\ at'[p] = "resolve" /\ \A q \in Procs \ {p} : at'[q] = at[q]
      /\ pid' \in [Procs -> Pids \cup {None}] /\ pid'[p] = n /\ \A q \in Procs \ {p} : pid'[q] = pid[q]
      /\ kind' \in [Procs -> C!Kinds \cup {None}] /\ kind'[p] = k /\ \A q \in Procs \ {p} : kind'[q] = kind[q]
  BY <1>1 DEF C!Goes, BoxesInv, BoxesTyped, Places
<1>4. BoxesTyped' /\ ListedMade'
  BY <1>2, <1>3 DEF BoxesInv, BoxesTyped, ListedMade
<1>5. Decided' /\ HoldsOwn'
  BY <1>1, <1>2, <1>3 DEF BoxesInv, Decided, HoldsOwn, C!Up, Holding
<1>6. PidsApart'
  BY <1>1, <1>3 DEF BoxesInv, PidsApart, C!Up
<1>7. ASSUME NEW b \in Boxes PROVE Labelled(b)' /\ Known(b)'
  <2>1. Labelled(b) /\ Known(b) /\ by[b] \in Procs \cup {None} /\ by[b] # p
    BY <1>1, NoneApart DEF BoxesInv, BoxesTyped, Labelled
  <2>2. Labelled(b)'
    BY <1>2, <1>3, <2>1 DEF Labelled
  <2>3. C!InUse(b) => C!InUse(b)'
    BY <1>2, <1>3, <2>1 DEF C!InUse, C!Up
  <2>4. QED
    BY <1>2, <2>1, <2>2, <2>3 DEF Known
<1>8. QED
  BY <1>4, <1>5, <1>6, <1>7 DEF BoxesInv

LEMMA PassOverKeeps == ASSUME BoxesInv, NEW p \in Procs, C!PassOver(p) PROVE BoxesInv'
<1>1. /\ C!Asking(p) /\ UNCHANGED <<pid, kind, runtime, listed, held, box, by, left, taken>>
  BY DEF C!PassOver, C!boxVars
<1>2. at[p] = "resolve" /\ tried[p] \in 0..1
  BY <1>1, AskedRuntime
<1>3. CASE tried' = [tried EXCEPT ![p] = @ + 1] /\ UNCHANGED at
  <2>1. tried' \in [Procs -> 0..2]
    BY <1>2, <1>3 DEF BoxesInv, BoxesTyped
  <2>2. C!Goes(p, "resolve")
    BY <1>2, <1>3 DEF C!Goes, BoxesInv, BoxesTyped
  <2>3. QED
    BY <1>1, <1>2, <2>1, <2>2, QuietKeeps DEF BoxesInv, BoxesTyped, Holding
<1>4. CASE C!Goes(p, "over") /\ UNCHANGED tried
  BY <1>1, <1>2, <1>4, QuietKeeps DEF BoxesInv, BoxesTyped, Holding
<1>5. QED
  BY <1>3, <1>4 DEF C!PassOver

LEMMA UseContainerKeeps == ASSUME BoxesInv, NEW p \in Procs, C!UseContainer(p) PROVE BoxesInv'
<1>1. /\ at[p] = "resolve" /\ C!Asked(p) \in C!Runtimes /\ C!Asked(p) # None
      /\ runtime' = [runtime EXCEPT ![p] = C!Asked(p)] /\ C!Goes(p, "list")
      /\ UNCHANGED <<pid, kind, tried, listed, held, box, by, left, taken>>
  BY AskedRuntime DEF C!UseContainer, C!boxVars
<1>2. /\ runtime' \in [Procs -> C!Runtimes \cup {"local", None}] /\ runtime'[p] # None
      /\ \A q \in Procs \ {p} : runtime'[q] = runtime[q]
  BY <1>1 DEF BoxesInv, BoxesTyped
<1>3. QED
  BY <1>1, <1>2, QuietKeeps DEF BoxesInv, BoxesTyped, Holding

LEMMA ResolveLocalKeeps == ASSUME BoxesInv, NEW p \in Procs, C!ResolveLocal(p) PROVE BoxesInv'
<1>1. at[p] = "resolve" /\ UNCHANGED <<pid, kind, tried, listed, held, box, by, left, taken>>
  BY DEF C!ResolveLocal, C!boxVars
<1>2. CASE runtime' = [runtime EXCEPT ![p] = "local"] /\ C!Goes(p, "ready")
  <2>1. /\ runtime' \in [Procs -> C!Runtimes \cup {"local", None}] /\ runtime'[p] # None
        /\ \A q \in Procs \ {p} : runtime'[q] = runtime[q]
    BY <1>2, NoneApart DEF BoxesInv, BoxesTyped
  <2>2. QED
    BY <1>1, <1>2, <2>1, QuietKeeps DEF BoxesInv, BoxesTyped, Holding
<1>3. CASE C!Goes(p, "over") /\ UNCHANGED runtime
  BY <1>1, <1>3, QuietKeeps DEF BoxesInv, BoxesTyped, Holding
<1>4. QED
  BY <1>2, <1>3 DEF C!ResolveLocal

LEMMA ListKeeps == ASSUME BoxesInv, NEW p \in Procs, C!List(p) PROVE BoxesInv'
<1>1. /\ at[p] = "list" /\ runtime[p] # None
      /\ UNCHANGED <<pid, kind, tried, runtime, held, box, by, left, taken>>
  BY DEF C!List, C!boxVars, BoxesInv, Decided
<1>2. CASE /\ listed' = [listed EXCEPT ![p] = {b \in C!There : box[b].on = runtime[p] /\ box[b].owner # None}]
           /\ C!Goes(p, "reap")
  <2>1. {b \in C!There : box[b].on = runtime[p] /\ box[b].owner # None} \subseteq Boxes
    BY DEF C!There
  <2>2. /\ listed' \in [Procs -> SUBSET Boxes]
        /\ \A q \in Procs : \A b \in listed'[q] : b \in listed[q] \/ box[b].owner # None
    BY <1>2, <2>1 DEF BoxesInv, BoxesTyped
  <2>3. QED
    BY <1>1, <1>2, <2>2, QuietKeeps DEF BoxesInv, BoxesTyped, Holding
<1>3. CASE C!Goes(p, "ready") /\ UNCHANGED listed
  BY <1>1, <1>3, QuietKeeps DEF BoxesInv, BoxesTyped, Holding
<1>4. QED
  BY <1>2, <1>3 DEF C!List

LEMMA QuietEnds ==
    ASSUME BoxesInv, NEW p \in Procs, C!Reaped(p) \/ C!Exit(p)
    PROVE  BoxesInv'
<1>1. UNCHANGED <<pid, kind, tried, runtime, listed, held, box, by, left, taken>>
  BY DEF C!Reaped, C!Exit, C!boxVars
<1>2. CASE C!Reaped(p)
  <2>1. at[p] = "reap" /\ C!Goes(p, "ready") /\ runtime[p] # None
    BY <1>2 DEF C!Reaped, BoxesInv, Decided
  <2>2. QED
    BY <1>1, <2>1, QuietKeeps DEF BoxesInv, BoxesTyped, Holding
<1>3. CASE C!Exit(p)
  <2>1. at[p] = "ready" /\ C!Goes(p, "over")
    BY <1>3 DEF C!Exit
  <2>2. QED
    BY <1>1, <2>1, QuietKeeps DEF BoxesInv, BoxesTyped, Holding
<1>4. QED
  BY <1>2, <1>3

-----------------------------------------------------------------------------
(* Boxes come and go.                                                        *)

\* A box of a process goes without harm: its label names a pid no live process has, or
\* it ended by itself.
LEMMA BoxGoes ==
    ASSUME BoxesInv, NEW b \in Boxes, box' = [box EXCEPT ![b] = C!Gone],
           UNCHANGED <<pid, at, kind, tried, runtime, held, by, left, taken>>,
           listed' \in [Procs -> SUBSET Boxes], \A q \in Procs : listed'[q] \subseteq listed[q]
    PROVE  BoxesInv'
<1>1. /\ box' \in [Boxes -> BoxType] /\ box'[b].on = None /\ box'[b].owner = None
      /\ \A c \in Boxes \ {b} : box'[c] = box[c]
  BY DEF BoxesInv, BoxesTyped, BoxType, C!Gone
<1>2. BoxesTyped' /\ Decided' /\ HoldsOwn' /\ PidsApart'
  BY <1>1 DEF BoxesInv, BoxesTyped, Decided, HoldsOwn, PidsApart, C!Up
<1>3. ListedMade'
  BY <1>1 DEF BoxesInv, BoxesTyped, ListedMade
<1>4. ASSUME NEW c \in Boxes PROVE Labelled(c)' /\ Known(c)'
  BY <1>1 DEF BoxesInv, Labelled, Known, C!InUse, C!Up
<1>5. QED
  BY <1>2, <1>3, <1>4 DEF BoxesInv

\* What is in use has the pid of a live process on its label.
LEMMA ReapKeeps == ASSUME BoxesInv, NEW p \in Procs, C!Reap(p) PROVE BoxesInv'
<1>1. PICK b \in listed[p] :
        /\ at[p] = "reap" /\ listed' = [listed EXCEPT ![p] = @ \ {b}]
        /\ UNCHANGED <<pid, at, kind, tried, runtime, held>>
        /\ \/ UNCHANGED <<box, by, left, taken>>
           \/ /\ b \in C!There /\ ~C!ProcessAlive(box[b].owner)
              /\ box' = [box EXCEPT ![b] = C!Gone] /\ taken' = IF C!InUse(b) THEN taken \cup {b} ELSE taken
              /\ UNCHANGED <<by, left>>
  BY DEF C!Reap, C!boxVars
<1>2. /\ b \in Boxes /\ listed' \in [Procs -> SUBSET Boxes]
      /\ \A q \in Procs : listed'[q] \subseteq listed[q]
  BY <1>1 DEF BoxesInv, BoxesTyped
<1>3. CASE UNCHANGED <<box, by, left, taken>>
  <2>1. BoxesTyped' /\ Decided' /\ HoldsOwn' /\ PidsApart' /\ ListedMade'
    BY <1>1, <1>2, <1>3 DEF BoxesInv, BoxesTyped, Decided, HoldsOwn, PidsApart, ListedMade, C!Up
  <2>2. ASSUME NEW c \in Boxes PROVE Labelled(c)' /\ Known(c)'
    BY <1>1, <1>3 DEF BoxesInv, Labelled, Known, C!InUse, C!Up
  <2>3. QED
    BY <2>1, <2>2 DEF BoxesInv
<1>4. CASE /\ b \in C!There /\ ~C!ProcessAlive(box[b].owner)
           /\ box' = [box EXCEPT ![b] = C!Gone] /\ taken' = IF C!InUse(b) THEN taken \cup {b} ELSE taken
           /\ UNCHANGED <<by, left>>
  <2>1. box[b].owner # None /\ box[b].owner = pid[by[b]] /\ by[b] \in Procs
    BY <1>2, <1>4 DEF C!There, BoxesInv, BoxesTyped, ListedMade, Labelled
  <2>2. ~C!InUse(b)
    BY <1>4, <2>1 DEF C!ProcessAlive, C!InUse
  <2>3. UNCHANGED taken
    BY <1>4, <2>2
  <2>4. QED
    BY <1>1, <1>2, <1>4, <2>3, BoxGoes
<1>5. QED
  BY <1>1, <1>3, <1>4

LEMMA EndsKeeps == ASSUME BoxesInv, NEW b \in Boxes, C!Ends(b) PROVE BoxesInv'
<1>1. /\ box' = [box EXCEPT ![b] = C!Gone]
      /\ UNCHANGED <<pid, at, kind, tried, runtime, listed, held, by, left, taken>>
  BY DEF C!Ends, C!procVars
<1>2. QED
  BY <1>1, BoxGoes DEF BoxesInv, BoxesTyped

\* A process makes a box: it holds it, or its loss is known.
LEMMA MakesKeeps ==
    ASSUME BoxesInv, NEW p \in Procs, at[p] \in {"resolve", "ready"}, NEW b \in Boxes,
           NEW on \in C!Runtimes \cup {"local"}, NEW owner \in {None, pid[p]}, NEW how \in Losses,
           C!Makes(p, b, on, owner, how), NEW place \in {"over", "ready", "wait", "attach"}, C!Goes(p, place),
           place = "over" \/ at[p] = "ready",
           UNCHANGED <<pid, kind, tried, runtime, listed>>,
           \/ place \in Holding /\ C!Holds(p, b)
           \/ place \notin Holding /\ how # "" /\ UNCHANGED held
    PROVE  BoxesInv'
<1>1. /\ by[b] = None /\ by' = [by EXCEPT ![b] = p] /\ left' = [left EXCEPT ![b] = how] /\ taken' = taken
      /\ box' = [box EXCEPT ![b] = [on |-> on, owner |-> owner]]
  BY DEF C!Makes
<1>2. /\ at' \in [Procs -> Places] /\ at'[p] = place
      /\ \A q \in Procs \ {p} : at'[q] = at[q]
  BY DEF C!Goes, BoxesInv, BoxesTyped, Places
<1>3. /\ by' \in [Boxes -> Procs \cup {None}] /\ by'[b] = p /\ \A c \in Boxes \ {b} : by'[c] = by[c]
      /\ left' \in [Boxes -> Losses] /\ left'[b] = how /\ \A c \in Boxes \ {b} : left'[c] = left[c]
  BY <1>1 DEF BoxesInv, BoxesTyped
<1>4. owner \in Pids \cup {None}
  BY DEF BoxesInv, BoxesTyped
<1>5. /\ box' \in [Boxes -> BoxType] /\ box'[b].on = on /\ box'[b].owner = owner
      /\ \A c \in Boxes \ {b} : box'[c] = box[c]
  BY <1>1, <1>4 DEF BoxesInv, BoxesTyped, BoxType
<1>6. held[p] = None /\ (runtime[p] # None \/ place = "over")
  BY DEF BoxesInv, HoldsOwn, Decided, Holding
<1>7. /\ held' \in [Procs -> Boxes \cup {None}] /\ \A q \in Procs \ {p} : held'[q] = held[q]
      /\ (place \in Holding /\ held'[p] = b) \/ (place \notin Holding /\ how # "" /\ held'[p] = None)
  BY NoneApart DEF C!Holds, BoxesInv, BoxesTyped, HoldsOwn, Holding
<1>8. BoxesTyped'
  BY <1>1, <1>2, <1>3, <1>5, <1>7 DEF BoxesInv, BoxesTyped
<1>9. Decided'
  BY <1>2, <1>6 DEF BoxesInv, Decided, C!Up, Holding
<1>10. HoldsOwn'
  <2> SUFFICES ASSUME NEW q \in Procs
               PROVE  (held'[q] # None <=> at'[q] \in Holding) /\ (held'[q] # None => by'[held'[q]] = q)
    BY DEF HoldsOwn
  <2>1. CASE q = p
    BY <1>2, <1>3, <1>7, <2>1, NoneApart
  <2>2. CASE q # p
    <3>1. held'[q] = held[q] /\ at'[q] = at[q] /\ held[q] \in Boxes \cup {None}
      BY <1>2, <1>7, <2>2 DEF BoxesInv, BoxesTyped
    <3>2. (held[q] # None <=> at[q] \in Holding) /\ (held[q] # None => by[held[q]] = q /\ q # None)
      BY NoneApart DEF BoxesInv, HoldsOwn
    <3>3. QED
      BY <1>1, <1>3, <3>1, <3>2
  <2>3. QED
    BY <2>1, <2>2
<1>11. ListedMade'
  <2> SUFFICES ASSUME NEW q \in Procs, NEW c \in listed[q]
               PROVE  by'[c] # None /\ (box'[c].on # None => box'[c].owner # None)
    BY DEF ListedMade
  <2>1. c \in Boxes /\ by[c] # None /\ (box[c].on # None => box[c].owner # None)
    BY DEF BoxesInv, BoxesTyped, ListedMade
  <2>2. QED
    BY <1>1, <1>3, <1>5, <2>1
<1>12. PidsApart'
  BY <1>2 DEF BoxesInv, PidsApart, C!Up
<1>13. ASSUME NEW c \in Boxes PROVE Labelled(c)' /\ Known(c)'
  <2>1. CASE c = b
    <3>1. Labelled(c)'
      BY <1>2, <1>3, <1>5, <2>1, NoneApart DEF Labelled
    <3>2. Known(c)'
      BY <1>2, <1>3, <1>5, <1>7, <2>1, NoneApart DEF Known, C!InUse, C!Up, Holding
    <3>3. QED
      BY <3>1, <3>2
  <2>2. CASE c # b
    <3>1. Labelled(c) /\ Known(c) /\ by'[c] = by[c] /\ box'[c] = box[c] /\ left'[c] = left[c]
      BY <1>3, <1>5, <2>2 DEF BoxesInv
    <3>2. Labelled(c)'
      BY <1>2, <3>1 DEF Labelled, BoxesInv, BoxesTyped
    <3>3. C!InUse(c) => C!InUse(c)'
      <4> SUFFICES ASSUME C!InUse(c) PROVE C!InUse(c)'
        OBVIOUS
      <4>1. PICK q \in Procs : by[c] = q /\ q # None /\ C!Up(q) /\ held[q] = c
        BY DEF C!InUse, BoxesInv, BoxesTyped
      <4>2. q # p
        BY <1>6, <4>1, NoneApart
      <4>3. QED
        BY <1>2, <1>7, <3>1, <4>1, <4>2 DEF C!InUse, C!Up
    <3>4. QED
      BY <3>1, <3>2, <3>3 DEF Known
  <2>3. QED
    BY <2>1, <2>2
<1>14. QED
  BY <1>8, <1>9, <1>10, <1>11, <1>12, <1>13 DEF BoxesInv

LEMMA NoVersionKeeps == ASSUME BoxesInv, NEW p \in Procs, C!NoVersion(p) PROVE BoxesInv'
<1>1. /\ at[p] = "resolve" /\ C!Asked(p) \in C!Runtimes /\ C!Goes(p, "over")
      /\ UNCHANGED <<pid, kind, tried, runtime, listed, held>>
  BY AskedRuntime DEF C!NoVersion
<1>2. CASE UNCHANGED C!boxVars
  BY <1>1, <1>2, QuietKeeps DEF BoxesInv, BoxesTyped, Holding, C!boxVars
<1>3. CASE \E b \in Boxes : C!Makes(p, b, C!Asked(p), None, "version")
  BY <1>1, <1>3, MakesKeeps DEF Losses, Holding
<1>4. QED
  BY <1>2, <1>3 DEF C!NoVersion

LEMMA RunKeeps == ASSUME BoxesInv, NEW p \in Procs, C!Run(p) \/ C!MkdirTemp(p) PROVE BoxesInv'
<1>1. CASE C!Run(p)
  <2>1. PICK b \in Boxes :
          /\ at[p] = "ready" /\ runtime[p] \in C!Runtimes /\ UNCHANGED <<pid, kind, tried, runtime, listed>>
          /\ \/ C!Makes(p, b, runtime[p], pid[p], "") /\ C!Holds(p, b) /\ C!Goes(p, "wait")
             \/ C!Makes(p, b, runtime[p], pid[p], "run") /\ UNCHANGED <<held, at>>
    BY <1>1 DEF C!Run
  <2>2. CASE C!Makes(p, b, runtime[p], pid[p], "") /\ C!Holds(p, b) /\ C!Goes(p, "wait")
    BY <2>1, <2>2, MakesKeeps DEF Losses, Holding
  <2>3. CASE C!Makes(p, b, runtime[p], pid[p], "run") /\ UNCHANGED <<held, at>>
    <3>1. C!Goes(p, "ready")
      BY <2>1, <2>3 DEF C!Goes, BoxesInv, BoxesTyped
    <3>2. QED
      BY <2>1, <2>3, <3>1, MakesKeeps DEF Losses, Holding
  <2>4. QED
    BY <2>1, <2>2, <2>3
<1>2. CASE C!MkdirTemp(p)
  BY <1>2, MakesKeeps DEF C!MkdirTemp, Losses, Holding
<1>3. QED
  BY <1>1, <1>2

\* A browser comes up: its process goes on with what it holds.
LEMMA AnswersKeeps == ASSUME BoxesInv, NEW p \in Procs, C!Answers(p) \/ C!Attached(p) PROVE BoxesInv'
<1>1. UNCHANGED <<pid, kind, tried, runtime, listed, held, box, by, left, taken>>
  BY DEF C!Answers, C!Attached, C!boxVars
<1>2. PICK place \in {"attach", "open"} : at[p] \in {"wait", "attach"} /\ C!Goes(p, place)
  BY DEF C!Answers, C!Attached
<1>3. /\ at' \in [Procs -> Places] /\ at'[p] = place
      /\ \A q \in Procs \ {p} : at'[q] = at[q]
  BY <1>2 DEF C!Goes, BoxesInv, BoxesTyped, Places
<1>4. BoxesTyped' /\ ListedMade'
  BY <1>1, <1>3 DEF BoxesInv, BoxesTyped, ListedMade
<1>5. Decided' /\ HoldsOwn' /\ PidsApart'
  BY <1>1, <1>2, <1>3 DEF BoxesInv, Decided, HoldsOwn, PidsApart, C!Up, Holding
<1>6. ASSUME NEW b \in Boxes PROVE Labelled(b)' /\ Known(b)'
  <2>1. Labelled(b) /\ Known(b)
    BY DEF BoxesInv
  <2>2. Labelled(b)'
    BY <1>1, <1>3, <2>1 DEF Labelled, BoxesInv, BoxesTyped
  <2>3. C!InUse(b) => C!InUse(b)'
    BY <1>1, <1>3 DEF C!InUse, C!Up, BoxesInv, BoxesTyped
  <2>4. QED
    BY <1>1, <2>1, <2>2, <2>3 DEF Known
<1>7. QED
  BY <1>4, <1>5, <1>6 DEF BoxesInv

\* A process lets go of what it holds: the box is gone, or its loss is known.
LEMMA LosesKeeps ==
    ASSUME BoxesInv, NEW p \in Procs, at[p] \in Holding, NEW place \in {"ready", "over"},
           C!Goes(p, place), C!Holds(p, None), NEW how \in Losses \ {""},
           \/ box' = [box EXCEPT ![held[p]] = C!Gone] /\ UNCHANGED left
           \/ left' = [left EXCEPT ![held[p]] = how] /\ UNCHANGED box,
           UNCHANGED <<pid, kind, tried, runtime, listed, by, taken>>
    PROVE  BoxesInv'
<1>1. /\ at' \in [Procs -> Places] /\ at'[p] = place
      /\ \A q \in Procs \ {p} : at'[q] = at[q]
  BY DEF C!Goes, BoxesInv, BoxesTyped, Places
<1>2. /\ held' \in [Procs -> Boxes \cup {None}] /\ held'[p] = None
      /\ \A q \in Procs \ {p} : held'[q] = held[q]
  BY DEF C!Holds, BoxesInv, BoxesTyped
<1>3. PICK b \in Boxes : held[p] = b /\ by[b] = p
  BY DEF BoxesInv, BoxesTyped, HoldsOwn
<1>4. /\ box' \in [Boxes -> BoxType] /\ left' \in [Boxes -> Losses]
      /\ \A c \in Boxes \ {b} : box'[c] = box[c] /\ left'[c] = left[c]
      /\ \/ box'[b] = C!Gone
         \/ box'[b] = box[b] /\ left'[b] # ""
  <2>1. box \in [Boxes -> BoxType] /\ left \in [Boxes -> Losses] /\ how \in Losses /\ how # ""
    BY DEF BoxesInv, BoxesTyped
  <2>2. C!Gone \in BoxType
    BY DEF BoxType, C!Gone
  <2>3. CASE box' = [box EXCEPT ![held[p]] = C!Gone] /\ UNCHANGED left
    BY <1>3, <2>1, <2>2, <2>3
  <2>4. CASE left' = [left EXCEPT ![held[p]] = how] /\ UNCHANGED box
    BY <1>3, <2>1, <2>4
  <2>5. QED
    BY <2>3, <2>4
<1>5. BoxesTyped'
  BY <1>1, <1>2, <1>4 DEF BoxesInv, BoxesTyped
<1>6. Decided' /\ PidsApart'
  BY <1>1 DEF BoxesInv, Decided, PidsApart, C!Up, Holding
<1>7. HoldsOwn'
  <2> SUFFICES ASSUME NEW q \in Procs
               PROVE  (held'[q] # None <=> at'[q] \in Holding) /\ (held'[q] # None => by'[held'[q]] = q)
    BY DEF HoldsOwn
  <2>1. place \notin Holding
    BY DEF Holding
  <2>2. CASE q = p
    BY <1>1, <1>2, <2>1, <2>2
  <2>3. CASE q # p
    BY <1>1, <1>2, <2>3 DEF BoxesInv, HoldsOwn
  <2>4. QED
    BY <2>2, <2>3
<1>8. C!Gone.on = None /\ C!Gone.owner = None
  BY DEF C!Gone
<1>9. ListedMade'
  <2> SUFFICES ASSUME NEW q \in Procs, NEW c \in listed[q]
               PROVE  by[c] # None /\ (box'[c].on # None => box'[c].owner # None)
    BY DEF ListedMade
  <2>1. c \in Boxes /\ by[c] # None /\ (box[c].on # None => box[c].owner # None)
    BY DEF BoxesInv, BoxesTyped, ListedMade
  <2>2. QED
    BY <1>4, <1>8, <2>1
<1>10. ASSUME NEW c \in Boxes PROVE Labelled(c)' /\ Known(c)'
  <2>1. Labelled(c) /\ Known(c) /\ by[c] \in Procs \cup {None}
    BY DEF BoxesInv, BoxesTyped
  <2>2. Labelled(c)'
    BY <1>1, <1>4, <1>8, <2>1 DEF Labelled
  <2>3. CASE c = b
    BY <1>4, <1>8, <2>2, <2>3 DEF Known
  <2>4. CASE c # b
    <3>1. C!InUse(c) => C!InUse(c)'
      BY <1>1, <1>2, <1>3, <2>1, <2>4 DEF C!InUse, C!Up
    <3>2. QED
      BY <1>4, <2>1, <2>2, <2>4, <3>1 DEF Known
  <2>5. QED
    BY <2>3, <2>4
<1>11. QED
  BY <1>5, <1>6, <1>7, <1>9, <1>10 DEF BoxesInv

LEMMA ClosesKeeps ==
    ASSUME BoxesInv, NEW p \in Procs, C!Unanswered(p) \/ C!AttachFails(p) \/ C!Close(p)
    PROVE  BoxesInv'
<1>1. /\ at[p] \in Holding /\ C!Goes(p, "ready") /\ C!Holds(p, None)
      /\ UNCHANGED <<pid, kind, tried, runtime, listed, by, taken>>
  BY DEF C!Unanswered, C!AttachFails, C!Close, Holding
<1>2. \/ box' = [box EXCEPT ![held[p]] = C!Gone] /\ UNCHANGED left
      \/ \E how \in {"remove", "attach"} : left' = [left EXCEPT ![held[p]] = how] /\ UNCHANGED box
  BY DEF C!Unanswered, C!AttachFails, C!Close, C!Remove
<1>3. CASE box' = [box EXCEPT ![held[p]] = C!Gone] /\ UNCHANGED left
  <2>1. "remove" \in Losses \ {""}
    BY DEF Losses
  <2>2. QED
    BY <1>1, <1>3, <2>1, LosesKeeps
<1>4. ASSUME NEW how \in {"remove", "attach"}, left' = [left EXCEPT ![held[p]] = how] /\ UNCHANGED box
      PROVE  BoxesInv'
  <2>1. how \in Losses \ {""}
    BY DEF Losses
  <2>2. QED
    BY <1>1, <1>4, <2>1, LosesKeeps
<1>5. QED
  BY <1>2, <1>3, <1>4

LEMMA CrashKeeps == ASSUME BoxesInv, NEW p \in Procs, C!Crash(p) PROVE BoxesInv'
<1>1. /\ at[p] \notin {"new", "over"} /\ C!Goes(p, "over") /\ C!Holds(p, None)
      /\ left' = IF held[p] = None THEN left ELSE [left EXCEPT ![held[p]] = "crash"]
      /\ UNCHANGED <<pid, kind, tried, runtime, listed, box, by, taken>>
  BY DEF C!Crash, C!Up
<1>2. CASE held[p] = None
  <2>1. at[p] \notin Holding \cup {"new"} /\ UNCHANGED <<held, left>>
    BY <1>1, <1>2 DEF BoxesInv, BoxesTyped, HoldsOwn, C!Holds
  <2>2. QED
    BY <1>1, <2>1, QuietKeeps DEF BoxesInv, BoxesTyped
<1>3. CASE held[p] # None
  <2>1. at[p] \in Holding /\ "crash" \in Losses \ {""}
    BY <1>3 DEF BoxesInv, HoldsOwn, Losses
  <2>2. QED
    BY <1>1, <1>3, <2>1, LosesKeeps
<1>4. QED
  BY <1>2, <1>3

LEMMA BoxesRest == ASSUME BoxesInv, UNCHANGED C!vars PROVE BoxesInv'
<1>1. UNCHANGED <<pid, at, kind, tried, runtime, listed, held, box, by, left, taken>>
  BY DEF C!vars, C!procVars, C!boxVars
<1>2. QED
  BY <1>1 DEF BoxesInv, BoxesTyped, Decided, HoldsOwn, ListedMade, PidsApart, Labelled, Known, C!InUse, C!Up

LEMMA BoxesStep == ASSUME BoxesInv, [C!Next]_C!vars PROVE BoxesInv'
<1>1. ASSUME NEW p \in Procs, C!Step(p) PROVE BoxesInv'
  BY <1>1, StartKeeps, PassOverKeeps, NoVersionKeeps, UseContainerKeeps, ResolveLocalKeeps, ListKeeps,
     ReapKeeps, QuietEnds, RunKeeps, AnswersKeeps, ClosesKeeps, CrashKeeps
     DEF C!Step
<1>2. QED
  BY <1>1, EndsKeeps, BoxesRest DEF C!Next

LEMMA BoxesStart == C!Init => BoxesInv
<1> SUFFICES ASSUME C!Init PROVE BoxesInv
  OBVIOUS
<1>1. /\ pid = [p \in Procs |-> None] /\ at = [p \in Procs |-> "new"] /\ kind = [p \in Procs |-> None]
      /\ tried = [p \in Procs |-> 0] /\ runtime = [p \in Procs |-> None]
      /\ listed = [p \in Procs |-> {}] /\ held = [p \in Procs |-> None] /\ taken = {}
      /\ box = [b \in Boxes |-> C!Gone] /\ by = [b \in Boxes |-> None] /\ left = [b \in Boxes |-> ""]
  BY DEF C!Init
<1>2. C!Gone \in BoxType /\ C!Gone.on = None /\ C!Gone.owner = None
  BY DEF C!Gone, BoxType
<1>3. BoxesTyped
  <2>1. "new" \in Places /\ "" \in Losses /\ 0 \in 0..2
    BY DEF Places, Losses
  <2>2. pid \in [Procs -> Pids \cup {None}] /\ at \in [Procs -> Places] /\ kind \in [Procs -> C!Kinds \cup {None}]
    BY <1>1, <2>1
  <2>3. tried \in [Procs -> 0..2] /\ runtime \in [Procs -> C!Runtimes \cup {"local", None}]
    BY <1>1, <2>1
  <2>4. listed \in [Procs -> SUBSET Boxes] /\ held \in [Procs -> Boxes \cup {None}] /\ taken = {}
    BY <1>1
  <2>5. box \in [Boxes -> BoxType] /\ by \in [Boxes -> Procs \cup {None}] /\ left \in [Boxes -> Losses]
    BY <1>1, <1>2, <2>1
  <2>6. QED
    BY <2>2, <2>3, <2>4, <2>5 DEF BoxesTyped
<1>4. Decided /\ HoldsOwn /\ ListedMade /\ PidsApart
  BY <1>1 DEF Decided, HoldsOwn, ListedMade, PidsApart, C!Up, Holding
<1>5. ASSUME NEW b \in Boxes PROVE Labelled(b) /\ Known(b)
  BY <1>1, <1>2 DEF Labelled, Known
<1>6. QED
  BY <1>3, <1>4, <1>5 DEF BoxesInv

LEMMA BoxesPromise == BoxesInv => C!TypeOK /\ C!OnlyOrphansAreReaped /\ C!EveryBoxIsAccounted
<1> SUFFICES ASSUME BoxesInv PROVE C!TypeOK /\ C!OnlyOrphansAreReaped /\ C!EveryBoxIsAccounted
  OBVIOUS
<1>1. C!TypeOK
  <2>1. Len(C!AutoOrder) = 2
    BY DEF C!AutoOrder
  <2>2. QED
    BY <2>1 DEF C!TypeOK, BoxesInv, BoxesTyped, BoxType, Places, Losses
<1>2. QED
  BY <1>1 DEF BoxesInv, BoxesTyped, Known, C!OnlyOrphansAreReaped, C!EveryBoxIsAccounted, C!There

-----------------------------------------------------------------------------
(* Reload: a configuration file and the certificate it names.                 *)

ReloadPlaces == {"idle", "load", "check", "key", "adopt", "schedule", "certificate", "attempt"}
Digests == R!Pairs \cup {R!Missing(p) : p \in Paths}
CertState == [path : Paths, served : Certs, tried : Digests, failure : BOOLEAN, escalated : BOOLEAN]
ReloadTyped ==
    /\ file \in Files /\ start \in Files /\ next \in Files /\ seen \in Certs \cup {None}
    /\ disk \in [Paths -> R!Pairs] /\ now \in 0..Horizon /\ hup \in BOOLEAN /\ pc \in ReloadPlaces
    /\ app \in R!Targets /\ daemon \in R!Targets /\ certPaths \in Paths
    /\ cert \in CertState /\ reading \in [who : {None, "watch", "reload"}, cert : Certs \cup {None}]

\* What is in force and what the reload is about to put in force.
InForce ==
    /\ app = IF pc = "schedule" THEN next.targets ELSE daemon
    /\ pc # "certificate" => cert.path = certPaths
    /\ pc \in {"check", "key", "adopt", "schedule"} => next.sound /\ next.fixed = start.fixed
    /\ reading.who = "reload" => pc = "attempt"
ReloadInv == ReloadTyped /\ InForce

LEMMA TargetsOf == \A f \in Files : f.targets \in R!Targets
BY DEF R!Targets

LEMMA OthersKeep == ASSUME ReloadInv, R!Others PROVE ReloadInv' /\ cert' = cert
<1>1. /\ UNCHANGED <<pc, next, seen, start, app, daemon, certPaths, cert, reading>>
      /\ file' \in Files /\ hup' \in BOOLEAN
  BY DEF R!Others, R!EditConfig, R!WriteFile, R!Tick, R!Signal, R!configVars, ReloadInv, ReloadTyped
<1>2. now' \in 0..Horizon
  BY DeskAssumption DEF R!ReloadAssumption, R!Others, R!EditConfig, R!WriteFile, R!Tick, R!Signal, ReloadInv, ReloadTyped
<1>3. disk' \in [Paths -> R!Pairs]
  <2>1. CASE R!WriteFile
    <3>1. PICK p \in Paths, c \in Certs \cup {None}, half \in {"cert", "key"} :
            disk' = [disk EXCEPT ![p][half] = c]
      BY <2>1 DEF R!WriteFile
    <3>2. disk \in [Paths -> R!Pairs] /\ disk[p] \in R!Pairs
      BY DEF ReloadInv, ReloadTyped
    <3>3. [disk[p] EXCEPT ![half] = c] \in R!Pairs
      BY <3>2 DEF R!Pairs
    <3>4. QED
      BY <3>1, <3>2, <3>3
  <2>2. CASE ~R!WriteFile
    BY <2>2 DEF R!Others, R!EditConfig, R!Tick, R!Signal, ReloadInv, ReloadTyped
  <2>3. QED
    BY <2>1, <2>2
<1>4. QED
  BY <1>1, <1>2, <1>3 DEF ReloadInv, ReloadTyped, InForce

\* The reload up to the certificate leaves the certificate's reloader alone.
LEMMA SuperviseKeeps ==
    ASSUME ReloadInv,
           \/ R!Hup \/ R!Load \/ R!CheckTLSFiles \/ R!ResolveTargets \/ R!AdoptApp \/ R!AdoptDaemon
    PROVE  ReloadInv' /\ cert' = cert
<1>1. UNCHANGED <<file, disk, now, start, cert, reading>>
  BY DEF R!Hup, R!Load, R!CheckTLSFiles, R!ResolveTargets, R!AdoptApp, R!AdoptDaemon, R!Rest
<1>2. CASE R!Hup
  BY <1>1, <1>2 DEF R!Hup, R!Goes, ReloadInv, ReloadTyped, InForce, ReloadPlaces
<1>3. CASE R!Load
  <2>1. /\ pc = "load" /\ UNCHANGED <<hup, seen, app, daemon, certPaths>>
        /\ \/ /\ next' = file /\ pc' = "check" /\ file.sound /\ file.fixed = start.fixed
           \/ next' = next /\ pc' = "certificate"
    BY <1>3 DEF R!Load, R!Goes, R!Loads, R!NonReloadableChanges
  <2>2. QED
    BY <1>1, <2>1 DEF ReloadInv, ReloadTyped, InForce, ReloadPlaces
<1>4. CASE R!CheckTLSFiles
  <2>1. /\ pc = "check" /\ seen' = disk[next.path].cert /\ pc' = "key"
        /\ UNCHANGED <<hup, next, app, daemon, certPaths>>
    BY <1>4 DEF R!CheckTLSFiles, R!Goes
  <2>2. next.path \in Paths
    BY DeskAssumption DEF R!ReloadAssumption, ReloadInv, ReloadTyped
  <2>3. disk[next.path].cert \in Certs \cup {None}
    BY <2>2 DEF ReloadInv, ReloadTyped, R!Pairs
  <2>4. QED
    BY <1>1, <2>1, <2>3 DEF ReloadInv, ReloadTyped, InForce, ReloadPlaces
<1>5. CASE R!ResolveTargets
  <2>1. /\ pc = "key" /\ seen' = None /\ pc' \in {"adopt", "certificate"}
        /\ UNCHANGED <<hup, next, app, daemon, certPaths>>
    BY <1>5 DEF R!ResolveTargets, R!Goes
  <2>2. QED
    BY <1>1, <2>1 DEF ReloadInv, ReloadTyped, InForce, ReloadPlaces
<1>6. CASE R!AdoptApp
  BY <1>1, <1>6, TargetsOf DEF R!AdoptApp, R!Goes, ReloadInv, ReloadTyped, InForce, ReloadPlaces
<1>7. CASE R!AdoptDaemon
  <2>1. next.path \in Paths
    BY DeskAssumption DEF R!ReloadAssumption, ReloadInv, ReloadTyped
  <2>2. QED
    BY <1>1, <1>7, <2>1, TargetsOf DEF R!AdoptDaemon, R!Goes, ReloadInv, ReloadTyped, InForce, ReloadPlaces
<1>8. QED
  BY <1>2, <1>3, <1>4, <1>5, <1>6, <1>7

LEMMA OpensTyped ==
    ASSUME ReloadInv, NEW path \in Paths, NEW who \in {"watch", "reload"}, R!Opens(who, path)
    PROVE  reading' \in [who : {None, "watch", "reload"}, cert : Certs \cup {None}] /\ reading'.who = who
BY DEF R!Opens, ReloadInv, ReloadTyped, R!Pairs

LEMMA CheckKeeps == ASSUME ReloadInv, R!Check PROVE ReloadInv' /\ cert' = cert
<1>1. /\ UNCHANGED <<file, disk, now, hup, pc, next, seen, start, app, daemon, certPaths, cert>>
      /\ R!Opens("watch", cert.path) /\ cert.path \in Paths
  BY DEF R!Check, R!configVars, ReloadInv, ReloadTyped, CertState
<1>2. reading' \in [who : {None, "watch", "reload"}, cert : Certs \cup {None}] /\ reading'.who = "watch"
  BY <1>1, OpensTyped
<1>3. QED
  BY <1>1, <1>2 DEF ReloadInv, ReloadTyped, InForce

LEMMA ReloadCertificateKeeps ==
    ASSUME ReloadInv, R!ReloadCertificate PROVE ReloadInv' /\ cert'.served = cert.served
<1>1. /\ UNCHANGED <<file, disk, now, hup, next, seen, start, app, daemon, certPaths>>
      /\ R!Opens("reload", certPaths) /\ pc = "certificate" /\ pc' = "attempt"
      /\ cert' = [cert EXCEPT !.path = certPaths]
  BY DEF R!ReloadCertificate, R!Goes
<1>2. certPaths \in Paths /\ cert \in CertState
  BY DEF ReloadInv, ReloadTyped
<1>3. cert' \in CertState /\ cert'.path = certPaths /\ cert'.served = cert.served
  BY <1>1, <1>2 DEF CertState
<1>4. reading' \in [who : {None, "watch", "reload"}, cert : Certs \cup {None}] /\ reading'.who = "reload"
  BY <1>1, <1>2, OpensTyped
<1>5. QED
  BY <1>1, <1>3, <1>4 DEF ReloadInv, ReloadTyped, InForce, ReloadPlaces

\* An attempt serves what it served, or a pair that matches and has not expired.
LEMMA TriedServes ==
    ASSUME ReloadInv, NEW c \in Certs \cup {None}, NEW k \in Certs \cup {None}, NEW forced \in BOOLEAN
    PROVE  /\ R!Tried(c, k, forced) \in CertState
           /\ R!Tried(c, k, forced).path = cert.path
           /\ \/ R!Tried(c, k, forced).served = cert.served
              \/ R!Tried(c, k, forced).served = c /\ R!Usable(c, k)
<1>1. cert \in CertState /\ cert.path \in Paths
  BY DEF ReloadInv, ReloadTyped, CertState
<1>2. R!Digest(c, k, cert.path) \in Digests
  BY <1>1 DEF R!Digest, Digests, R!Pairs
<1>3. \A d \in Certs : R!NearExpiry(d) \in BOOLEAN
  BY DEF R!NearExpiry
<1>4. cert.served \in Certs /\ R!NearExpiry(cert.served) \in BOOLEAN
  BY <1>1, <1>3 DEF CertState
<1>5. CASE c = cert.served /\ k = cert.served
  BY <1>1, <1>2, <1>5 DEF R!Tried, CertState
<1>6. CASE ~(c = cert.served /\ k = cert.served)
  <2>1. CASE ~forced /\ R!Digest(c, k, cert.path) = cert.tried
    <3>1. R!Tried(c, k, forced) = R!Escalate
      BY <1>6, <2>1 DEF R!Tried
    <3>2. (cert.escalated \/ (cert.failure /\ R!NearExpiry(cert.served))) \in BOOLEAN
      BY <1>1, <1>4 DEF CertState
    <3>3. QED
      BY <1>1, <3>1, <3>2 DEF R!Escalate, CertState
  <2>2. CASE ~(~forced /\ R!Digest(c, k, cert.path) = cert.tried)
    <3>1. CASE R!Usable(c, k)
      <4>1. c \in Certs
        BY <3>1 DEF R!Usable
      <4>2. R!Tried(c, k, forced) = [cert EXCEPT !.tried = R!Digest(c, k, cert.path), !.served = c,
                                                  !.failure = FALSE, !.escalated = FALSE]
        BY <1>6, <2>2, <3>1 DEF R!Tried
      <4>3. QED
        BY <1>1, <1>2, <3>1, <4>1, <4>2 DEF CertState
    <3>2. CASE ~R!Usable(c, k)
      <4>1. R!Tried(c, k, forced) = [cert EXCEPT !.tried = R!Digest(c, k, cert.path), !.failure = TRUE,
                                                  !.escalated = R!NearExpiry(cert.served)]
        BY <1>6, <2>2, <3>2 DEF R!Tried
      <4>2. QED
        BY <1>1, <1>2, <1>4, <4>1 DEF CertState
    <3>3. QED
      BY <3>1, <3>2
  <2>3. QED
    BY <2>1, <2>2
<1>7. QED
  BY <1>5, <1>6

LEMMA AttemptKeeps == ASSUME ReloadInv, R!Attempt PROVE ReloadInv' /\ R!TakesTheSound
<1>1. /\ UNCHANGED <<file, disk, now, hup, next, seen, start, app, daemon, certPaths>>
      /\ reading' = R!Nobody /\ pc' = IF reading.who = "reload" THEN "idle" ELSE pc
      /\ cert' = R!Tried(reading.cert, disk[cert.path].key, reading.who = "reload")
  BY DEF R!Attempt
<1>2. /\ cert.path \in Paths /\ disk[cert.path].key \in Certs \cup {None} /\ reading.cert \in Certs \cup {None}
      /\ (reading.who = "reload") \in BOOLEAN
  BY DEF ReloadInv, ReloadTyped, CertState, R!Pairs
<1>3. /\ cert' \in CertState /\ cert'.path = cert.path
      /\ \/ cert'.served = cert.served
         \/ cert'.served = reading.cert /\ R!Usable(reading.cert, disk[cert.path].key)
  BY <1>1, <1>2, TriedServes
<1>4. reading' \in [who : {None, "watch", "reload"}, cert : Certs \cup {None}] /\ reading'.who # "reload"
  BY <1>1, DeskAssumption DEF R!Nobody, R!ReloadAssumption
<1>5. ReloadTyped'
  BY <1>1, <1>3, <1>4 DEF ReloadInv, ReloadTyped, ReloadPlaces
<1>6. InForce'
  BY <1>1, <1>3, <1>4 DEF ReloadInv, ReloadTyped, InForce
<1>7. R!TakesTheSound
  BY <1>3 DEF R!TakesTheSound, R!Usable
<1>8. QED
  BY <1>5, <1>6, <1>7 DEF ReloadInv

LEMMA ReloadStep == ASSUME ReloadInv, [R!Next]_R!vars PROVE ReloadInv' /\ R!TakesTheSound
<1>1. CASE R!Others
  BY <1>1, OthersKeep DEF R!TakesTheSound
<1>2. CASE R!Supervise
  BY <1>2, SuperviseKeeps, ReloadCertificateKeeps DEF R!Supervise, R!TakesTheSound
<1>3. CASE R!Check
  BY <1>3, CheckKeeps DEF R!TakesTheSound
<1>4. CASE R!Attempt
  BY <1>4, AttemptKeeps
<1>5. CASE UNCHANGED R!vars
  BY <1>5 DEF R!vars, ReloadInv, ReloadTyped, InForce, R!TakesTheSound
<1>6. QED
  BY <1>1, <1>2, <1>3, <1>4, <1>5 DEF R!Next

LEMMA ReloadStart == R!Init => ReloadInv
<1> SUFFICES ASSUME R!Init PROVE ReloadInv
  OBVIOUS
<1>1. /\ file \in Files /\ start = file /\ next = file /\ seen = None /\ now = 0 /\ hup = FALSE /\ pc = "idle"
      /\ app = file.targets /\ daemon = file.targets /\ certPaths = file.path /\ reading = R!Nobody
  BY DEF R!Init
<1>2. PICK c \in Certs :
        /\ disk = [p \in Paths |-> IF p = file.path THEN R!Whole(c) ELSE [cert |-> None, key |-> None]]
        /\ cert = [path |-> file.path, served |-> c, tried |-> R!Whole(c), failure |-> FALSE, escalated |-> FALSE]
  BY DEF R!Init
<1>3. file.path \in Paths /\ Horizon \in Nat /\ None # "reload"
  BY <1>1, DeskAssumption DEF R!ReloadAssumption
<1>4. R!Whole(c) \in R!Pairs /\ [cert |-> None, key |-> None] \in R!Pairs
  BY DEF R!Whole, R!Pairs
<1>5. disk \in [Paths -> R!Pairs]
  BY <1>2, <1>4
<1>6. cert \in CertState
  BY <1>2, <1>3, <1>4 DEF CertState, Digests
<1>7. ReloadTyped
  <2>1. reading \in [who : {None, "watch", "reload"}, cert : Certs \cup {None}]
    BY <1>1 DEF R!Nobody
  <2>2. now \in 0..Horizon
    BY <1>1, <1>3
  <2>5. hup \in BOOLEAN /\ certPaths \in Paths
    BY <1>1, <1>3
  <2>6. pc \in ReloadPlaces
    BY <1>1 DEF ReloadPlaces
  <2>3. app \in R!Targets /\ daemon \in R!Targets
    BY <1>1, TargetsOf
  <2>4. QED
    BY <1>1, <1>5, <1>6, <2>1, <2>2, <2>3, <2>5, <2>6 DEF ReloadTyped
<1>8. InForce
  BY <1>1, <1>2, <1>3 DEF InForce, R!Nobody
<1>9. QED
  BY <1>7, <1>8 DEF ReloadInv

LEMMA ReloadPromise == ReloadInv => R!TypeOK /\ R!AdoptedWhole
<1> SUFFICES ASSUME ReloadInv PROVE R!TypeOK /\ R!AdoptedWhole
  OBVIOUS
<1>1. R!TypeOK
  BY DEF R!TypeOK, ReloadInv, ReloadTyped, ReloadPlaces, CertState, Digests
<1>2. R!AdoptedWhole
  BY DEF R!AdoptedWhole, ReloadInv, InForce
<1>3. QED
  BY <1>1, <1>2

-----------------------------------------------------------------------------
(* Shares: links, the requests that come through them, and signed URLs.       *)

RequestType == [at : {"idle", "allowed", "signing"}, link : SUBSET S!Link, ref : SUBSET Refs,
                ttl : 0..SignedTtl, since : 0..MaxClock]
SharesTyped ==
    /\ now \in 0..MaxClock /\ stored \subseteq Scans /\ written \in Keys /\ inUse \in Keys
    /\ rotated \in [Keys -> 0..S!NotYet] /\ swapped \in [Keys -> 0..S!NotYet] /\ noSigning \in BOOLEAN
    /\ links \subseteq S!Link /\ request \in [Readers -> RequestType]
    /\ \A r \in Readers : request[r].link \subseteq links
    /\ signed \subseteq [ref : Refs, exp : Nat, link : links]
    /\ reads \subseteq [link : links, what : Scans \cup Refs, beside : SUBSET Scans, at : 0..MaxClock]

\* The configuration leaves a key for good, and the daemon only after it.
KeysMoveOn ==
    /\ rotated[written] = S!NotYet
    /\ inUse # written => rotated[inUse] # S!NotYet
    /\ \A k \in Keys : swapped[k] # S!NotYet => rotated[k] # S!NotYet /\ k # inUse

\* A request under way has shown a link that was good when it did.
Serving(r, l, a) ==
    /\ request[r].link = {l} /\ request[r].ref = {a} /\ a \in Names[l.scan] /\ l.key = inUse
    /\ request[r].since <= now /\ now <= request[r].since + SignLimit /\ request[r].since < l.exp
    /\ request[r].at = "signing" => request[r].since + request[r].ttl <= l.exp
RequestsAreServed ==
    \A r \in Readers : request[r].at # "idle" => \E l \in links, a \in Refs : Serving(r, l, a)

\* A signed URL and a read stay within their link, and within the time of its key.
InTime(u) ==
    /\ u.ref \in Names[u.link.scan] /\ u.exp <= u.link.exp + SignLimit
    /\ u.exp <= swapped[u.link.key] + SignedTtl /\ u.exp <= now + SignedTtl
\* What is shown beside what is read: nothing, or on the page what changed against one scan.
Shown(l, what, beside) ==
    beside # {} => what = l.scan /\ beside \subseteq SeriesOf[l.scan] /\ \A b, c \in beside : b = c
ReadInTime(x) ==
    /\ x.what \in {x.link.scan} \cup Names[x.link.scan] /\ Shown(x.link, x.what, x.beside) /\ x.at < x.link.exp + SignLimit
    /\ x.at < swapped[x.link.key] + SignedTtl /\ x.at <= now
SharesInv ==
    /\ SharesTyped /\ KeysMoveOn /\ RequestsAreServed
    /\ \A u \in signed : InTime(u)
    /\ \A x \in reads : ReadInTime(x)

LEMMA SharesConstants ==
    /\ Names \in [Scans -> SUBSET Refs] /\ SeriesOf \in [Scans -> SUBSET Scans] /\ Validity \subseteq Nat
    /\ DefaultValidity \in Nat /\ MaxValidity \in Nat /\ DefaultValidity <= MaxValidity
    /\ SignedTtl \in Nat /\ SignedTtl > 0 /\ SignLimit \in Nat /\ MaxClock \in Nat /\ NoKey \notin Keys
    /\ S!NotYet = MaxClock + 1
BY DeskAssumption DEF S!SharesAssumption, S!NotYet

LEMMA LinkFields ==
    ASSUME NEW l \in S!Link
    PROVE  l.key \in Keys /\ l.scan \in Scans /\ l.exp \in Nat /\ l.exp <= MaxClock + MaxValidity
BY SharesConstants DEF S!Link

LEMMA RequestFields ==
    ASSUME NEW q \in RequestType
    PROVE  /\ q.at \in {"idle", "allowed", "signing"} /\ q.link \subseteq S!Link /\ q.ref \subseteq Refs
           /\ q.ttl \in 0..SignedTtl /\ q.since \in 0..MaxClock
BY DEF RequestType

LEMMA IdleType == S!Idle \in RequestType /\ S!Idle.at = "idle" /\ S!Idle.link = {}
BY SharesConstants DEF S!Idle, RequestType

\* The link and the artifact of a request are what it was let in with.
LEMMA ServedLink ==
    ASSUME SharesInv, NEW r \in Readers, request[r].at # "idle"
    PROVE  /\ S!LinkOf(r) \in links /\ S!RefOf(r) \in Refs /\ S!LinkOf(r) \in S!Link
           /\ Serving(r, S!LinkOf(r), S!RefOf(r))
<1>1. PICK l \in links, a \in Refs : Serving(r, l, a)
  BY DEF SharesInv, RequestsAreServed
<1>2. S!LinkOf(r) = l
  BY <1>1 DEF S!LinkOf, Serving
<1>3. S!RefOf(r) = a
  BY <1>1 DEF S!RefOf, Serving
<1>4. QED
  BY <1>1, <1>2, <1>3 DEF SharesInv, SharesTyped

-----------------------------------------------------------------------------
(* What a step leaves alone stays in time.                                   *)

\* No step but the clock's and the keys': what is signed and read stays in time.
LEMMA StaysInTime ==
    ASSUME SharesInv, UNCHANGED <<now, written, inUse, rotated, swapped>>
    PROVE  /\ KeysMoveOn'
           /\ \A u \in signed : InTime(u)'
           /\ \A x \in reads : ReadInTime(x)'
<1>1. KeysMoveOn'
  BY DEF SharesInv, KeysMoveOn
<1>2. ASSUME NEW u \in signed PROVE InTime(u)'
  BY DEF SharesInv, InTime
<1>3. ASSUME NEW x \in reads PROVE ReadInTime(x)'
  BY DEF SharesInv, ReadInTime
<1>4. QED
  BY <1>1, <1>2, <1>3

\* Something is read through a link, by a request that may end with it.
LEMMA ReadKeeps ==
    ASSUME SharesInv, NEW l \in links, NEW what \in {l.scan} \cup Names[l.scan], NEW beside \in SUBSET Scans,
           S!Reads(l, what, beside), Shown(l, what, beside),
           now < l.exp + SignLimit, now < swapped[l.key] + SignedTtl,
           UNCHANGED <<now, stored, written, inUse, rotated, swapped, links, signed>>,
           noSigning' \in BOOLEAN,
           UNCHANGED request \/ \E r \in Readers : request' = [request EXCEPT ![r] = S!Idle]
    PROVE  SharesInv'
<1>1. l \in S!Link /\ l.scan \in Scans /\ what \in Scans \cup Refs
  BY LinkFields, SharesConstants DEF SharesInv, SharesTyped
<1>2. PICK x : x = [link |-> l, what |-> what, beside |-> beside, at |-> now]
  OBVIOUS
<1>3. /\ x.link = l /\ x.what = what /\ x.beside = beside /\ x.at = now /\ reads' = {x}
      /\ x \in [link : links, what : Scans \cup Refs, beside : SUBSET Scans, at : 0..MaxClock]
  BY <1>1, <1>2 DEF SharesInv, SharesTyped, S!Reads
<1>4. ReadInTime(x)'
  BY <1>3, SharesConstants DEF ReadInTime, SharesInv, SharesTyped
<1>5. /\ request' \in [Readers -> RequestType]
      /\ \A q \in Readers : request'[q] = request[q] \/ request'[q] = S!Idle
  BY IdleType DEF SharesInv, SharesTyped
<1>6. \A q \in Readers : request'[q].link \subseteq links
  BY <1>5, IdleType DEF SharesInv, SharesTyped
<1>7. SharesTyped'
  BY <1>3, <1>5, <1>6 DEF SharesInv, SharesTyped
<1>8. RequestsAreServed'
  BY <1>5, IdleType DEF SharesInv, RequestsAreServed, Serving
<1>9. QED
  BY <1>3, <1>4, <1>7, <1>8, StaysInTime DEF SharesInv

\* A request becomes q, and nothing is read.
LEMMA RequestKeeps ==
    ASSUME SharesInv, NEW r \in Readers, NEW q \in RequestType, request' = [request EXCEPT ![r] = q],
           q.link \subseteq links,
           q.at # "idle" => \E l \in links, a \in Refs : Serving(r, l, a)',
           UNCHANGED <<now, stored, written, inUse, rotated, swapped, links, reads, noSigning>>,
           signed' \subseteq [ref : Refs, exp : Nat, link : links], \A u \in signed' : InTime(u)'
    PROVE  SharesInv'
<1>1. /\ request' \in [Readers -> RequestType] /\ request'[r] = q
      /\ \A p \in Readers \ {r} : request'[p] = request[p]
  BY DEF SharesInv, SharesTyped
<1>2. SharesTyped'
  BY <1>1 DEF SharesInv, SharesTyped
<1>3. ASSUME NEW p \in Readers, request'[p].at # "idle" PROVE \E l \in links', a \in Refs : Serving(p, l, a)'
  <2>1. CASE p = r
    BY <1>1, <1>3, <2>1
  <2>2. CASE p # r
    <3>1. request'[p] = request[p]
      BY <1>1, <2>2
    <3>2. QED
      BY <1>3, <3>1 DEF SharesInv, RequestsAreServed, Serving
  <2>3. QED
    BY <2>1, <2>2
<1>4. QED
  BY <1>2, <1>3, StaysInTime DEF SharesInv, RequestsAreServed

-----------------------------------------------------------------------------
(* The steps.                                                                *)

LEMMA MintKeeps == ASSUME SharesInv, NEW key \in Keys, S!Mint(key) PROVE SharesInv'
<1>1. PICK s \in stored, v \in Validity :
        /\ links' = links \cup {[key |-> key, scan |-> s, exp |-> now + S!Lifetime(v)]}
        /\ UNCHANGED <<now, stored, S!keyVars, noSigning, request, signed, reads>>
  BY DEF S!Mint
<1>2. S!Lifetime(v) \in 0..MaxValidity
  BY SharesConstants DEF S!Lifetime
<1>3. [key |-> key, scan |-> s, exp |-> now + S!Lifetime(v)] \in S!Link
  BY <1>2, SharesConstants DEF S!Link, SharesInv, SharesTyped
<1>4. links \subseteq links' /\ links' \subseteq S!Link
  BY <1>1, <1>3 DEF SharesInv, SharesTyped
<1>5. SharesTyped'
  BY <1>1, <1>4 DEF SharesInv, SharesTyped, S!keyVars
<1>6. RequestsAreServed'
  BY <1>1, <1>4 DEF SharesInv, RequestsAreServed, Serving, S!keyVars
<1>7. QED
  BY <1>1, <1>5, <1>6, StaysInTime DEF SharesInv, S!keyVars

LEMMA RotateKeeps == ASSUME SharesInv, S!RotateKey PROVE SharesInv'
<1>1. PICK k \in Keys :
        /\ k # written /\ rotated[k] = S!NotYet /\ written' = k /\ rotated' = [rotated EXCEPT ![written] = now]
        /\ UNCHANGED <<now, stored, inUse, swapped, noSigning, links, request, signed, reads>>
  BY DEF S!RotateKey
<1>2. now \in 0..S!NotYet /\ now # S!NotYet /\ written \in Keys
  BY SharesConstants DEF SharesInv, SharesTyped
<1>3. /\ rotated' \in [Keys -> 0..S!NotYet] /\ rotated'[written] # S!NotYet
      /\ \A j \in Keys \ {written} : rotated'[j] = rotated[j]
  BY <1>1, <1>2 DEF SharesInv, SharesTyped
<1>4. SharesTyped'
  BY <1>1, <1>3 DEF SharesInv, SharesTyped
<1>5. KeysMoveOn'
  BY <1>1, <1>3 DEF SharesInv, SharesTyped, KeysMoveOn
<1>6. RequestsAreServed'
  BY <1>1 DEF SharesInv, RequestsAreServed, Serving
<1>7. (\A u \in signed' : InTime(u)') /\ \A x \in reads' : ReadInTime(x)'
  BY <1>1 DEF SharesInv, InTime, ReadInTime
<1>8. QED
  BY <1>4, <1>5, <1>6, <1>7 DEF SharesInv

\* The daemon leaves its key now: what is out by it ends within the time of a signature.
LEMMA RestartKeeps == ASSUME SharesInv, S!Restart PROVE SharesInv'
<1>1. /\ inUse' = written /\ noSigning' = FALSE /\ request' = [r \in Readers |-> S!Idle]
      /\ swapped' = IF inUse = written THEN swapped ELSE [swapped EXCEPT ![inUse] = now]
      /\ UNCHANGED <<now, stored, written, rotated, links, signed, reads>>
  BY DEF S!Restart
<1>2. now \in 0..S!NotYet /\ now # S!NotYet /\ inUse \in Keys /\ written \in Keys
  BY SharesConstants DEF SharesInv, SharesTyped
<1>3. /\ swapped' \in [Keys -> 0..S!NotYet]
      /\ \A k \in Keys : swapped'[k] = swapped[k] \/ (k = inUse /\ inUse # written /\ swapped'[k] = now)
  BY <1>1, <1>2 DEF SharesInv, SharesTyped
<1>4. SharesTyped'
  BY <1>1, <1>3, IdleType DEF SharesInv, SharesTyped
<1>5. KeysMoveOn'
  BY <1>1, <1>2, <1>3 DEF SharesInv, KeysMoveOn
<1>6. RequestsAreServed'
  BY <1>1, IdleType DEF RequestsAreServed
<1>7. ASSUME NEW u \in signed PROVE InTime(u)'
  <2>1. u.link \in S!Link /\ u.link.key \in Keys
    BY LinkFields DEF SharesInv, SharesTyped
  <2>2. QED
    BY <1>1, <1>3, <2>1 DEF SharesInv, InTime
<1>8. ASSUME NEW x \in reads PROVE ReadInTime(x)'
  <2>1. x.link \in S!Link /\ x.link.key \in Keys
    BY LinkFields DEF SharesInv, SharesTyped
  <2>2. x.at \in Nat /\ x.at <= now /\ now \in Nat
    BY SharesConstants DEF SharesInv, SharesTyped, ReadInTime
  <2>3. x.at < swapped'[x.link.key] + SignedTtl
    BY <1>3, <2>1, <2>2, SharesConstants DEF SharesInv, ReadInTime
  <2>4. QED
    BY <1>1, <2>3 DEF SharesInv, ReadInTime
<1>9. QED
  BY <1>1, <1>4, <1>5, <1>6, <1>7, <1>8 DEF SharesInv

LEMMA KeyInUse ==
    ASSUME SharesInv, NEW l \in links, l.key = inUse
    PROVE  swapped[l.key] = S!NotYet /\ now < swapped[l.key] + SignedTtl /\ now \in Nat
BY SharesConstants DEF SharesInv, SharesTyped, KeysMoveOn

LEMMA SharedResultKeeps == ASSUME SharesInv, NEW l \in links, S!SharedResult(l) PROVE SharesInv'
<1>1. PICK beside \in S!ComparisonFor(l.scan) :
        /\ l.key = inUse /\ now < l.exp /\ S!Reads(l, l.scan, beside)
        /\ UNCHANGED <<now, stored, S!keyVars, noSigning, links, request, signed>>
  BY DEF S!SharedResult, S!Opens, S!Verifies, S!Allows
<1>1a. beside \in SUBSET Scans /\ Shown(l, l.scan, beside)
  <2>1. l.scan \in Scans
    BY LinkFields DEF SharesInv, SharesTyped
  <2>2. SeriesOf[l.scan] \subseteq Scans
    BY <2>1, SharesConstants
  <2>3. CASE beside = {}
    BY <2>3 DEF Shown
  <2>4. ASSUME NEW other \in SeriesOf[l.scan], beside = {other} PROVE Shown(l, l.scan, beside)
    BY <2>4 DEF Shown
  <2>5. beside = {} \/ \E other \in SeriesOf[l.scan] : beside = {other}
    BY <1>1 DEF S!ComparisonFor
  <2>6. QED
    BY <2>2, <2>3, <2>4, <2>5
<1>2. l.exp \in Nat /\ now < swapped[l.key] + SignedTtl /\ now \in Nat
  BY <1>1, KeyInUse, LinkFields DEF SharesInv, SharesTyped
<1>3. now < l.exp + SignLimit
  BY <1>1, <1>2, SharesConstants
<1>4. QED
  BY <1>1, <1>1a, <1>2, <1>3, ReadKeeps DEF S!keyVars, SharesInv, SharesTyped

LEMMA SharedArtifactKeeps ==
    ASSUME SharesInv, NEW r \in Readers, NEW l \in links, S!HandleSharedArtifact(r, l)
    PROVE  SharesInv'
<1>1. PICK ref \in Refs :
        /\ l.key = inUse /\ now < l.exp /\ ref \in Names[l.scan]
        /\ request' = [request EXCEPT ![r] =
             [at |-> "allowed", link |-> {l}, ref |-> {ref}, ttl |-> 0, since |-> now]]
        /\ UNCHANGED <<now, stored, S!keyVars, noSigning, links, signed, reads>>
  BY DEF S!HandleSharedArtifact, S!Opens, S!Verifies, S!Allows, S!ResultNamesArtifact
<1> DEFINE q == [at |-> "allowed", link |-> {l}, ref |-> {ref}, ttl |-> 0, since |-> now]
<1>2. q \in RequestType
  BY SharesConstants DEF RequestType, SharesInv, SharesTyped
<1>3. request'[r] = q
  BY <1>1 DEF SharesInv, SharesTyped
<1>4. Serving(r, l, ref)'
  BY <1>1, <1>3, SharesConstants DEF Serving, SharesInv, SharesTyped, S!keyVars
<1>5. (\A u \in signed' : InTime(u)') /\ signed' \subseteq [ref : Refs, exp : Nat, link : links]
  BY <1>1, StaysInTime DEF S!keyVars, SharesInv, SharesTyped
<1>6. q.link \subseteq links /\ UNCHANGED <<written, inUse, rotated, swapped>>
  BY <1>1 DEF S!keyVars
<1> HIDE DEF q
<1>7. request' = [request EXCEPT ![r] = q]
  BY <1>1 DEF q
<1>8. QED
  BY <1>1, <1>2, <1>4, <1>5, <1>6, <1>7, RequestKeeps

\* A request that is served reads what its link names, at latest the wait for the
\* bucket after the link ended.
LEMMA ServedInTime ==
    ASSUME SharesInv, NEW r \in Readers, request[r].at # "idle"
    PROVE  /\ S!LinkOf(r) \in links
           /\ S!RefOf(r) \in {S!LinkOf(r).scan} \cup Names[S!LinkOf(r).scan]
           /\ now < S!LinkOf(r).exp + SignLimit
           /\ now < swapped[S!LinkOf(r).key] + SignedTtl
<1>1. /\ S!LinkOf(r) \in links /\ S!LinkOf(r) \in S!Link
      /\ Serving(r, S!LinkOf(r), S!RefOf(r))
  BY ServedLink
<1>2. S!LinkOf(r).exp \in Nat /\ now \in Nat /\ request[r].since \in Nat
  BY <1>1, LinkFields, RequestFields, SharesConstants DEF SharesInv, SharesTyped
<1>3. now < S!LinkOf(r).exp + SignLimit
  BY <1>1, <1>2, SharesConstants DEF Serving
<1>4. QED
  BY <1>1, <1>3, KeyInUse DEF Serving

LEMMA StreamKeeps == ASSUME SharesInv, NEW r \in Readers, S!Stream(r) \/ S!NotSigned(r) PROVE SharesInv'
<1>1. /\ request[r].at # "idle" /\ S!Reads(S!LinkOf(r), S!RefOf(r), {})
      /\ request' = [request EXCEPT ![r] = S!Idle] /\ noSigning' \in {noSigning, TRUE}
      /\ UNCHANGED <<now, stored, written, inUse, rotated, swapped, links, signed>>
  BY DEF S!Stream, S!NotSigned, S!keyVars
<1>2. noSigning' \in BOOLEAN
  BY <1>1 DEF SharesInv, SharesTyped
<1>3. {} \in SUBSET Scans /\ Shown(S!LinkOf(r), S!RefOf(r), {})
  BY DEF Shown
<1>4. QED
  BY <1>1, <1>2, <1>3, ServedInTime, ReadKeeps

LEMMA MissingKeeps == ASSUME SharesInv, NEW r \in Readers, S!Missing(r) PROVE SharesInv'
<1>1. /\ request' = [request EXCEPT ![r] = S!Idle]
      /\ UNCHANGED <<now, stored, written, inUse, rotated, swapped, links, reads, noSigning, signed>>
  BY DEF S!Missing, S!keyVars
<1>2. (\A u \in signed' : InTime(u)') /\ signed' \subseteq [ref : Refs, exp : Nat, link : links]
  BY <1>1, StaysInTime DEF SharesInv, SharesTyped
<1>3. QED
  BY <1>1, <1>2, IdleType, RequestKeeps

LEMMA AskToSignKeeps == ASSUME SharesInv, NEW r \in Readers, S!AskToSign(r) PROVE SharesInv'
<1>1. /\ request[r].at = "allowed" /\ S!SignedURLLifetime(S!LinkOf(r).exp) > 0
      /\ request' = [request EXCEPT ![r].at = "signing",
                                    ![r].ttl = S!SignedURLLifetime(S!LinkOf(r).exp), ![r].since = now]
      /\ UNCHANGED <<now, stored, written, inUse, rotated, swapped, links, reads, noSigning, signed>>
  BY DEF S!AskToSign, S!keyVars
<1>2. PICK l \in links, a \in Refs : l = S!LinkOf(r) /\ l \in S!Link /\ Serving(r, l, a)
  BY <1>1, ServedLink
<1>3. l.exp \in Nat /\ now \in 0..MaxClock /\ now \in Nat /\ request[r] \in RequestType
  BY <1>2, LinkFields, SharesConstants DEF SharesInv, SharesTyped
<1>4. PICK ttl : ttl = S!SignedURLLifetime(l.exp)
  OBVIOUS
<1>5. ttl \in 0..SignedTtl /\ now + ttl <= l.exp /\ now < l.exp
  BY <1>1, <1>2, <1>3, <1>4, SharesConstants DEF S!SignedURLLifetime
<1>6. PICK q : q = [request[r] EXCEPT !.at = "signing", !.ttl = ttl, !.since = now]
  OBVIOUS
<1>7. /\ q \in RequestType /\ q.link = request[r].link /\ q.ref = request[r].ref
      /\ q.at = "signing" /\ q.ttl = ttl /\ q.since = now
  BY <1>3, <1>5, <1>6 DEF RequestType
<1>8. request' = [request EXCEPT ![r] = q] /\ request'[r] = q
  BY <1>1, <1>2, <1>3, <1>4, <1>6 DEF SharesInv, SharesTyped
<1>9. Serving(r, l, a)'
  <2>1. /\ request'[r].link = {l} /\ request'[r].ref = {a} /\ a \in Names[l.scan] /\ l.key = inUse
        /\ request'[r].since = now /\ request'[r].ttl = ttl /\ now' = now /\ inUse' = inUse
    BY <1>1, <1>2, <1>7, <1>8 DEF Serving
  <2>2. now <= now + SignLimit
    BY <1>3, SharesConstants
  <2>3. now <= now /\ request'[r].since + request'[r].ttl <= l.exp
    BY <1>3, <1>5, <2>1
  <2>4. QED
    BY <1>5, <2>1, <2>2, <2>3 DEF Serving
<1>10. (\A u \in signed' : InTime(u)') /\ signed' \subseteq [ref : Refs, exp : Nat, link : links]
  BY <1>1, StaysInTime DEF SharesInv, SharesTyped
<1>11. q.link \subseteq links
  BY <1>7 DEF SharesInv, SharesTyped
<1>12. QED
  BY <1>1, <1>7, <1>8, <1>9, <1>10, <1>11, RequestKeeps

\* The signature may come late, by the wait for it, and the URL ends as much later.
LEMMA RedirectKeeps == ASSUME SharesInv, NEW r \in Readers, S!RedirectToBucket(r) PROVE SharesInv'
<1>1. /\ request[r].at = "signing" /\ request' = [request EXCEPT ![r] = S!Idle]
      /\ signed' = signed \cup {[ref |-> S!RefOf(r), exp |-> now + request[r].ttl, link |-> S!LinkOf(r)]}
      /\ UNCHANGED <<now, stored, written, inUse, rotated, swapped, links, reads, noSigning>>
  BY DEF S!RedirectToBucket, S!keyVars
<1>2. PICK l \in links, a \in Refs :
        l = S!LinkOf(r) /\ a = S!RefOf(r) /\ l \in S!Link /\ Serving(r, l, a)
  BY <1>1, ServedLink
<1>3. /\ l.exp \in Nat /\ now \in Nat /\ request[r].ttl \in 0..SignedTtl /\ request[r].since \in Nat
      /\ swapped[l.key] = MaxClock + 1 /\ now <= MaxClock
  BY <1>2, KeyInUse, LinkFields, RequestFields, SharesConstants DEF SharesInv, SharesTyped, Serving
<1>4. PICK u : u = [ref |-> a, exp |-> now + request[r].ttl, link |-> l]
  OBVIOUS
<1>5. u.ref = a /\ u.exp = now + request[r].ttl /\ u.link = l /\ u \in [ref : Refs, exp : Nat, link : links]
  BY <1>3, <1>4, SharesConstants
<1>6. InTime(u)'
  BY <1>1, <1>2, <1>3, <1>5, SharesConstants DEF InTime, Serving
<1>7. signed' = signed \cup {u}
  BY <1>1, <1>2, <1>4
<1>8. (\A v \in signed' : InTime(v)') /\ signed' \subseteq [ref : Refs, exp : Nat, link : links]
  BY <1>1, <1>5, <1>6, <1>7, StaysInTime DEF SharesInv, SharesTyped
<1>9. QED
  BY <1>1, <1>8, IdleType, RequestKeeps

LEMMA FetchKeeps == ASSUME SharesInv, S!Fetch PROVE SharesInv'
<1>1. PICK u \in signed :
        /\ now < u.exp /\ S!Reads(u.link, u.ref, {})
        /\ UNCHANGED <<now, stored, written, inUse, rotated, swapped, noSigning, links, request, signed>>
  BY DEF S!Fetch, S!keyVars
<1>2. /\ u.link \in links /\ u.link \in S!Link /\ u.exp \in Nat /\ now \in Nat
      /\ u.link.exp \in Nat /\ u.link.key \in Keys /\ swapped[u.link.key] \in Nat
  BY LinkFields, SharesConstants DEF SharesInv, SharesTyped
<1>3. InTime(u)
  BY DEF SharesInv
<1>4. now < u.link.exp + SignLimit /\ now < swapped[u.link.key] + SignedTtl
  BY <1>1, <1>2, <1>3, SharesConstants DEF InTime
<1>5. u.ref \in Names[u.link.scan] /\ noSigning' \in BOOLEAN
  BY <1>1, <1>3 DEF InTime, SharesInv, SharesTyped
<1>6. {} \in SUBSET Scans /\ Shown(u.link, u.ref, {})
  BY DEF Shown
<1>7. QED
  BY <1>1, <1>2, <1>4, <1>5, <1>6, ReadKeeps

LEMMA PruneKeeps == ASSUME SharesInv, S!Prune PROVE SharesInv'
<1>1. /\ stored' \subseteq stored
      /\ UNCHANGED <<now, written, inUse, rotated, swapped, noSigning, links, request, signed, reads>>
  BY DEF S!Prune, S!keyVars
<1>2. SharesTyped'
  BY <1>1 DEF SharesInv, SharesTyped
<1>3. RequestsAreServed'
  BY <1>1 DEF SharesInv, RequestsAreServed, Serving
<1>4. QED
  BY <1>1, <1>2, <1>3, StaysInTime DEF SharesInv

LEMMA SharesTick == ASSUME SharesInv, S!Tick PROVE SharesInv'
<1>1. /\ now < MaxClock /\ now' = now + 1
      /\ \A r \in Readers : request[r] # S!Idle => now < request[r].since + SignLimit
      /\ UNCHANGED <<stored, written, inUse, rotated, swapped, noSigning, links, request, signed, reads>>
  BY DEF S!Tick, S!keyVars
<1>2. now \in Nat /\ now' \in 0..MaxClock
  BY <1>1, SharesConstants DEF SharesInv, SharesTyped
<1>3. SharesTyped' /\ KeysMoveOn'
  BY <1>1, <1>2 DEF SharesInv, SharesTyped, KeysMoveOn
<1>4. ASSUME NEW r \in Readers, request'[r].at # "idle" PROVE \E l \in links', a \in Refs : Serving(r, l, a)'
  <2>1. request[r].at # "idle" /\ request[r] # S!Idle
    BY <1>1, <1>4, IdleType
  <2>2. PICK l \in links, a \in Refs : Serving(r, l, a)
    BY <2>1 DEF SharesInv, RequestsAreServed
  <2>3. request[r].since \in Nat
    BY RequestFields, SharesConstants DEF SharesInv, SharesTyped
  <2>4. Serving(r, l, a)'
    BY <1>1, <1>2, <2>1, <2>2, <2>3, SharesConstants DEF Serving
  <2>5. QED
    BY <1>1, <2>4
<1>5. ASSUME NEW u \in signed PROVE InTime(u)'
  <2>1. u.exp \in Nat /\ InTime(u)
    BY DEF SharesInv, SharesTyped
  <2>2. QED
    BY <1>1, <1>2, <2>1, SharesConstants DEF InTime
<1>6. ASSUME NEW x \in reads PROVE ReadInTime(x)'
  <2>1. x.at \in Nat /\ ReadInTime(x)
    BY SharesConstants DEF SharesInv, SharesTyped
  <2>2. QED
    BY <1>1, <1>2, <2>1, SharesConstants DEF ReadInTime
<1>7. QED
  BY <1>1, <1>3, <1>4, <1>5, <1>6 DEF SharesInv, RequestsAreServed

LEMMA SharesRest == ASSUME SharesInv, UNCHANGED S!vars PROVE SharesInv'
<1>1. UNCHANGED <<now, stored, written, inUse, rotated, swapped, noSigning, links, request, signed, reads>>
  BY DEF S!vars
<1>2. SharesTyped' /\ RequestsAreServed'
  BY <1>1 DEF SharesInv, SharesTyped, RequestsAreServed, Serving
<1>3. QED
  BY <1>1, <1>2, StaysInTime DEF SharesInv

LEMMA SharesStep == ASSUME SharesInv, [S!Next]_S!vars PROVE SharesInv'
<1>1. CASE S!HandleMintShare \/ S!CmdShare
  BY <1>1, MintKeeps DEF S!HandleMintShare, S!CmdShare, SharesInv, SharesTyped
<1>2. CASE \E l \in links : S!SharedResult(l)
  BY <1>2, SharedResultKeeps
<1>3. ASSUME NEW r \in Readers, S!Serve(r) PROVE SharesInv'
  BY <1>3, SharedArtifactKeeps, StreamKeeps, MissingKeeps, AskToSignKeeps, RedirectKeeps DEF S!Serve
<1>4. QED
  BY <1>1, <1>2, <1>3, RotateKeeps, RestartKeeps, FetchKeeps, PruneKeeps, SharesTick, SharesRest
     DEF S!Next

LEMMA SharesStart == S!Init => SharesInv
<1> SUFFICES ASSUME S!Init PROVE SharesInv
  OBVIOUS
<1>1. S!NotYet \in 0..S!NotYet /\ 0 \in 0..MaxClock
  BY SharesConstants
<1>2. /\ now \in 0..MaxClock /\ rotated \in [Keys -> 0..S!NotYet] /\ swapped \in [Keys -> 0..S!NotYet]
      /\ written \in Keys /\ inUse \in Keys /\ noSigning \in BOOLEAN /\ stored \subseteq Scans
  BY <1>1 DEF S!Init
<1>3. request \in [Readers -> RequestType] /\ \A r \in Readers : request[r].link \subseteq links
  BY IdleType DEF S!Init
<1>4. SharesTyped
  BY <1>2, <1>3 DEF S!Init, SharesTyped
<1>5. KeysMoveOn /\ RequestsAreServed
  BY <1>1, IdleType DEF S!Init, KeysMoveOn, RequestsAreServed
<1>6. QED
  BY <1>4, <1>5 DEF S!Init, SharesInv

LEMMA SharesPromise ==
    SharesInv => S!TypeOK /\ S!LinkOpensOneScan /\ S!AccessEndsWithLink /\ S!RotationWithdraws
<1> SUFFICES ASSUME SharesInv PROVE S!TypeOK /\ S!LinkOpensOneScan /\ S!AccessEndsWithLink /\ S!RotationWithdraws
  OBVIOUS
<1>1. S!TypeOK
  <2>1. \A r \in Readers : /\ request[r].at \in {"idle", "allowed", "signing"} /\ request[r].link \subseteq links
                           /\ request[r].ref \subseteq Refs /\ request[r].ttl \in 0..SignedTtl
    BY RequestFields DEF SharesInv, SharesTyped
  <2>2. QED
    BY <2>1 DEF S!TypeOK, SharesInv, SharesTyped
<1>2. \A x \in reads : ReadInTime(x)
  BY DEF SharesInv
<1>3. S!LinkOpensOneScan
  BY <1>2 DEF ReadInTime, Shown, S!LinkOpensOneScan
<1>4. S!AccessEndsWithLink
  BY <1>2 DEF ReadInTime, S!AccessEndsWithLink
<1>5. S!RotationWithdraws
  BY <1>2 DEF ReadInTime, S!RotationWithdraws
<1>6. QED
  BY <1>1, <1>3, <1>4, <1>5

-----------------------------------------------------------------------------
(* Settings.                                                                  *)

\* What holds of 0, and of a number when it holds of the one before it, holds of them all.
LEMMA Onward ==
    ASSUME NEW X, 0 \in X, \A n \in Nat : n \in X => n + 1 \in X
    PROVE  Nat \subseteq X
<1> DEFINE Bad == {n \in Nat : n \notin X}
<1>1. CASE Bad = {}
  BY <1>1
<1>2. CASE Bad # {}
  <2>1. Bad \subseteq Nat
    OBVIOUS
  <2> HIDE DEF Bad
  <2>2. PICK m \in Bad : \A l \in Bad : m <= l
    BY <1>2, <2>1, Least
  <2>3. m \in Nat /\ m \notin X /\ m # 0
    BY <2>2 DEF Bad
  <2>4. m - 1 \in Nat /\ m - 1 \notin Bad
    BY <2>2, <2>3
  <2>5. m - 1 \in X
    BY <2>4 DEF Bad
  <2>6. (m - 1) + 1 \in X
    BY <2>4, <2>5
  <2>7. QED
    BY <2>3, <2>6
<1>3. QED
  BY <1>1, <1>2

\* A setting of a level is written or has its zero value.
FileLevels == {"target", "defaults", "scheduler"}
Fields == {"cron", "interval", "attempts", "backoff", "cap", "storeBodies", "store", "ratio", "window"}
SettingsInv ==
    /\ DOMAIN file = FileLevels
    /\ \A l \in FileLevels : DOMAIN file[l] = Fields /\ \A s \in Fields : file[l][s] \in {L!Block[s]} \cup L!Values[s]

LEMMA BlockFields == DOMAIN L!Block = Fields
BY DEF L!Block, Fields

LEMMA SettingsStart == L!Init => SettingsInv
<1> SUFFICES ASSUME L!Init PROVE SettingsInv
  OBVIOUS
<1>1. file = [l \in FileLevels |-> L!Block]
  BY DEF L!Init, FileLevels
<1>2. QED
  BY <1>1, BlockFields DEF SettingsInv

LEMMA SettingsStep == ASSUME SettingsInv, [L!Next]_file PROVE SettingsInv'
<1>1. CASE L!Next
  <2>0. PICK level \in DOMAIN file : \E f \in L!Writable(level) : \E w \in L!Values[f] : file' = [file EXCEPT ![level][f] = w]
    BY <1>1 DEF L!Next, L!Write
  <2>a. PICK s \in L!Writable(level) : \E w \in L!Values[s] : file' = [file EXCEPT ![level][s] = w]
    BY <2>0
  <2>1. PICK v \in L!Values[s] : file' = [file EXCEPT ![level][s] = v]
    BY <2>a
  <2>2. level \in FileLevels /\ s \in Fields
    BY <2>1, BlockFields DEF SettingsInv, L!Writable, Fields
  <2>3. DOMAIN file = FileLevels /\ \A l \in FileLevels : DOMAIN file[l] = Fields /\ \A f \in Fields : file[l][f] \in {L!Block[f]} \cup L!Values[f]
    BY DEF SettingsInv
  <2>4. DOMAIN file' = FileLevels
    BY <2>1, <2>3
  <2>5. ASSUME NEW l \in FileLevels
        PROVE  DOMAIN file'[l] = Fields /\ \A f \in Fields : file'[l][f] \in {L!Block[f]} \cup L!Values[f]
    <3>1. CASE l = level
      <4>1. file'[l] = [file[l] EXCEPT ![s] = v]
        BY <2>1, <2>3, <3>1
      <4>2. QED
        BY <2>1, <2>2, <2>3, <4>1
    <3>2. CASE l # level
      BY <2>1, <2>3, <3>2
    <3>3. QED
      BY <3>1, <3>2
  <2>6. QED
    BY <2>4, <2>5 DEF SettingsInv
<1>2. CASE file' = file
  BY <1>2 DEF SettingsInv
<1>3. QED
  BY <1>1, <1>2

\* What may stand at a level.
LEMMA LevelTyped ==
    ASSUME SettingsInv, NEW l \in FileLevels
    PROVE  /\ file[l].cron \in BOOLEAN /\ file[l].interval \in Nat /\ file[l].window \in Nat
           /\ file[l].attempts \in {0} \cup Counts /\ file[l].backoff \in Nat /\ file[l].cap \in {0} \cup Caps
           /\ file[l].ratio \in {-1} \cup Nat
<1>1. \A s \in Fields : file[l][s] \in {L!Block[s]} \cup L!Values[s]
  BY DEF SettingsInv
<1>2. Intervals \subseteq Nat /\ Counts \subseteq Nat /\ Backoffs \subseteq Nat /\ Caps \subseteq Nat /\ Windows \subseteq Nat /\ Ratios \subseteq Nat
  BY DeskAssumption DEF L!SettingsAssumption
<1>3. file[l].cron \in BOOLEAN
  <2>1. file[l]["cron"] \in {L!Block["cron"]} \cup L!Values["cron"]
    BY <1>1 DEF Fields
  <2>2. L!Block["cron"] = FALSE /\ L!Values["cron"] = {TRUE}
    BY DEF L!Block, L!Values
  <2>3. QED
    BY <2>1, <2>2
<1>4. file[l].interval \in {0} \cup Intervals /\ file[l].window \in {0} \cup Windows
  <2>1. file[l]["interval"] \in {L!Block["interval"]} \cup L!Values["interval"] /\ file[l]["window"] \in {L!Block["window"]} \cup L!Values["window"]
    BY <1>1 DEF Fields
  <2>2. QED
    BY <2>1 DEF L!Block, L!Values
<1>5. file[l].attempts \in {0} \cup Counts /\ file[l].backoff \in {0} \cup Backoffs /\ file[l].cap \in {0} \cup Caps
  <2>1. file[l]["attempts"] \in {L!Block["attempts"]} \cup L!Values["attempts"] /\ file[l]["backoff"] \in {L!Block["backoff"]} \cup L!Values["backoff"]
        /\ file[l]["cap"] \in {L!Block["cap"]} \cup L!Values["cap"]
    BY <1>1 DEF Fields
  <2>2. QED
    BY <2>1 DEF L!Block, L!Values
<1>6. file[l].ratio \in {-1} \cup Ratios
  <2>1. file[l]["ratio"] \in {L!Block["ratio"]} \cup L!Values["ratio"]
    BY <1>1 DEF Fields
  <2>2. QED
    BY <2>1 DEF L!Block, L!Values, L!NotSet
<1>6a. ASSUME NEW X \in SUBSET Nat, NEW x \in {0} \cup X PROVE x \in Nat
  OBVIOUS
<1>7. file[l].interval \in Nat /\ file[l].window \in Nat /\ file[l].backoff \in Nat
  <2>1. Intervals \in SUBSET Nat /\ Windows \in SUBSET Nat /\ Backoffs \in SUBSET Nat
    BY <1>2, Zenon
  <2>2. QED
    BY <1>4, <1>5, <1>6a, <2>1, Zenon
<1>8. file[l].attempts \in {0} \cup Counts /\ file[l].cap \in {0} \cup Caps
  BY <1>5, Zenon
<1>9. file[l].ratio \in {-1} \cup Nat
  BY <1>2, <1>6
<1>10. QED
  BY <1>3, <1>7, <1>8, <1>9, Zenon

\* The schedule is that of the nearest level that says one.
LEMMA ScheduleIsOne == ASSUME SettingsInv PROVE L!OneSchedule
<1> DEFINE t == file.target
           d == file.defaults
           s == file.scheduler
           sched == L!Schedule
<1>1. /\ t.cron \in BOOLEAN /\ t.interval \in Nat /\ d.cron \in BOOLEAN /\ d.interval \in Nat
      /\ s.cron \in BOOLEAN /\ s.interval \in Nat
  <2>1. "target" \in FileLevels /\ "defaults" \in FileLevels /\ "scheduler" \in FileLevels
    BY DEF FileLevels
  <2>2. QED
    BY <2>1, LevelTyped
<1>2. DefaultInterval \in Nat /\ DefaultInterval # 0
  BY DeskAssumption DEF L!SettingsAssumption
<1>3. t.cron => sched.cron /\ sched.interval = 0
  BY DEF L!Schedule, L!T
<1>4. ~t.cron /\ t.interval > 0 => ~sched.cron /\ sched.interval = t.interval
  BY DEF L!Schedule, L!T
<1>5. ~t.cron /\ t.interval = 0 /\ d.cron => sched.cron /\ sched.interval = 0
  BY DEF L!Schedule, L!T, L!D
<1>6. ~t.cron /\ t.interval = 0 /\ ~d.cron /\ d.interval > 0 => ~sched.cron /\ sched.interval = d.interval
  BY DEF L!Schedule, L!T, L!D
<1>7. ~t.cron /\ t.interval = 0 /\ ~d.cron /\ d.interval = 0
        => sched = [cron |-> s.cron, interval |-> IF s.cron THEN 0 ELSE L!Inherited]
  BY DEF L!Schedule, L!T, L!D, L!S
<1>8. L!Inherited = IF s.interval = 0 THEN DefaultInterval ELSE s.interval
  BY DEF L!Inherited, L!S
<1> HIDE DEF t, d, s, sched
<1>9. ASSUME ~t.cron, t.interval = 0, ~d.cron, d.interval = 0
      PROVE  /\ s.cron => sched.cron /\ sched.interval = 0
             /\ ~s.cron => ~sched.cron /\ sched.interval # 0 /\ (s.interval > 0 => sched.interval = s.interval)
  BY <1>1, <1>2, <1>7, <1>8, <1>9
<1>10. sched.cron <=> sched.interval = 0
  BY <1>1, <1>3, <1>4, <1>5, <1>6, <1>9
<1>11. L!Levels[1] = "target" /\ L!Levels[2] = "defaults" /\ L!Levels[3] = "scheduler"
  BY DEF L!Levels
<1>12. ASSUME t.cron \/ t.interval > 0 PROVE (sched.cron <=> t.cron) /\ (~t.cron => sched.interval = t.interval)
  BY <1>1, <1>3, <1>4, <1>12
<1>13. ASSUME ~(t.cron \/ t.interval > 0), d.cron \/ d.interval > 0
       PROVE  (sched.cron <=> d.cron) /\ (~d.cron => sched.interval = d.interval)
  BY <1>1, <1>5, <1>6, <1>13
<1>14. ASSUME ~(t.cron \/ t.interval > 0), ~(d.cron \/ d.interval > 0), s.cron \/ s.interval > 0
       PROVE  (sched.cron <=> s.cron) /\ (~s.cron => sched.interval = s.interval)
  BY <1>1, <1>9, <1>14
<1>15. ASSUME NEW i \in 1..3, L!Says(file[L!Levels[i]]), \A j \in 1..i - 1 : ~L!Says(file[L!Levels[j]])
       PROVE  /\ sched.cron <=> file[L!Levels[i]].cron
              /\ ~file[L!Levels[i]].cron => sched.interval = file[L!Levels[i]].interval
  <2>1. CASE i = 1
    BY <1>11, <1>12, <1>15, <2>1 DEF L!Says, t
  <2>2. CASE i = 2
    <3>1. ~L!Says(file[L!Levels[1]])
      BY <1>15, <2>2
    <3>2. QED
      BY <1>11, <1>13, <1>15, <2>2, <3>1 DEF L!Says, t, d
  <2>3. CASE i = 3
    <3>1. ~L!Says(file[L!Levels[1]]) /\ ~L!Says(file[L!Levels[2]])
      BY <1>15, <2>3
    <3>2. QED
      BY <1>11, <1>14, <1>15, <2>3, <3>1 DEF L!Says, t, d, s
  <2>4. QED
    BY <2>1, <2>2, <2>3
<1>16. QED
  BY <1>10, <1>15 DEF L!OneSchedule, sched

LEMMA ShorthandHolds == ASSUME SettingsInv PROVE L!ShorthandIsWhole
<1> SUFFICES ASSUME NEW h \in Hashes, L!Validate(h)
             PROVE  /\ (L!T.storeBodies = "true" => L!KeepsAll) /\ (L!T.storeBodies = "false" => L!KeepsNone)
                    /\ L!T.storeBodies = "" /\ L!T.store = "" =>
                         /\ L!D.storeBodies = "true" /\ L!T.ratio = L!NotSet => L!KeepsAll
                         /\ L!D.storeBodies = "false" => L!KeepsNone
  BY DEF L!ShorthandIsWhole
<1>1. \A b \in {L!T, L!D} : b.storeBodies # "" => ~L!BodiesWritten(b)
  BY DEF L!Validate, L!ValidateLevel
<1>2. \A b \in {L!T, L!D} :
        /\ b.storeBodies = "true" => L!LevelBodies(b).store = "hashed" /\ L!LevelBodies(b).ratio = 10
        /\ b.storeBodies = "false" => L!LevelBodies(b).store = "none"
  BY <1>1 DEF L!LevelBodies, L!BodiesWritten
<1>3. L!T.storeBodies = "" /\ L!T.store = "" =>
        L!LevelBodies(L!T).store = "" /\ (L!T.ratio = L!NotSet => L!LevelBodies(L!T).ratio = L!NotSet)
  BY DEF L!LevelBodies
<1>4. 10 # L!NotSet
  BY DEF L!NotSet
<1>5. QED
  BY <1>2, <1>3, <1>4 DEF L!KeepsAll, L!KeepsNone, L!BodyPolicy

\* A duration that the word holds is what it is.
LEMMA WordHolds == ASSUME NEW n \in Nat, NEW w \in Nat, n < w \div 2 PROVE ((n + w \div 2) % w) - w \div 2 = n
<1> DEFINE v == w \div 2
<1>1. v \in Nat /\ 2 * v <= w
  OBVIOUS
<1>2. n + v \in 0..(w - 1)
  <2>1. n < v
    OBVIOUS
  <2> HIDE DEF v
  <2>2. QED
    BY <1>1, <2>1
<1>3. (n + v) % w = n + v
  <2> HIDE DEF v
  <2>1. QED
    BY <1>1, <1>2
<1>4. QED
  BY <1>1, <1>3

LEMMA JitterIsSmall == ASSUME NEW b \in Nat, NEW x \in Nat
                       PROVE  L!Jitter(b, x) \in Nat /\ 10 * L!Jitter(b, x) <= b
<1>1. CASE b < 10
  BY <1>1 DEF L!Jitter
<1>2. CASE b >= 10
  <2> DEFINE q == b \div 10
  <2>1. q \in Nat /\ q > 0 /\ 10 * q <= b
    BY <1>2
  <2>2. L!Jitter(b, x) = x % q
    BY <1>2 DEF L!Jitter
  <2> HIDE DEF q
  <2>3. x % q \in 0..(q - 1)
    BY <2>1
  <2>4. QED
    BY <2>1, <2>2, <2>3
<1>3. QED
  BY <1>1, <1>2

\* The longest wait there may be, as often as there may be an attempt, is a duration.
WaitsFit == \A n \in Counts, c \in Caps : 11 * (n * c) < 10 * (Word \div 2)

\* A function that goes from 2 onward by a step is there, whatever the step is.
LEMMA Recursion ==
    ASSUME NEW n \in Nat, NEW a \in Int, NEW step \in [(2..n) \X Int -> Int]
    PROVE  \E f \in [2..n -> Int] : f = [k \in 2..n |-> IF k = 2 THEN a ELSE step[<<k, f[k - 1]>>]]
<1> DEFINE Goes(m) == \E f \in [2..m -> Int] : f = [k \in 2..m |-> IF k = 2 THEN a ELSE step[<<k, f[k - 1]>>]]
           Good == {m \in Nat : m <= n => Goes(m)}
<1>1. 0 \in Good
  <2> DEFINE f == [k \in 2..0 |-> a]
  <2>1. f \in [2..0 -> Int] /\ f = [k \in 2..0 |-> IF k = 2 THEN a ELSE step[<<k, f[k - 1]>>]]
    OBVIOUS
  <2>2. Goes(0)
    BY <2>1, Zenon
  <2>3. QED
    BY <2>2
<1>2. ASSUME NEW m \in Nat, m \in Good PROVE m + 1 \in Good
  <2>1. SUFFICES ASSUME m + 1 <= n PROVE Goes(m + 1)
    OBVIOUS
  <2>2. PICK g \in [2..m -> Int] : g = [k \in 2..m |-> IF k = 2 THEN a ELSE step[<<k, g[k - 1]>>]]
    BY <1>2, <2>1
  <2> DEFINE last == IF m + 1 <= 2 THEN a ELSE step[<<m + 1, g[m]>>]
             f == [k \in 2..m + 1 |-> IF k = m + 1 THEN last ELSE g[k]]
  <2>3. last \in Int
    <3>1. CASE m + 1 <= 2
      BY <3>1
    <3>2. CASE m + 1 > 2
      <4>1. m \in 2..m /\ m + 1 \in 2..n
        BY <2>1, <3>2
      <4>2. g[m] \in Int
        BY <2>2, <4>1
      <4>3. QED
        BY <3>2, <4>1, <4>2
    <3>3. QED
      BY <3>1, <3>2
  <2>4. ASSUME NEW k \in 2..m + 1 PROVE f[k] \in Int /\ f[k] = IF k = 2 THEN a ELSE step[<<k, f[k - 1]>>]
    <3>1. CASE k = m + 1
      <4>1. f[k] = last
        BY <3>1
      <4>2. CASE k = 2
        BY <2>3, <3>1, <4>1, <4>2
      <4>3. CASE k # 2
        <5>1. k - 1 = m /\ m \in 2..m + 1 /\ m # m + 1 /\ ~(m + 1 <= 2)
          BY <3>1, <4>3
        <5>2. f[k - 1] = g[m]
          BY <5>1
        <5>3. last = step[<<k, g[m]>>]
          BY <3>1, <5>1
        <5> HIDE DEF f, last
        <5>4. QED
          BY <2>3, <4>1, <4>3, <5>2, <5>3
      <4>4. QED
        BY <4>2, <4>3
    <3>2. CASE k # m + 1
      <4>1. k \in 2..m /\ (k # 2 => k - 1 \in 2..m /\ k - 1 # m + 1 /\ k - 1 \in 2..m + 1)
        BY <3>2
      <4>2. f[k] = g[k] /\ (k # 2 => f[k - 1] = g[k - 1])
        BY <3>2, <4>1
      <4>3. g[k] \in Int /\ g[k] = IF k = 2 THEN a ELSE step[<<k, g[k - 1]>>]
        BY <2>2, <4>1
      <4> HIDE DEF f
      <4>4. QED
        BY <4>2, <4>3
    <3>3. QED
      BY <3>1, <3>2
  <2>5. f \in [2..m + 1 -> Int]
    BY <2>4
  <2>6. f = [k \in 2..m + 1 |-> IF k = 2 THEN a ELSE step[<<k, f[k - 1]>>]]
    <3>1. DOMAIN f = 2..m + 1
      OBVIOUS
    <3>2. f = [k \in 2..m + 1 |-> f[k]]
      OBVIOUS
    <3> HIDE DEF f
    <3>3. QED
      BY <2>4, <3>2
  <2>7. QED
    BY <2>5, <2>6, Zenon
<1>3. n \in Good
  <2> HIDE DEF Good
  <2>1. QED
    BY <1>1, <1>2, Onward
<1>4. QED
  BY <1>3

\* Doubling stops at the cap before it leaves the word.
Schedules == {p \in [attempts : Nat, backoff : Nat, cap : Nat] : p.cap > 0 /\ p.backoff <= p.cap /\ 2 * p.cap < Word \div 2}
LEMMA BaseIsCapped == ASSUME NEW p \in Schedules, NEW n \in Nat, n >= 2 PROVE L!Base(p, n) \in 0..p.cap
<1> DEFINE Doubled(b) == IF p.cap > 0 /\ b = p.cap THEN b
                         ELSE LET c == L!Wrap(2 * b) IN IF p.cap > 0 /\ c >= p.cap THEN p.cap ELSE c
           step == [x \in (2..n) \X Int |-> Doubled(x[2])]
           twice == CHOOSE f : f = [k \in 2..n |-> IF k = 2 THEN p.backoff ELSE Doubled(f[k - 1])]
<1>1. p.cap \in Nat /\ p.cap > 0 /\ p.backoff \in Nat /\ p.backoff <= p.cap /\ 2 * p.cap < Word \div 2 /\ Word \in Nat
  BY DeskAssumption DEF Schedules, L!SettingsAssumption
<1>2. ASSUME NEW b \in Int PROVE Doubled(b) \in Int
  <2>1. L!Wrap(2 * b) \in Int
    <3>1. 2 * b + Word \div 2 \in Int /\ Word \div 2 \in Int /\ Word > 0
      BY <1>1, DeskAssumption DEF L!SettingsAssumption
    <3>2. (2 * b + Word \div 2) % Word \in Int
      BY <3>1, <1>1
    <3>3. QED
      BY <3>1, <3>2 DEF L!Wrap
  <2>2. QED
    BY <1>1, <2>1
<1>3. ASSUME NEW b \in 0..p.cap PROVE Doubled(b) \in 0..p.cap
  <2>1. CASE b = p.cap
    BY <1>1, <2>1
  <2>2. CASE b # p.cap
    <3>1. 2 * b \in Nat /\ 2 * b < Word \div 2
      BY <1>1, <1>3
    <3>2. L!Wrap(2 * b) = 2 * b
      BY <1>1, <3>1, WordHolds DEF L!Wrap
    <3>3. Doubled(b) = IF 2 * b >= p.cap THEN p.cap ELSE 2 * b
      BY <1>1, <2>2, <3>2
    <3>4. QED
      BY <1>1, <3>1, <3>3
  <2>3. QED
    BY <2>1, <2>2
<1>4. L!Base(p, n) = L!Capped(p, twice[n])
  BY DEF L!Base
<1> HIDE DEF Doubled
<1>5. step \in [(2..n) \X Int -> Int]
  BY <1>2
<1>6. p.backoff \in Int
  BY <1>1
<1>7. PICK f \in [2..n -> Int] : f = [k \in 2..n |-> IF k = 2 THEN p.backoff ELSE step[<<k, f[k - 1]>>]]
  <2> HIDE DEF step
  <2>1. \A a \in Int : \A g \in [(2..n) \X Int -> Int] :
          \E f \in [2..n -> Int] : f = [k \in 2..n |-> IF k = 2 THEN a ELSE g[<<k, f[k - 1]>>]]
    BY Recursion
  <2>2. QED
    BY <1>5, <1>6, <2>1
<1>8. ASSUME NEW k \in 2..n PROVE f[k] = IF k = 2 THEN p.backoff ELSE Doubled(f[k - 1])
  <2>1. CASE k = 2
    BY <1>7, <2>1
  <2>2. CASE k # 2
    <3>1. k - 1 \in 2..n
      BY <2>2
    <3>2. <<k, f[k - 1]>> \in (2..n) \X Int
      BY <1>7, <3>1
    <3>3. step[<<k, f[k - 1]>>] = Doubled(f[k - 1])
      BY <3>2
    <3> HIDE DEF step
    <3>4. QED
      BY <1>7, <2>2, <3>3
  <2>3. QED
    BY <2>1, <2>2
<1>9. f = [k \in 2..n |-> IF k = 2 THEN p.backoff ELSE Doubled(f[k - 1])]
  <2>1. f = [k \in 2..n |-> f[k]]
    BY <1>7
  <2>2. QED
    BY <1>8, <2>1
<1>10. twice = [k \in 2..n |-> IF k = 2 THEN p.backoff ELSE Doubled(twice[k - 1])]
  BY <1>9
<1> HIDE DEF twice, step
<1> DEFINE Good == {m \in Nat : m + 2 <= n => twice[m + 2] \in 0..p.cap}
<1>11. 0 \in Good
  BY <1>1, <1>10
<1>12. ASSUME NEW m \in Nat, m \in Good PROVE m + 1 \in Good
  <2>1. SUFFICES ASSUME m + 3 <= n PROVE twice[m + 3] \in 0..p.cap
    BY DEF Good
  <2>2. twice[m + 2] \in 0..p.cap
    BY <1>12, <2>1
  <2>3. m + 3 \in 2..n /\ m + 3 # 2 /\ (m + 3) - 1 = m + 2
    BY <2>1
  <2>4. twice[m + 3] = Doubled(twice[m + 2])
    BY <1>10, <2>3
  <2>5. QED
    BY <1>3, <2>2, <2>4
<1>13. n - 2 \in Good
  <2> HIDE DEF Good
  <2>1. Nat \subseteq Good
    BY <1>11, <1>12, Onward, Zenon
  <2>2. n - 2 \in Nat
    OBVIOUS
  <2>3. QED
    BY <2>1, <2>2
<1>14. twice[n] \in 0..p.cap
  BY <1>13
<1>15. QED
  BY <1>1, <1>4, <1>14 DEF L!Capped

\* The wait before an attempt is at most a tenth longer than its base.
LEMMA DelayIsBounded ==
    ASSUME NEW p \in Schedules, NEW n \in Nat, n >= 2, NEW h, h[n] \in Nat
    PROVE  /\ L!Delay(p, n, h) \in Nat /\ 10 * L!Delay(p, n, h) <= 11 * p.cap
           /\ L!Base(p, n) \in Nat /\ L!Base(p, n) <= L!Delay(p, n, h) /\ 10 * L!Delay(p, n, h) <= 11 * L!Base(p, n)
<1> DEFINE b == L!Base(p, n)
           j == L!Jitter(b, h[n])
<1>1. b \in 0..p.cap /\ p.cap \in Nat
  BY BaseIsCapped DEF Schedules
<1>2. j \in Nat /\ 10 * j <= b
  <2>1. b \in Nat
    BY <1>1
  <2> HIDE DEF b
  <2>2. QED
    BY <2>1, JitterIsSmall, Zenon
<1>3. L!Delay(p, n, h) = b + j
  BY DEF L!Delay
<1> HIDE DEF b, j
<1>4. b + j \in Nat /\ 10 * (b + j) <= 11 * p.cap /\ b <= b + j /\ 10 * (b + j) <= 11 * b /\ b \in Nat
  BY <1>1, <1>2
<1>5. QED
  BY <1>3, <1>4 DEF b

LEMMA WrapIsInt == ASSUME NEW x \in Int PROVE L!Wrap(x) \in Int
<1>1. x + Word \div 2 \in Int /\ Word \div 2 \in Int /\ Word > 0 /\ Word \in Nat
  BY DeskAssumption DEF L!SettingsAssumption
<1>2. (x + Word \div 2) % Word \in Int
  BY <1>1
<1>3. QED
  BY <1>1, <1>2 DEF L!Wrap

LEMMA Times == ASSUME NEW m \in Nat, NEW n \in Nat, NEW c \in Nat, m <= n
               PROVE  m * c \in Nat /\ m * c <= n * c /\ (m + 1) * c = m * c + c
OBVIOUS

LEMMA Sums ==
    ASSUME NEW t \in Nat, NEW o \in Nat, NEW x \in Nat, NEW y \in Nat, NEW before \in Nat, NEW c \in Nat, NEW most \in Nat, NEW w \in Int,
           10 * t <= 11 * before, 10 * o <= 11 * c, before + c <= most, 11 * most < 10 * w,
           10 * x <= 11 * t, 10 * y <= 11 * o
    PROVE  /\ t + o \in Nat /\ 10 * (t + o) <= 11 * (before + c) /\ t + o < w
           /\ x + y \in Nat /\ 10 * (x + y) <= 11 * (t + o)
OBVIOUS

\* The waits of one schedule that the word holds, and what another key makes of them.
LEMMA TotalsAreClose ==
    ASSUME NEW p \in Schedules, p.attempts >= 2, 11 * (p.attempts * p.cap) < 10 * (Word \div 2),
           NEW name, \A k \in 2..p.attempts : name[k] \in Nat, NEW key, \A k \in 2..p.attempts : key[k] \in Nat,
           NEW plain,
           \A n \in 2..p.attempts : plain[n] = IF n = 2 THEN L!Delay(p, 2, key) ELSE plain[n - 1] + L!Delay(p, n, key)
    PROVE  10 * plain[p.attempts] <= 11 * L!TotalDelay(p, name) /\ plain[p.attempts] \in Nat /\ L!TotalDelay(p, name) \in Nat
<1> DEFINE N == p.attempts
           Own(k) == L!Delay(p, k, name)
           Other(k) == L!Delay(p, k, key)
           step == [x \in (2..N) \X Int |-> L!Wrap(x[2] + Own(x[1]))]
           total == CHOOSE f : f = [n \in 2..N |-> IF n = 2 THEN Own(2) ELSE L!Wrap(f[n - 1] + Own(n))]
<1>1. N \in Nat /\ N >= 2 /\ p.cap \in Nat
  BY DEF Schedules
<1>2. \A k \in 2..N : Own(k) \in Nat /\ 10 * Own(k) <= 11 * p.cap /\ 10 * Other(k) <= 11 * Own(k) /\ Other(k) \in Nat
  <2> TAKE k \in 2..N
  <2> DEFINE b == L!Base(p, k)
  <2>1. k \in Nat /\ k >= 2 /\ name[k] \in Nat /\ key[k] \in Nat
    BY <1>1
  <2>2. Own(k) \in Nat /\ 10 * Own(k) <= 11 * p.cap /\ b \in Nat /\ b <= Own(k)
    BY <2>1, DelayIsBounded
  <2>3. Other(k) \in Nat /\ 10 * Other(k) <= 11 * b
    BY <2>1, DelayIsBounded
  <2> HIDE DEF b, Own, Other
  <2>4. QED
    BY <2>2, <2>3
<1>3. L!TotalDelay(p, name) = total[N]
  BY <1>1 DEF L!TotalDelay
<1>4. N \in Nat /\ 11 * (N * p.cap) < 10 * (Word \div 2) /\ \A n \in 2..N : plain[n] = IF n = 2 THEN Other(2) ELSE plain[n - 1] + Other(n)
  BY <1>1
<1> HIDE DEF Own, Other, N
<1>5. step \in [(2..N) \X Int -> Int]
  <2> SUFFICES ASSUME NEW x \in (2..N) \X Int PROVE L!Wrap(x[2] + Own(x[1])) \in Int
    OBVIOUS
  <2>1. x[1] \in 2..N /\ x[2] \in Int
    OBVIOUS
  <2>2. x[2] + Own(x[1]) \in Int
    BY <1>2, <2>1
  <2>3. QED
    BY <2>2, WrapIsInt
<1>6. Own(2) \in Int
  BY <1>1, <1>2
<1>7. PICK f \in [2..N -> Int] : f = [k \in 2..N |-> IF k = 2 THEN Own(2) ELSE step[<<k, f[k - 1]>>]]
  <2> HIDE DEF step
  <2>1. \A a \in Int : \A g \in [(2..N) \X Int -> Int] :
          \E f \in [2..N -> Int] : f = [k \in 2..N |-> IF k = 2 THEN a ELSE g[<<k, f[k - 1]>>]]
    BY <1>1, Recursion
  <2>2. QED
    BY <1>5, <1>6, <2>1
<1>8. ASSUME NEW k \in 2..N PROVE f[k] = IF k = 2 THEN Own(2) ELSE L!Wrap(f[k - 1] + Own(k))
  <2>1. CASE k = 2
    BY <1>7, <2>1
  <2>2. CASE k # 2
    <3>1. k - 1 \in 2..N
      BY <1>1, <2>2
    <3>2. <<k, f[k - 1]>> \in (2..N) \X Int
      BY <1>7, <3>1
    <3>3. step[<<k, f[k - 1]>>] = L!Wrap(f[k - 1] + Own(k))
      BY <3>2
    <3> HIDE DEF step
    <3>4. QED
      BY <1>7, <2>2, <3>3
  <2>3. QED
    BY <2>1, <2>2
<1>9. f = [k \in 2..N |-> IF k = 2 THEN Own(2) ELSE L!Wrap(f[k - 1] + Own(k))]
  <2>1. f = [k \in 2..N |-> f[k]]
    BY <1>7
  <2>2. QED
    BY <1>8, <2>1
<1>10. total = [k \in 2..N |-> IF k = 2 THEN Own(2) ELSE L!Wrap(total[k - 1] + Own(k))]
  BY <1>9
<1> HIDE DEF total, step
<1> DEFINE Close(n) == /\ total[n] \in Nat /\ plain[n] \in Nat /\ 10 * total[n] <= 11 * (n * p.cap)
                       /\ 10 * plain[n] <= 11 * total[n]
           Good == {m \in Nat : m + 2 <= N => Close(m + 2)}
<1>11. Close(2)
  <2>1. 2 \in 2..N
    BY <1>1
  <2>2. total[2] = Own(2) /\ plain[2] = Other(2)
    BY <1>4, <1>10, <2>1
  <2>3. Own(2) \in Nat /\ 10 * Own(2) <= 11 * p.cap /\ 10 * Other(2) <= 11 * Own(2) /\ Other(2) \in Nat
    BY <1>2, <2>1
  <2>4. QED
    BY <1>1, <2>2, <2>3
<1>12. ASSUME NEW m \in Nat, m + 3 <= N, Close(m + 2) PROVE Close(m + 3)
  <2> DEFINE n == m + 2
             now_ == n * p.cap
             then == (n + 1) * p.cap
             most == N * p.cap
  <2>1. n \in Nat /\ n + 1 \in 2..N /\ n + 1 # 2 /\ (n + 1) - 1 = n /\ n + 1 = m + 3
    BY <1>12
  <2>2. now_ \in Nat /\ then = now_ + p.cap
    BY <1>1, <2>1, Times
  <2>3. then \in Nat /\ then <= most /\ most \in Nat
    <3>1. n + 1 <= N /\ n + 1 \in Nat /\ N <= N
      BY <1>1, <2>1
    <3> HIDE DEF n
    <3>2. QED
      BY <1>1, <3>1, Times
  <2>4. total[n] \in Nat /\ plain[n] \in Nat /\ 10 * total[n] <= 11 * now_ /\ 10 * plain[n] <= 11 * total[n]
    BY <1>12
  <2>5. 11 * most < 10 * (Word \div 2)
    BY <1>4
  <2>6. Own(n + 1) \in Nat /\ 10 * Own(n + 1) <= 11 * p.cap /\ 10 * Other(n + 1) <= 11 * Own(n + 1) /\ Other(n + 1) \in Nat
    BY <1>2, <2>1
  <2>7. total[n + 1] = L!Wrap(total[n] + Own(n + 1)) /\ plain[n + 1] = plain[n] + Other(n + 1)
    BY <1>4, <1>10, <2>1
  <2>8. Word \in Nat /\ Word \div 2 \in Int
    BY DeskAssumption DEF L!SettingsAssumption
  <2> HIDE DEF n, now_, then, most, Close
  <2>a. now_ + p.cap <= most
    BY <2>2, <2>3
  <2>b. /\ total[n] + Own(n + 1) \in Nat /\ 10 * (total[n] + Own(n + 1)) <= 11 * (now_ + p.cap)
        /\ total[n] + Own(n + 1) < Word \div 2
        /\ plain[n] + Other(n + 1) \in Nat /\ 10 * (plain[n] + Other(n + 1)) <= 11 * (total[n] + Own(n + 1))
    <3> DEFINE t == total[n]
               o == Own(n + 1)
               x == plain[n]
               y == Other(n + 1)
               w == Word \div 2
    <3>1. t \in Nat /\ o \in Nat /\ x \in Nat /\ y \in Nat /\ now_ \in Nat /\ p.cap \in Nat /\ most \in Nat /\ w \in Int
      BY <1>1, <2>2, <2>3, <2>4, <2>6, <2>8
    <3>2. 10 * t <= 11 * now_ /\ 10 * o <= 11 * p.cap /\ 11 * most < 10 * w /\ 10 * x <= 11 * t /\ 10 * y <= 11 * o
      BY <2>4, <2>5, <2>6
    <3> HIDE DEF t, o, x, y, w
    <3>3. /\ t + o \in Nat /\ 10 * (t + o) <= 11 * (now_ + p.cap) /\ t + o < w
          /\ x + y \in Nat /\ 10 * (x + y) <= 11 * (t + o)
      BY <3>1, <3>2, <2>a, Sums
    <3>4. QED
      BY <3>3 DEF t, o, x, y, w
  <2>9. total[n] + Own(n + 1) \in Nat /\ 10 * (total[n] + Own(n + 1)) <= 11 * then /\ total[n] + Own(n + 1) < Word \div 2
    BY <2>2, <2>b
  <2>10. L!Wrap(total[n] + Own(n + 1)) = total[n] + Own(n + 1)
    BY <2>8, <2>9, WordHolds DEF L!Wrap
  <2>11. plain[n] + Other(n + 1) \in Nat /\ 10 * (plain[n] + Other(n + 1)) <= 11 * (total[n] + Own(n + 1))
    BY <2>b
  <2>12. /\ total[n + 1] \in Nat /\ plain[n + 1] \in Nat /\ 10 * total[n + 1] <= 11 * then
         /\ 10 * plain[n + 1] <= 11 * total[n + 1]
    BY <2>7, <2>9, <2>10, <2>11
  <2>13. Close(n + 1)
    BY <2>12 DEF Close, then
  <2>14. QED
    BY <2>1, <2>13
<1> HIDE DEF Close
<1>13. 0 \in Good
  BY <1>11
<1>14. ASSUME NEW m \in Nat, m \in Good PROVE m + 1 \in Good
  <2>1. ASSUME (m + 1) + 2 <= N PROVE Close((m + 1) + 2)
    <3>1. m + 2 <= N /\ m + 3 <= N /\ (m + 1) + 2 = m + 3
      BY <1>1, <2>1
    <3>2. Close(m + 2)
      BY <1>14, <3>1
    <3>3. QED
      BY <1>12, <3>1, <3>2
  <2>2. QED
    BY <2>1
<1>15. N - 2 \in Good
  <2> HIDE DEF Good
  <2>1. Nat \subseteq Good
    BY <1>13, <1>14, Onward, Zenon
  <2>2. N - 2 \in Nat
    BY <1>1
  <2>3. QED
    BY <2>1, <2>2
<1>16. Close(N)
  <2>1. (N - 2) + 2 = N
    BY <1>1
  <2>2. QED
    BY <1>1, <1>15, <2>1
<1>17. QED
  BY <1>3, <1>16 DEF Close, N

\* What the check of one mode's waits says of every mode's.
LEMMA RetriesFit == ASSUME SettingsInv, WaitsFit PROVE L!OwnWaitsFit
<1> SUFFICES ASSUME NEW name \in Hashes, NEW key \in Hashes, L!Own, L!Validate(name)
             PROVE  10 * L!Waits(key) < 11 * L!T.interval
  BY DEF L!OwnWaitsFit
<1> DEFINE p == [attempts |-> file.target.attempts, backoff |-> file.target.backoff, cap |-> file.target.cap]
           N == file.target.attempts
           Other(k) == L!Delay(p, k, key)
           step == [x \in (2..N) \X Int |-> x[2] + Other(x[1])]
           plain == CHOOSE f : f = [n \in 2..N |-> IF n = 2 THEN Other(2) ELSE f[n - 1] + Other(n)]
<1>1. /\ file.target.interval > 0 /\ N > 1 /\ file.target.backoff > 0 /\ file.target.cap > 0
  BY DEF L!Own, L!T
<1>2. /\ file.target.interval \in Nat /\ N \in Counts /\ file.target.backoff \in Nat /\ file.target.cap \in Caps
      /\ Counts \subseteq Nat /\ Caps \subseteq Nat
  <2>1. "target" \in FileLevels
    BY DEF FileLevels
  <2>2. Counts \subseteq Nat /\ Caps \subseteq Nat
    BY DeskAssumption DEF L!SettingsAssumption
  <2>3. /\ file.target.interval \in Nat /\ N \in {0} \cup Counts /\ file.target.backoff \in Nat /\ file.target.cap \in {0} \cup Caps
    BY <2>1, LevelTyped, Zenon
  <2>4. QED
    BY <1>1, <2>2, <2>3
<1>2a. N \in Nat /\ N >= 2 /\ file.target.cap \in Nat
  <2>1. N \in Nat /\ file.target.cap \in Nat
    BY <1>2, Zenon
  <2> HIDE DEF N
  <2>2. N >= 2
    BY <1>1, <2>1
  <2>3. QED
    BY <2>1, <2>2
<1>3. L!OwnRetry = p /\ L!Retry = p
  BY <1>1, <1>2 DEF L!OwnRetry, L!Retry, L!T, L!FirstOf
<1>4. p.attempts = N /\ p.cap = file.target.cap /\ p.backoff = file.target.backoff
  OBVIOUS
<1>5. file.target.backoff <= file.target.cap
  BY <1>1 DEF L!Validate, L!ValidateLevel, L!T
<1>6. 11 * (N * p.cap) < 10 * (Word \div 2)
  BY <1>2, <1>4 DEF WaitsFit
<1>7. p \in Schedules
  <2>1. N \in Nat /\ file.target.cap \in Nat /\ N >= 2
    BY <1>2a, Zenon
  <2>2. 2 * file.target.cap <= N * file.target.cap /\ N * file.target.cap \in Nat
    <3> DEFINE c == file.target.cap
    <3>1. c \in Nat /\ N \in Nat /\ 2 \in Nat /\ 2 <= N
      BY <2>1
    <3> HIDE DEF c, N
    <3>2. 2 * c <= N * c /\ 2 * c \in Nat
      BY <3>1, Times, Zenon
    <3>3. N * c \in Nat
      BY <3>1
    <3>4. QED
      BY <3>2, <3>3 DEF c
  <2>3. 2 * file.target.cap < Word \div 2
    <3> DEFINE m == N * file.target.cap
               w == Word \div 2
    <3>1. m \in Nat /\ 2 * file.target.cap <= m /\ 11 * m < 10 * w /\ w \in Int
      BY <1>4, <1>6, <2>2, DeskAssumption DEF L!SettingsAssumption
    <3> HIDE DEF m, w, N
    <3>2. m < w
      BY <3>1
    <3>3. 2 * file.target.cap < w
      BY <2>1, <3>1, <3>2
    <3>4. QED
      BY <3>3 DEF w
  <2>4. QED
    BY <1>1, <1>2, <1>5, <2>1, <2>3 DEF Schedules
<1>8. \A h \in Hashes : \A k \in 2..N : h[k] \in Nat
  BY <1>2, DeskAssumption DEF L!SettingsAssumption
<1>9. L!TotalDelay(p, name) < file.target.interval
  BY <1>1, <1>3 DEF L!Validate, L!RetryFitsInterval, L!T
<1>10. L!Waits(key) = plain[N]
  <2>1. L!Retry.attempts = N /\ ~(N < 2)
    BY <1>2a, <1>3, <1>4
  <2>2. L!Waits(key) = (CHOOSE f : f = [n \in 2..L!Retry.attempts |-> IF n = 2 THEN L!Delay(L!Retry, 2, key)
                                     ELSE f[n - 1] + L!Delay(L!Retry, n, key)])[L!Retry.attempts]
    BY <2>1 DEF L!Waits
  <2> HIDE DEF p, N
  <2>3. QED
    BY <1>3, <2>1, <2>2
<1> HIDE DEF p, N
<1>11. ASSUME NEW k \in 2..N PROVE Other(k) \in Nat
  <2>1. k \in Nat /\ k >= 2 /\ key[k] \in Nat
    BY <1>2a, <1>8, <1>11
  <2>2. QED
    BY <1>7, <2>1, DelayIsBounded
<1>12. PICK f \in [2..N -> Int] : f = [k \in 2..N |-> IF k = 2 THEN Other(2) ELSE step[<<k, f[k - 1]>>]]
  <2>1. Other(2) \in Int /\ N \in Nat
    BY <1>2a, <1>11
  <2>2. step \in [(2..N) \X Int -> Int]
    <3> HIDE DEF Other
    <3>1. \A x \in (2..N) \X Int : x[2] + Other(x[1]) \in Int
      BY <1>11
    <3>2. QED
      BY <3>1
  <2> HIDE DEF step, Other
  <2>3. \A a \in Int : \A g \in [(2..N) \X Int -> Int] :
          \E f \in [2..N -> Int] : f = [k \in 2..N |-> IF k = 2 THEN a ELSE g[<<k, f[k - 1]>>]]
    BY <2>1, Recursion
  <2>4. QED
    BY <2>1, <2>2, <2>3
<1> HIDE DEF Other
<1>13. ASSUME NEW k \in 2..N PROVE f[k] = IF k = 2 THEN Other(2) ELSE f[k - 1] + Other(k)
  <2>1. CASE k = 2
    BY <1>12, <2>1
  <2>2. CASE k # 2
    <3>1. k - 1 \in 2..N
      BY <1>2a, <2>2
    <3>2. <<k, f[k - 1]>> \in (2..N) \X Int
      BY <1>12, <3>1
    <3>3. step[<<k, f[k - 1]>>] = f[k - 1] + Other(k)
      BY <3>2
    <3> HIDE DEF step
    <3>4. QED
      BY <1>12, <2>2, <3>3
  <2>3. QED
    BY <2>1, <2>2
<1>14. f = [k \in 2..N |-> IF k = 2 THEN Other(2) ELSE f[k - 1] + Other(k)]
  <2>1. f = [k \in 2..N |-> f[k]]
    BY <1>12
  <2>2. QED
    BY <1>13, <2>1
<1>15. plain = [k \in 2..N |-> IF k = 2 THEN Other(2) ELSE plain[k - 1] + Other(k)]
  BY <1>14
<1> HIDE DEF plain, step
<1>16. 10 * plain[N] <= 11 * L!TotalDelay(p, name) /\ plain[N] \in Nat /\ L!TotalDelay(p, name) \in Nat
  <2>1. N = p.attempts /\ N >= 2
    BY <1>2a, <1>4
  <2>2. \A n \in 2..p.attempts : plain[n] = IF n = 2 THEN L!Delay(p, 2, key) ELSE plain[n - 1] + L!Delay(p, n, key)
    BY <1>15, <2>1 DEF Other
  <2>3. /\ p.attempts >= 2 /\ 11 * (p.attempts * p.cap) < 10 * (Word \div 2)
        /\ \A k \in 2..p.attempts : name[k] \in Nat
        /\ \A k \in 2..p.attempts : key[k] \in Nat
    BY <1>6, <1>8, <2>1
  <2>4. 10 * plain[p.attempts] <= 11 * L!TotalDelay(p, name) /\ plain[p.attempts] \in Nat /\ L!TotalDelay(p, name) \in Nat
    BY <1>7, <2>2, <2>3, TotalsAreClose
  <2>5. QED
    BY <2>1, <2>4
<1>17. ASSUME NEW x \in Nat, NEW y \in Nat, NEW i \in Nat, 10 * x <= 11 * y, y < i PROVE 10 * x < 11 * i
  BY <1>17
<1>18. 10 * plain[N] < 11 * file.target.interval
  BY <1>2, <1>9, <1>16, <1>17
<1>19. QED
  BY <1>10, <1>18 DEF L!T

LEMMA SettingsTyped == ASSUME SettingsInv PROVE L!TypeOK
<1>1. DOMAIN file = {"target", "defaults", "scheduler"}
  BY DEF SettingsInv, FileLevels
<1>2. ASSUME NEW level \in DOMAIN file, NEW s \in L!Written(level) PROVE file[level][s] \in L!Values[s]
  <2>1. level \in FileLevels /\ s \in Fields /\ file[level][s] # L!Block[s]
    BY <1>1, BlockFields DEF L!Written, FileLevels
  <2>2. file[level][s] \in {L!Block[s]} \cup L!Values[s]
    BY <2>1 DEF SettingsInv
  <2>3. QED
    BY <2>1, <2>2
<1>3. QED
  BY <1>1, <1>2 DEF L!TypeOK

\* The settings a file may have, and the file a step writes.
LEMMA SettingsHold == ASSUME SettingsInv, WaitsFit PROVE SettingsWork
BY ScheduleIsOne, ShorthandHolds, RetriesFit, SettingsTyped DEF SettingsWork

-----------------------------------------------------------------------------
(* AssetKeys.                                                                 *)

Rulings == {A!NormalizeRules(c) : c \in Configs}

\* An observation says which address and body it is of; its opaque key hangs on no rule.
Faithful(o) ==
    /\ o.full \in Urls /\ o.body \in Bodies \cup {A!Unread}
    /\ o.url = A!Stored(o.full) /\ o.party = A!PartyOf(o.full)
    /\ A!Opaque(o.full) => o.key = A!OpaqueKey(o.full)
    /\ o.digest = o.body.bytes
    /\ o.identity = IF o.read = {} THEN NoName ELSE o.body[(CHOOSE r \in o.read : TRUE).reads]
AssetsInv ==
    /\ rules \in Rulings /\ Len(seen) \in 0..2 /\ (\E T : seen \in Seq(T))
    /\ \A i \in DOMAIN seen : Faithful(seen[i])

LEMMA AssetsStart == A!Init => AssetsInv
<1> SUFFICES ASSUME A!Init PROVE AssetsInv
  OBVIOUS
<1>1. rules \in Rulings /\ seen = <<>>
  BY DEF A!Init, Rulings
<1>2. seen \in Seq({}) /\ Len(seen) = 0 /\ DOMAIN seen = {}
  BY <1>1
<1>3. QED
  BY <1>1, <1>2 DEF AssetsInv

LEMMA ObservedIsFaithful ==
    ASSUME NEW url \in Urls, NEW body \in Bodies \cup {A!Unread} PROVE Faithful(A!Observation(url, body))
<1> DEFINE o == A!Observation(url, body)
<1>1. /\ o.full = url /\ o.body = body /\ o.url = A!Stored(url) /\ o.party = A!PartyOf(url)
      /\ o.key = A!Key(url, A!PartyOf(url)) /\ o.digest = body.bytes /\ o.identity = A!Identity(url, body)
      /\ o.read = A!IdentRule(url)
  BY DEF A!Observation
<1>2. A!Opaque(url) => o.key = A!OpaqueKey(url)
  BY <1>1 DEF A!Key
<1>3. o.identity = IF o.read = {} THEN NoName ELSE o.body[(CHOOSE r \in o.read : TRUE).reads]
  BY <1>1 DEF A!Identity
<1> HIDE DEF o
<1>4. Faithful(o)
  BY <1>1, <1>2, <1>3 DEF Faithful
<1>5. QED
  BY <1>4 DEF o

LEMMA AssetsStep == ASSUME AssetsInv, [A!Next]_A!vars PROVE AssetsInv'
<1>1. CASE A!Scan
  <2>1. PICK url \in Urls, body \in Bodies \cup {A!Unread} :
          Len(seen) < 2 /\ seen' = Append(seen, A!Observation(url, body)) /\ UNCHANGED rules
    BY <1>1 DEF A!Scan
  <2>2. PICK T : seen \in Seq(T)
    BY DEF AssetsInv
  <2> DEFINE o == A!Observation(url, body)
             Grown == T \cup {o}
  <2>3. Faithful(o)
    BY ObservedIsFaithful
  <2>4. seen' = Append(seen, o) /\ Len(seen) < 2 /\ Len(seen) \in 0..2 /\ rules' = rules
    BY <2>1 DEF AssetsInv
  <2> HIDE DEF o
  <2>5. seen \in Seq(Grown)
    BY <2>2
  <2>6. seen' \in Seq(Grown) /\ Len(seen') = Len(seen) + 1 /\ DOMAIN seen = 1..Len(seen) /\ DOMAIN seen' = 1..Len(seen) + 1
    BY <2>4, <2>5
  <2>7. \A i \in 1..Len(seen) : seen'[i] = seen[i]
    BY <2>4, <2>5
  <2>8. seen'[Len(seen) + 1] = o
    BY <2>4, <2>5
  <2>9. ASSUME NEW i \in DOMAIN seen' PROVE Faithful(seen'[i])
    <3>1. CASE i \in 1..Len(seen)
      BY <2>6, <2>7, <3>1 DEF AssetsInv
    <3>2. CASE i = Len(seen) + 1
      BY <2>3, <2>8, <3>2
    <3>3. QED
      BY <2>4, <2>6, <3>1, <3>2
  <2>10. rules' \in Rulings' /\ Rulings' = Rulings
    BY <2>4 DEF AssetsInv, Rulings
  <2>11. QED
    BY <2>4, <2>6, <2>9, <2>10 DEF AssetsInv
<1>2. CASE A!Reload
  <2>1. rules' \in Rulings /\ seen' = seen
    BY <1>2 DEF A!Reload, Rulings
  <2>2. QED
    BY <2>1 DEF AssetsInv
<1>3. CASE UNCHANGED A!vars
  BY <1>3 DEF A!vars, AssetsInv
<1>4. QED
  BY <1>1, <1>2, <1>3 DEF A!Next

\* The rules are in order, and every policy of theirs drops all or does not.
LEMMA RulesTyped ==
    ASSUME rules \in Rulings
    PROVE  /\ DOMAIN rules.query = 1..Len(rules.query) /\ Len(rules.query) \in Nat
           /\ \A i \in DOMAIN rules.query : rules.query[i].policy.dropAll \in BOOLEAN
           /\ rules.global.dropAll \in BOOLEAN
<1>1. PICK c \in Configs : rules = A!NormalizeRules(c)
  BY DEF Rulings
<1> DEFINE ours == {c.query[i] : i \in DOMAIN c.query}
           last == [paths |-> Third, party |-> "", policy |-> A!Policy(FALSE, {}, {"id"})]
           more == IF c.shipped THEN <<last>> ELSE <<>>
           all == ours \cup {last}
<1>2. c.dropAll \in BOOLEAN /\ c.query \in Seq(ours) /\ \A r \in ours : r.policy.dropAll \in BOOLEAN
  BY DeskAssumption DEF A!AssetsAssumption
<1>3. rules.global.dropAll = c.dropAll
  BY <1>1 DEF A!NormalizeRules, A!Policy
<1>4. last.policy.dropAll = FALSE
  BY DEF A!Policy
<1>5. rules.query = c.query \o more
  BY <1>1 DEF A!NormalizeRules
<1> HIDE DEF last, ours
<1>6. more \in Seq(all) /\ c.query \in Seq(all)
  <2>1. last \in all /\ ours \subseteq all
    OBVIOUS
  <2> HIDE DEF all
  <2>2. more \in Seq(all)
    BY <2>1
  <2>3. Seq(ours) \subseteq Seq(all)
    BY <2>1
  <2>4. QED
    BY <1>2, <2>2, <2>3
<1> HIDE DEF more
<1>7. rules.query \in Seq(all)
  BY <1>5, <1>6
<1>8. \A r \in all : r.policy.dropAll \in BOOLEAN
  BY <1>2, <1>4, Zenon
<1> HIDE DEF all
<1>9. DOMAIN rules.query = 1..Len(rules.query) /\ Len(rules.query) \in Nat /\ \A i \in DOMAIN rules.query : rules.query[i] \in all
  BY <1>7
<1>10. QED
  BY <1>2, <1>3, <1>8, <1>9

\* The policy of an address is that of the first rule that is for it.
LEMMA FirstGoverns == ASSUME rules \in Rulings, NEW url PROVE A!FirstScoped(url, A!PartyOf(url)) = A!Governs(url)
<1> DEFINE For(i) == A!Scoped(rules.query[i], url, A!PartyOf(url))
           n == Len(rules.query)
           hits == {i \in DOMAIN rules.query : For(i)}
<1>1. DOMAIN rules.query = 1..n /\ n \in Nat
  BY RulesTyped
<1>2. A!FirstScoped(url, A!PartyOf(url)) = {i \in hits : \A j \in hits : i <= j}
  BY DEF A!FirstScoped
<1>3. A!Governs(url) = {i \in DOMAIN rules.query : For(i) /\ \A j \in 1..i - 1 : ~For(j)}
  BY DEF A!Governs
<1> HIDE DEF For, n
<1>4. {i \in hits : \A j \in hits : i <= j} = {i \in 1..n : For(i) /\ \A j \in 1..i - 1 : ~For(j)}
  BY <1>1
<1>5. QED
  BY <1>1, <1>2, <1>3, <1>4

LEMMA PolicyMeans ==
    ASSUME rules \in Rulings, NEW url, NEW name
    PROVE  A!Kept(A!PolicyFor(url, A!PartyOf(url)), name) <=> A!Means(url, name)
<1> DEFINE q == IF A!Governs(url) = {} THEN rules.global ELSE rules.query[CHOOSE i \in A!Governs(url) : TRUE].policy
<1>1. A!PolicyFor(url, A!PartyOf(url)) = q
  <2>1. A!FirstScoped(url, A!PartyOf(url)) = A!Governs(url)
    BY FirstGoverns
  <2>2. QED
    <3> DEFINE F == A!FirstScoped(url, A!PartyOf(url))
               G == A!Governs(url)
    <3>1. A!PolicyFor(url, A!PartyOf(url)) = IF F = {} THEN rules.global ELSE rules.query[CHOOSE j \in F : TRUE].policy
      BY DEF A!PolicyFor
    <3>2. q = IF G = {} THEN rules.global ELSE rules.query[CHOOSE j \in G : TRUE].policy
      OBVIOUS
    <3>3. F = G
      BY <2>1
    <3> HIDE DEF F, G, q
    <3>4. (CHOOSE j \in F : TRUE) = (CHOOSE j \in G : TRUE)
      BY <3>3
    <3>5. QED
      BY <3>1, <3>2, <3>3, <3>4
<1>2. q.dropAll \in BOOLEAN
  <2>1. CASE A!Governs(url) = {}
    BY <2>1, RulesTyped
  <2>2. CASE A!Governs(url) # {}
    <3>1. (CHOOSE i \in A!Governs(url) : TRUE) \in DOMAIN rules.query
      BY <2>2 DEF A!Governs
    <3>2. QED
      BY <2>2, <3>1, RulesTyped
  <2>3. QED
    BY <2>1, <2>2
<1>3. A!Means(url, name) <=> ~q.dropAll /\ IF q.keep = {} THEN A!Lower(name) \notin q.drop ELSE A!Lower(name) \in q.keep
  BY DEF A!Means
<1> HIDE DEF q
<1>4. A!Kept(q, name) = CASE q.dropAll -> FALSE
                          [] ~q.dropAll /\ q.keep # {} -> A!Lower(name) \in q.keep
                          [] OTHER -> A!Lower(name) \notin q.drop
  BY DEF A!Kept
<1>5. CASE q.dropAll
  BY <1>1, <1>2, <1>3, <1>4, <1>5
<1>6. CASE ~q.dropAll /\ q.keep # {}
  BY <1>1, <1>2, <1>3, <1>4, <1>6
<1>7. CASE ~q.dropAll /\ q.keep = {}
  BY <1>1, <1>2, <1>3, <1>4, <1>7
<1>8. QED
  BY <1>1, <1>5, <1>6, <1>7

LEMMA SameQueries ==
    ASSUME rules \in Rulings, NEW u, NEW v
    PROVE  A!Apply(A!PolicyFor(u, A!PartyOf(u)), A!Query(u.query)) = A!Apply(A!PolicyFor(v, A!PartyOf(v)), A!Query(v.query))
             <=> A!Told(u) = A!Told(v)
<1> DEFINE p == A!Query(u.query)
           q == A!Query(v.query)
           X == {n \in DOMAIN p : A!Means(u, n)}
           Y == {n \in DOMAIN q : A!Means(v, n)}
<1>1. {n \in DOMAIN p : A!Kept(A!PolicyFor(u, A!PartyOf(u)), n)} = X
  BY PolicyMeans
<1>2. {n \in DOMAIN q : A!Kept(A!PolicyFor(v, A!PartyOf(v)), n)} = Y
  BY PolicyMeans
<1>3. A!Apply(A!PolicyFor(u, A!PartyOf(u)), p) = [n \in X |-> p[n]]
  BY <1>1 DEF A!Apply
<1>4. A!Apply(A!PolicyFor(v, A!PartyOf(v)), q) = [n \in Y |-> q[n]]
  BY <1>2 DEF A!Apply
<1>5. A!Told(u) = {<<n, p[n]>> : n \in X} /\ A!Told(v) = {<<n, q[n]>> : n \in Y}
  BY DEF A!Told
<1> HIDE DEF X, Y, p, q
<1>6. [n \in X |-> p[n]] = [n \in Y |-> q[n]] <=> {<<n, p[n]>> : n \in X} = {<<n, q[n]>> : n \in Y}
  <2>1. ASSUME [n \in X |-> p[n]] = [n \in Y |-> q[n]] PROVE {<<n, p[n]>> : n \in X} = {<<n, q[n]>> : n \in Y}
    <3>1. X = Y /\ \A n \in X : p[n] = q[n]
      <4>1. DOMAIN [n \in X |-> p[n]] = X /\ DOMAIN [n \in Y |-> q[n]] = Y
        OBVIOUS
      <4>2. X = Y
        BY <2>1, <4>1
      <4>3. ASSUME NEW n \in X PROVE p[n] = q[n]
        <5>1. [m \in X |-> p[m]][n] = p[n] /\ [m \in Y |-> q[m]][n] = q[n]
          BY <4>2
        <5>2. QED
          BY <2>1, <5>1
      <4>4. QED
        BY <4>2, <4>3
    <3>2. QED
      BY <3>1
  <2>2. ASSUME {<<n, p[n]>> : n \in X} = {<<n, q[n]>> : n \in Y} PROVE [n \in X |-> p[n]] = [n \in Y |-> q[n]]
    <3>1. \A n \in X : n \in Y /\ p[n] = q[n]
      <4> TAKE n \in X
      <4>1. <<n, p[n]>> \in {<<m, q[m]>> : m \in Y}
        BY <2>2
      <4>2. QED
        BY <4>1
    <3>2. \A n \in Y : n \in X
      <4> TAKE n \in Y
      <4>1. <<n, q[n]>> \in {<<m, p[m]>> : m \in X}
        BY <2>2
      <4>2. QED
        BY <4>1
    <3>3. X = Y
      BY <3>1, <3>2
    <3>4. QED
      BY <3>1, <3>3
  <2>3. QED
    BY <2>1, <2>2
<1>7. QED
  BY <1>3, <1>4, <1>5, <1>6 DEF p, q

\* An observation is keyed again by the rules in force; an opaque key stays as it is.
LEMMA KeyedAgain ==
    ASSUME NEW o, Faithful(o)
    PROVE  A!Rekey(o) = A!Key(o.full, A!PartyOf(o.full))
<1>1. o.full \in Urls /\ o.url = A!Stored(o.full) /\ o.party = A!PartyOf(o.full)
      /\ (A!Opaque(o.full) => o.key = A!OpaqueKey(o.full))
  BY DEF Faithful
<1>2. "kind" \in DOMAIN o.full
  BY <1>1, DeskAssumption DEF A!AssetsAssumption
<1>3. CASE o.full.kind = "web"
  <2>1. o.url = o.full /\ ~A!Opaque(o.url)
    BY <1>1, <1>3 DEF A!Stored, A!Opaque
  <2>2. QED
    BY <1>1, <2>1 DEF A!Rekey
<1>4. CASE o.full.kind # "web"
  <2>1. o.url.kind = o.full.kind
    BY <1>1, <1>2 DEF A!Stored
  <2>2. A!Opaque(o.url) /\ A!Opaque(o.full)
    BY <1>4, <2>1 DEF A!Opaque
  <2>3. A!Rekey(o) = A!OpaqueKey(o.full)
    BY <1>1, <2>2 DEF A!Rekey
  <2>4. QED
    BY <2>2, <2>3 DEF A!Key
<1>5. QED
  BY <1>3, <1>4

LEMMA SamePorts ==
    ASSUME NEW u, NEW v, u.scheme = v.scheme
    PROVE  A!NormalizePort(u) = A!NormalizePort(v)
             <=> u.port = v.port \/ {u.port, v.port} = {"", A!DefaultPort[u.scheme]}
<1> DEFINE d == A!DefaultPort[u.scheme]
           x == u.port
           y == v.port
<1>1. A!NormalizePort(u) = (IF x = d THEN "" ELSE x) /\ A!NormalizePort(v) = IF y = d THEN "" ELSE y
  BY DEF A!NormalizePort
<1> HIDE DEF d, x, y
<1>2. ({x, y} = {"", d}) <=> (x = "" /\ y = d) \/ (x = d /\ y = "")
  BY Zenon
<1>3. (IF x = d THEN "" ELSE x) = (IF y = d THEN "" ELSE y) <=> x = y \/ (x = "" /\ y = d) \/ (x = d /\ y = "")
  OBVIOUS
<1>4. (A!NormalizePort(u) = A!NormalizePort(v)) <=> x = y \/ {x, y} = {"", d}
  <2>1. (A!NormalizePort(u) = A!NormalizePort(v)) <=> x = y \/ (x = "" /\ y = d) \/ (x = d /\ y = "")
    <3> DEFINE p == A!NormalizePort(u)
               q == A!NormalizePort(v)
    <3>1. p = (IF x = d THEN "" ELSE x) /\ q = (IF y = d THEN "" ELSE y)
      BY <1>1, Zenon
    <3> HIDE DEF p, q
    <3>2. p = q <=> x = y \/ (x = "" /\ y = d) \/ (x = d /\ y = "")
      BY <3>1
    <3>3. QED
      BY <3>2 DEF p, q
  <2>2. QED
    BY <1>2, <2>1, Zenon
<1>5. QED
  BY <1>4 DEF x, y, d

LEMMA SameKeys ==
    ASSUME rules \in Rulings, NEW u, NEW v
    PROVE  A!Key(u, A!PartyOf(u)) = A!Key(v, A!PartyOf(v)) <=> A!Alike(u, v)
<1> DEFINE k == A!Key(u, A!PartyOf(u))
           l == A!Key(v, A!PartyOf(v))
           qu == A!Apply(A!PolicyFor(u, A!PartyOf(u)), A!Query(u.query))
           qv == A!Apply(A!PolicyFor(v, A!PartyOf(v)), A!Query(v.query))
<1>1. CASE u.kind # v.kind
  <2>1. k.kind = u.kind
    BY DEF A!Key, A!Opaque, A!OpaqueKey, A!WebKey
  <2>2. l.kind = v.kind
    BY DEF A!Key, A!Opaque, A!OpaqueKey, A!WebKey
  <2>3. k # l
    BY <1>1, <2>1, <2>2
  <2>4. ~A!Alike(u, v)
    BY <1>1 DEF A!Alike
  <2>5. QED
    BY <2>3, <2>4
<1>2. CASE u.kind = "web" /\ v.kind = "web"
  <2>1. k = [kind |-> "web", site |-> <<u.scheme, A!NormalizePort(u)>>, user |-> u.user, path |-> A!NormalizePath(u.path), query |-> qu]
    BY <1>2 DEF A!Key, A!Opaque, A!WebKey
  <2>2. l = [kind |-> "web", site |-> <<v.scheme, A!NormalizePort(v)>>, user |-> v.user, path |-> A!NormalizePath(v.path), query |-> qv]
    BY <1>2 DEF A!Key, A!Opaque, A!WebKey
  <2>3. (qu = qv) <=> (A!Told(u) = A!Told(v))
    BY SameQueries
  <2>4. A!Alike(u, v) <=> /\ u.scheme = v.scheme /\ u.user = v.user /\ A!NormalizePath(u.path) = A!NormalizePath(v.path)
                          /\ u.port = v.port \/ {u.port, v.port} = {"", A!DefaultPort[u.scheme]}
                          /\ A!Told(u) = A!Told(v)
    BY <1>2 DEF A!Alike
  <2> HIDE DEF k, l, qu, qv
  <2>5. k = l <=> /\ u.scheme = v.scheme /\ A!NormalizePort(u) = A!NormalizePort(v) /\ u.user = v.user
                  /\ A!NormalizePath(u.path) = A!NormalizePath(v.path) /\ qu = qv
    BY <2>1, <2>2
  <2>6. k = l <=> A!Alike(u, v)
    BY <2>3, <2>4, <2>5, SamePorts
  <2>7. QED
    BY <2>6 DEF k, l
<1>3. CASE u.kind = v.kind /\ u.kind \in {"data", "blob"}
  <2>1. k = [kind |-> u.kind, site |-> <<>>, user |-> FALSE, path |-> u.path, query |-> <<>>]
    BY <1>3 DEF A!Key, A!Opaque, A!OpaqueKey
  <2>2. l = [kind |-> v.kind, site |-> <<>>, user |-> FALSE, path |-> v.path, query |-> <<>>]
    BY <1>3 DEF A!Key, A!Opaque, A!OpaqueKey
  <2>3. A!Alike(u, v) <=> u.path = v.path
    BY <1>3 DEF A!Alike
  <2> HIDE DEF k, l
  <2>4. k = l <=> u.path = v.path
    BY <1>3, <2>1, <2>2
  <2>5. QED
    BY <2>3, <2>4 DEF k, l
<1>4. CASE u.kind = v.kind /\ u.kind \notin {"web", "data", "blob"}
  <2>1. k = [kind |-> u.kind, site |-> <<>>, user |-> FALSE, path |-> u.path, query |-> <<u.payload>>]
    BY <1>4 DEF A!Key, A!Opaque, A!OpaqueKey
  <2>2. l = [kind |-> v.kind, site |-> <<>>, user |-> FALSE, path |-> v.path, query |-> <<v.payload>>]
    BY <1>4 DEF A!Key, A!Opaque, A!OpaqueKey
  <2>3. A!Alike(u, v) <=> u.path = v.path /\ u.payload = v.payload
    BY <1>4 DEF A!Alike
  <2> HIDE DEF k, l
  <2>4. k = l <=> u.path = v.path /\ u.payload = v.payload
    BY <1>4, <2>1, <2>2
  <2>5. QED
    BY <2>3, <2>4 DEF k, l
<1>5. QED
  BY <1>1, <1>2, <1>3, <1>4

LEMMA AssetsFollow == ASSUME AssetsInv PROVE A!AssetsFollowTheRules
<1> SUFFICES ASSUME Len(seen) = 2 PROVE A!Same <=> A!Alike(A!Was.full, A!Now.full)
  BY DEF A!AssetsFollowTheRules
<1>1. Faithful(seen[1]) /\ Faithful(seen[2])
  <2>1. PICK T : seen \in Seq(T)
    BY DEF AssetsInv
  <2>2. 1 \in DOMAIN seen /\ 2 \in DOMAIN seen
    BY <2>1
  <2>3. QED
    BY <2>2 DEF AssetsInv
<1>2. /\ A!Rekey(seen[1]) = A!Key(seen[1].full, A!PartyOf(seen[1].full))
      /\ A!Rekey(seen[2]) = A!Key(seen[2].full, A!PartyOf(seen[2].full))
  BY <1>1, KeyedAgain
<1>3. rules \in Rulings
  BY DEF AssetsInv
<1>4. A!Key(seen[1].full, A!PartyOf(seen[1].full)) = A!Key(seen[2].full, A!PartyOf(seen[2].full))
        <=> A!Alike(seen[1].full, seen[2].full)
  BY <1>3, SameKeys
<1>5. QED
  BY <1>2, <1>4 DEF A!Same, A!Was, A!Now

LEMMA ChangesAreReal == ASSUME AssetsInv PROVE A!ScriptChangesAreReal
<1> DEFINE w == A!Was
           n == A!Now
<1> SUFFICES ASSUME Len(seen) = 2, w.body # A!Unread, n.body # A!Unread
             PROVE  /\ A!ScriptChanged /\ ~A!Replaced => w.body # n.body
                    /\ A!ScriptChanged /\ w.read = n.read /\ w.identity # NoName => w.identity # n.identity
                    /\ A!Same /\ ~A!Asked /\ w.body.bytes # n.body.bytes => A!ScriptChanged \/ A!VolatileBody(n.url)
  BY DEF A!ScriptChangesAreReal
<1>1. Faithful(w) /\ Faithful(n)
  <2>1. PICK T : seen \in Seq(T)
    BY DEF AssetsInv
  <2>2. 1 \in DOMAIN seen /\ 2 \in DOMAIN seen
    BY <2>1
  <2>3. QED
    BY <2>2 DEF AssetsInv, A!Was, A!Now
<1> DEFINE Of(o) == IF o.read = {} THEN NoName ELSE o.body[(CHOOSE r \in o.read : TRUE).reads]
           asked == w.identity # NoName \/ n.identity # NoName
<1>2. /\ w.digest = w.body.bytes /\ w.body \in Bodies /\ w.identity = Of(w)
      /\ n.digest = n.body.bytes /\ n.body \in Bodies /\ n.identity = Of(n)
  BY <1>1 DEF Faithful
<1>3. w.digest # NoName /\ n.digest # NoName
  BY <1>2, DeskAssumption DEF A!AssetsAssumption
<1>4. A!Comparable(w, n) = IF asked THEN <<w.identity, n.identity>> ELSE <<w.digest, n.digest>>
  BY DEF A!Comparable
<1>5. A!ScriptChanged <=> /\ A!Same /\ ~A!VolatileBody(n.url)
                          /\ A!Comparable(w, n)[1] # NoName /\ A!Comparable(w, n)[2] # NoName
                          /\ A!Comparable(w, n)[1] # A!Comparable(w, n)[2]
  BY DEF A!ScriptChanged
<1>6. A!Replaced <=> w.read # {} /\ n.read # {} /\ w.read # n.read
  BY DEF A!Replaced
<1>7. A!Asked <=> w.read # {} \/ n.read # {}
  BY DEF A!Asked
<1>8. w.read = {} => w.identity = NoName
  BY <1>2
<1>9. n.read = {} => n.identity = NoName
  BY <1>2
<1>10. w.read = n.read /\ w.body = n.body => w.identity = n.identity
  BY <1>2
<1> HIDE DEF w, n, Of
<1>11. CASE asked
  <2>1. A!Comparable(w, n)[1] = w.identity /\ A!Comparable(w, n)[2] = n.identity
    BY <1>4, <1>11
  <2>2. A!ScriptChanged => w.identity # NoName /\ n.identity # NoName /\ w.identity # n.identity
    BY <1>5, <2>1
  <2>3. A!Asked
    BY <1>7, <1>8, <1>9, <1>11
  <2>4. A!ScriptChanged /\ ~A!Replaced => w.body # n.body
    BY <1>6, <1>8, <1>9, <1>10, <2>2
  <2>5. QED
    BY <2>2, <2>3, <2>4
<1>12. CASE ~asked
  <2>1. A!Comparable(w, n)[1] = w.digest /\ A!Comparable(w, n)[2] = n.digest
    BY <1>4, <1>12
  <2>2. A!ScriptChanged => w.body # n.body
    BY <1>2, <1>5, <2>1
  <2>3. A!Same /\ w.body.bytes # n.body.bytes => A!ScriptChanged \/ A!VolatileBody(n.url)
    BY <1>2, <1>3, <1>5, <2>1
  <2>4. w.identity = NoName
    BY <1>12
  <2>5. QED
    BY <2>2, <2>3, <2>4
<1>13. QED
  BY <1>11, <1>12

LEMMA AssetsPromise == ASSUME AssetsInv PROVE A!TypeOK /\ A!AssetsFollowTheRules /\ A!ScriptChangesAreReal
<1>1. A!TypeOK
  BY DEF AssetsInv, Rulings, Faithful, A!TypeOK
<1>2. QED
  BY <1>1, AssetsFollow, ChangesAreReal

-----------------------------------------------------------------------------
(* The machines together: a behaviour is of one of them.                     *)

SumInv == /\ part = "desk" => DeskInv
          /\ part = "drift" => DriftInv
          /\ part = "boxes" => BoxesInv
          /\ part = "reload" => ReloadInv
          /\ part = "shares" => SharesInv
          /\ part = "settings" => SettingsInv
          /\ part = "assets" => AssetsInv

LEMMA SumStart == Init => SumInv
BY DeskStart, DriftStart, BoxesStart, ReloadStart, SharesStart, SettingsStart, AssetsStart DEF Init, SumInv

\* A step is of the machine of its behaviour, which takes it or stutters.
LEMMA SumStep ==
    ASSUME [Next]_vars
    PROVE  /\ part' = part
           /\ part = "desk" => [U!Next]_U!vars
           /\ part = "drift" => [D!Next]_D!vars
           /\ part = "boxes" => [C!Next]_C!vars
           /\ part = "reload" => [R!Next]_R!vars
           /\ part = "shares" => [S!Next]_S!vars
           /\ part = "settings" => [L!Next]_file
           /\ part = "assets" => [A!Next]_A!vars
<1>1. CASE Next
  BY <1>1 DEF Next
<1>2. CASE UNCHANGED vars
  <2>1. /\ UNCHANGED <<part, now, stored, file, rules, seen>>
        /\ UNCHANGED <<press, budget, live, admitted, knew>>
        /\ UNCHANGED <<basis, base, gone, latest, report, known>>
        /\ UNCHANGED <<pid, at, kind, tried, runtime, listed, held, box, by, left, taken>>
        /\ UNCHANGED <<disk, hup, pc, next, start, app, daemon, certPaths, cert, reading, edits, hups>>
        /\ UNCHANGED <<written, inUse, rotated, swapped, noSigning, links, request, signed, reads>>
    BY <1>2 DEF vars, deskVars, driftVars, boxVars, reloadVars, shareVars
  <2>2. UNCHANGED U!vars /\ UNCHANGED D!vars
    BY <2>1 DEF U!vars, D!vars
  <2>3. UNCHANGED C!vars
    BY <2>1 DEF C!vars, C!procVars, C!boxVars
  <2>4. UNCHANGED R!vars
    BY <2>1 DEF R!vars
  <2>5. UNCHANGED S!vars
    BY <2>1 DEF S!vars
  <2>6. UNCHANGED file /\ UNCHANGED A!vars
    BY <2>1 DEF A!vars
  <2>7. QED
    BY <2>1, <2>2, <2>3, <2>4, <2>5, <2>6
<1>3. QED
  BY <1>1, <1>2

LEMMA SumKeeps == ASSUME SumInv, [Next]_vars PROVE SumInv'
<1>1. part' = part
  BY SumStep
<1>2. (part = "desk" => DeskInv)'
  BY <1>1, SumStep, DeskStep DEF SumInv
<1>3. (part = "drift" => DriftInv)'
  BY <1>1, SumStep, DriftStep DEF SumInv
<1>4. (part = "boxes" => BoxesInv)'
  BY <1>1, SumStep, BoxesStep DEF SumInv
<1>5. (part = "reload" => ReloadInv)'
  BY <1>1, SumStep, ReloadStep DEF SumInv
<1>6. (part = "shares" => SharesInv)'
  BY <1>1, SumStep, SharesStep DEF SumInv
<1>7. (part = "settings" => SettingsInv)'
  BY <1>1, SumStep, SettingsStep DEF SumInv
<1>8. (part = "assets" => AssetsInv)'
  BY <1>1, SumStep, AssetsStep DEF SumInv
<1>9. QED
  BY <1>2, <1>3, <1>4, <1>5, <1>6, <1>7, <1>8 DEF SumInv

LEMMA SumHolds == Spec => []SumInv
BY SumStart, SumKeeps, PTL DEF Spec

\* Typed addresses are scanned within the rolling budget, however presses overlap, and
\* never sooner than the minimum apart as far as the store knew when they asked
\* (handleScanURL, urlScanBudget).
THEOREM BudgetIsKept == Spec => []DeskHolds
<1>1. SumInv => DeskHolds
  BY DeskPromise DEF SumInv, DeskHolds
<1>2. QED
  BY <1>1, SumHolds, PTL

\* No host slips into what later scans are compared with; what a comparison reports as
\* removed is, or the report says it may not be; and a scan it calls degraded is never
\* banded as one to be trusted (Compare, removalUnprovable, Score).
THEOREM NothingIsMissed == Spec => []DriftIsReported
<1>1. SumInv => DriftIsReported
  BY DriftPromise DEF SumInv, DriftIsReported
<1>2. QED
  BY <1>1, SumHolds, PTL

\* A live process's browser is never reaped, whatever pids are used again, and what is left
\* on the host was lost by a failure that is known (Reap, Launch, Start).
THEOREM LiveBrowsersAreSpared == Spec => []BoxesAreAccounted
<1>1. SumInv => BoxesAreAccounted
  BY BoxesPromise DEF SumInv, BoxesAreAccounted
<1>2. QED
  BY <1>1, SumHolds, PTL

\* A link opens the one scan it was made for, and what it lets out ends with it, but for
\* the time of one signature (share, withdraw, rotation).
THEOREM LinksEnd == Spec => []SharesHold
<1>1. SumInv => SharesHold
  BY SharesPromise DEF SumInv, SharesHold
<1>2. QED
  BY <1>1, SumHolds, PTL

\* Where the longest waits there may be fit a duration, a file that is accepted gives a
\* target one schedule, that of the nearest level that has one, retries of its own that are
\* over before its next scan, and a window that its samples fall in (Config.Validate).
THEOREM SettingsAreSound == ASSUME WaitsFit PROVE Spec => []SettingsWork
<1>1. SumInv => SettingsWork
  BY SettingsHold DEF SumInv, SettingsWork
<1>2. QED
  BY <1>1, SumHolds, PTL

\* Two scans saw one asset exactly when the rules now in force take their addresses for one,
\* whatever rules each was made under, and a script changed when its body has, unless the
\* rule that reads its version was replaced in between (Rekey, compareScripts).
THEOREM AssetsAreTold == Spec => []AssetsFollowRules
<1>1. SumInv => AssetsFollowRules
  BY AssetsPromise DEF SumInv, AssetsFollowRules
<1>2. QED
  BY <1>1, SumHolds, PTL

\* A reload is adopted whole or not at all, and a certificate is replaced only by one that
\* matches its key and has not expired, whatever the files go through meanwhile
\* (reload, certReloader.attempt).
THEOREM ReloadsAreWhole == Spec => ReloadIsSafe
<1>1. ASSUME SumInv, SumInv', [Next]_vars
      PROVE  [part = "reload" => (R!TypeOK /\ R!AdoptedWhole)' /\ R!TakesTheSound]_vars
  <2> SUFFICES ASSUME part = "reload" PROVE (R!TypeOK /\ R!AdoptedWhole)' /\ R!TakesTheSound
    OBVIOUS
  <2>1. [R!Next]_R!vars /\ part' = part
    BY <1>1, SumStep
  <2>2. ReloadInv' /\ R!TakesTheSound
    BY <1>1, <2>1, ReloadStep DEF SumInv
  <2>3. (R!TypeOK /\ R!AdoptedWhole)'
    BY <2>2, ReloadPromise, PTL
  <2>4. QED
    BY <2>2, <2>3
<1>2. QED
  BY <1>1, SumHolds, PTL DEF Spec, ReloadIsSafe
================================================================================
