------------------------------ MODULE StorageProofs ------------------------------
(* What Storage promises, for every value of its constants: of the image in    *)
(* service, of the forms of an artifact, of a rebuilt index, of an upgrade and *)
(* of what retention keeps.  Each machine has an inductive invariant and a     *)
(* lemma per action; the theorems at the end put the five together.            *)
EXTENDS Storage, TLAPS, FiniteSetTheorems, WellFoundedInduction

\* SchemaMigration and KeepRules count with operators of their own.
LEMMA Finite == \A S : (M!IsFiniteSet(S) <=> IsFiniteSet(S)) /\ (K!IsFiniteSet(S) <=> IsFiniteSet(S))
BY DEF M!IsFiniteSet, K!IsFiniteSet, IsFiniteSet

LEMMA Counting == \A S : M!Cardinality(S) = Cardinality(S) /\ K!Cardinality(S) = Cardinality(S)
BY DEF M!Cardinality, K!Cardinality, Cardinality

LEMMA Least == ASSUME NEW S, S \subseteq Nat, S # {} PROVE \E m \in S : \A l \in S : m <= l
<1> DEFINE U == OpToRel(<, Nat)
<1>1. \A x, y \in Nat : <<y, x>> \in U <=> y < x
  BY DEF OpToRel
<1>2. IsWellFoundedOn(U, Nat)
  BY NatLessThanWellFounded
<1> HIDE DEF U
<1>3. PICK m \in S : \A l \in S : ~ (<<l, m>> \in U)
  BY <1>2, WFMin
<1>4. m \in Nat /\ \A l \in S : l \in Nat /\ ~ (l < m)
  BY <1>1, <1>3
<1>5. \A l \in S : m <= l
  BY <1>4
<1>6. QED
  BY <1>5

-----------------------------------------------------------------------------
(* ArtifactForms: the forms of an artifact.                                   *)

Said == {"none", "found", "absent"}
ClientType == [op : F!Ops, at : F!ClientAt, form : F!Forms, compress : BOOLEAN, answer : Said]

-----------------------------------------------------------------------------
(* The inductive invariant.                                                  *)

FormsTyped ==
    /\ held \in [F!Forms -> {"good", "bad", "absent"}]
    /\ worth \in BOOLEAN /\ wanted \in BOOLEAN /\ overlapped \in BOOLEAN
    /\ client \in [Clients -> ClientType] /\ compactor \in [Compactors -> F!CompactorAt]
    /\ \A c \in Clients : /\ client[c].at = "write" => client[c].op = "put"
                          /\ client[c].op \in {"put", "remove"} => client[c].answer = "none"

Under(c, op) == client[c].at # "rest" /\ client[c].op = op
\* What is being removed is wanted by nobody, and nobody is about to store it.
Claims == \A c \in Clients : Under(c, "remove") => ~wanted /\ \A d \in Clients : ~Under(d, "put")

Compacts(p) == compactor[p] # "rest"
\* Unless they overlapped, a compaction has the artifact to itself, ...
Alone == ~overlapped => \A p \in Compactors : Compacts(p) =>
    /\ \A q \in Compactors : Compacts(q) => q = p
    /\ \A c \in Clients : ~Under(c, "remove")
\* ... so that one form stays good while the other is written or removed.
Sound == ~overlapped => \A p \in Compactors :
    /\ compactor[p] \in {"write", "verify", "undo"} => held["plain"] = "good"
    /\ compactor[p] = "unlink" => held["packed"] = "good"
FormsInv == FormsTyped /\ Claims /\ Alone /\ Sound

-----------------------------------------------------------------------------
(* Requests of clients.                                                      *)

LEMMA ClientFields ==
    ASSUME NEW r \in ClientType, NEW place \in F!ClientAt, NEW what \in Said, NEW f \in F!Forms
    PROVE  /\ r.op \in F!Ops /\ r.form \in F!Forms /\ r.answer \in Said /\ r.at \in F!ClientAt
           /\ [r EXCEPT !.at = place] \in ClientType
           /\ [r EXCEPT !.at = place, !.answer = what] \in ClientType
           /\ [r EXCEPT !.at = place, !.form = f] \in ClientType
BY DEF ClientType

\* A client of which c's request becomes r.
Becomes(c, r) ==
    /\ client' = [client EXCEPT ![c] = r] /\ r \in ClientType
    /\ r.op = client[c].op /\ client[c].at # "rest"
    /\ r.at = "write" => r.op = "put"
    /\ r.op \in {"put", "remove"} => r.answer = "none"

LEMMA MovesBecomes ==
    ASSUME FormsTyped, NEW c \in Clients, NEW place \in F!ClientAt, F!Moves(c, place), client[c].at # "rest",
           place = "write" => client[c].op = "put"
    PROVE  Becomes(c, [client[c] EXCEPT !.at = place])
<1>1. client[c] \in ClientType
  BY DEF FormsTyped
<1>2. [client[c] EXCEPT !.at = place] \in ClientType
  BY <1>1, ClientFields DEF Said, F!Forms
<1>3. client' = [client EXCEPT ![c] = [client[c] EXCEPT !.at = place]]
  BY DEF F!Moves
<1>4. /\ [client[c] EXCEPT !.at = place].op = client[c].op
      /\ [client[c] EXCEPT !.at = place].at = place
      /\ [client[c] EXCEPT !.at = place].answer = client[c].answer
  BY <1>1 DEF ClientType
<1>5. QED
  BY <1>2, <1>3, <1>4 DEF Becomes, FormsTyped

LEMMA AnswersBecomes ==
    ASSUME FormsTyped, NEW c \in Clients, NEW what \in Said, F!Answers(c, what), client[c].at # "rest",
           client[c].op \in {"put", "remove"} => what = "none"
    PROVE  Becomes(c, [client[c] EXCEPT !.at = "rest", !.answer = what])
<1>1. client[c] \in ClientType
  BY DEF FormsTyped
<1>2. [client[c] EXCEPT !.at = "rest", !.answer = what] \in ClientType
  BY <1>1, ClientFields DEF F!ClientAt, F!Forms
<1>3. client' = [client EXCEPT ![c] = [client[c] EXCEPT !.at = "rest", !.answer = what]]
  BY <1>1 DEF F!Answers, FormsTyped
<1>4. /\ [client[c] EXCEPT !.at = "rest", !.answer = what].op = client[c].op
      /\ [client[c] EXCEPT !.at = "rest", !.answer = what].at = "rest"
      /\ [client[c] EXCEPT !.at = "rest", !.answer = what].answer = what
  BY <1>1 DEF ClientType
<1>5. QED
  BY <1>2, <1>3, <1>4 DEF Becomes

\* A request that goes on is of the operation it was, and only one that was under way goes on.
LEMMA RequestGoesOn ==
    ASSUME FormsTyped, NEW c \in Clients, NEW r, Becomes(c, r)
    PROVE  /\ client' \in [Clients -> ClientType]
           /\ \A d \in Clients : /\ client'[d].at = "write" => client'[d].op = "put"
                                 /\ client'[d].op \in {"put", "remove"} => client'[d].answer = "none"
           /\ \A d \in Clients, op \in F!Ops : Under(d, op)' => Under(d, op)
<1>1. client'[c] = r /\ \A d \in Clients \ {c} : client'[d] = client[d]
  BY DEF FormsTyped, Becomes
<1>2. client' \in [Clients -> ClientType]
  BY DEF FormsTyped, Becomes
<1>3. \A d \in Clients : /\ client'[d].at = "write" => client'[d].op = "put"
                         /\ client'[d].op \in {"put", "remove"} => client'[d].answer = "none"
  BY <1>1 DEF FormsTyped, Becomes
<1>4. \A d \in Clients, op \in F!Ops : Under(d, op)' => Under(d, op)
  BY <1>1 DEF Under, Becomes
<1>5. QED
  BY <1>2, <1>3, <1>4

\* A client's step that takes nothing from the bucket, unless nobody wants it.
LEMMA ClientKeeps ==
    ASSUME FormsInv, NEW c \in Clients, NEW r, Becomes(c, r), UNCHANGED <<worth, compactor, overlapped>>,
           held' \in [F!Forms -> {"good", "bad", "absent"}],
           \A f \in F!Forms : held[f] = "good" => held'[f] = "good" \/ Under(c, "remove"),
           wanted' \in BOOLEAN, wanted' => wanted \/ Under(c, "put")
    PROVE  FormsInv' /\ F!KeepsEvidence
<1>1. /\ client' \in [Clients -> ClientType]
      /\ \A d \in Clients : /\ client'[d].at = "write" => client'[d].op = "put"
                            /\ client'[d].op \in {"put", "remove"} => client'[d].answer = "none"
      /\ \A d \in Clients, op \in F!Ops : Under(d, op)' => Under(d, op)
  BY RequestGoesOn DEF FormsInv
<1>2. FormsTyped'
  BY <1>1 DEF FormsInv, FormsTyped
<1>3. \A d \in Clients : /\ Under(d, "remove")' => Under(d, "remove")
                         /\ Under(d, "put")' => Under(d, "put")
  BY <1>1 DEF F!Ops
<1>4. Claims'
  BY <1>3 DEF FormsInv, Claims
<1>5. Alone'
  BY <1>3 DEF FormsInv, Alone, Compacts
<1>6. Sound'
  <2>1. SUFFICES ASSUME ~overlapped, NEW p \in Compactors, Compacts(p)
                 PROVE  /\ compactor[p] \in {"write", "verify", "undo"} => held'["plain"] = "good"
                        /\ compactor[p] = "unlink" => held'["packed"] = "good"
    BY DEF Sound, Compacts
  <2>2. ~Under(c, "remove")
    BY <2>1 DEF FormsInv, Alone
  <2>3. QED
    BY <2>1, <2>2 DEF FormsInv, Sound, F!Forms
<1>7. F!KeepsEvidence
  <2>1. CASE Under(c, "remove")
    BY <2>1 DEF F!KeepsEvidence, FormsInv, Claims
  <2>2. CASE ~Under(c, "remove")
    BY <2>2 DEF F!KeepsEvidence, F!Evidence
  <2>3. QED
    BY <2>1, <2>2
<1>8. QED
  BY <1>2, <1>4, <1>5, <1>6, <1>7 DEF FormsInv

\* A client's step that only moves on.
LEMMA ClientMoves ==
    ASSUME FormsInv, NEW c \in Clients, NEW r, Becomes(c, r), UNCHANGED <<held, worth, compactor, overlapped>>,
           wanted' \in BOOLEAN, wanted' => wanted \/ Under(c, "put")
    PROVE  FormsInv' /\ F!KeepsEvidence
BY ClientKeeps DEF FormsInv, FormsTyped

LEMMA FormsAreTwo == \A f \in F!Forms : F!Other(f) \in F!Forms /\ F!Other(f) # f
<1>1. \A f \in F!Forms : \E g \in F!Forms : g # f
  BY DEF F!Forms
<1>2. QED
  BY <1>1 DEF F!Other

\* A request begins on what nobody is removing, or on what nobody wants.
LEMMA BeginKeeps == ASSUME FormsInv, NEW c \in Clients, F!Begin(c) PROVE FormsInv' /\ F!KeepsEvidence
<1>1. PICK op \in F!Ops, compress \in BOOLEAN : \E f \in F!StoredFirst(compress) :
        /\ client[c].at = "rest" /\ ~F!Excluded(op)
        /\ client' = [client EXCEPT ![c] = [op |-> op, at |-> "first", form |-> f,
                                            compress |-> compress, answer |-> "none"]]
        /\ overlapped' = (overlapped \/ (op = "remove" /\ \E p \in Compactors : compactor[p] # "rest"))
        /\ UNCHANGED <<held, worth, wanted, compactor>>
  BY DEF F!Begin
<1>2. PICK f \in F!Forms :
        client' = [client EXCEPT ![c] = [op |-> op, at |-> "first", form |-> f,
                                         compress |-> compress, answer |-> "none"]]
  BY <1>1 DEF F!StoredFirst, F!Forms
<1>3. /\ client[c].at = "rest" /\ UNCHANGED <<held, worth, wanted, compactor>>
      /\ overlapped' <=> overlapped \/ (op = "remove" /\ \E p \in Compactors : compactor[p] # "rest")
      /\ overlapped' \in BOOLEAN
  BY <1>1 DEF FormsInv, FormsTyped
<1> DEFINE r == [op |-> op, at |-> "first", form |-> f, compress |-> compress, answer |-> "none"]
<1>4. r \in ClientType /\ r.op = op /\ r.at = "first" /\ r.answer = "none"
  BY DEF ClientType, F!ClientAt, Said
<1> HIDE DEF r
<1>5. client'[c] = r /\ (\A d \in Clients \ {c} : client'[d] = client[d]) /\ client' \in [Clients -> ClientType]
  BY <1>2, <1>4 DEF FormsInv, FormsTyped, r
<1>6. FormsTyped'
  BY <1>3, <1>4, <1>5 DEF FormsInv, FormsTyped
<1>7. \A d \in Clients : /\ Under(d, "remove")' => Under(d, "remove") \/ (d = c /\ op = "remove")
                         /\ Under(d, "put")' => Under(d, "put") \/ (d = c /\ op = "put")
  BY <1>4, <1>5 DEF Under
<1>8. op = "remove" => ~wanted /\ \A d \in Clients : ~Under(d, "put")
  BY <1>1 DEF F!Excluded, Under
<1>9. op = "put" => \A d \in Clients : ~Under(d, "remove")
  BY <1>1 DEF F!Excluded, Under
<1>10. Claims'
  BY <1>3, <1>7, <1>8, <1>9 DEF FormsInv, Claims
<1>11. Alone'
  BY <1>3, <1>7 DEF FormsInv, Alone, Compacts
<1>12. Sound'
  BY <1>3 DEF FormsInv, Sound
<1>13. F!KeepsEvidence
  BY <1>3 DEF F!KeepsEvidence, F!Evidence
<1>14. QED
  BY <1>6, <1>10, <1>11, <1>12, <1>13 DEF FormsInv

LEMMA ClientSteps == ASSUME FormsInv, NEW c \in Clients, F!ClientStep(c) PROVE FormsInv' /\ F!KeepsEvidence
<1>0. FormsTyped /\ client[c] \in ClientType /\ wanted \in BOOLEAN
  BY DEF FormsInv, FormsTyped
<1>1. CASE F!Begin(c)
  BY <1>1, BeginKeeps
<1>2. CASE F!ProbeFirst(c)
  <2> DEFINE place == IF F!Held(client[c].form) THEN "act" ELSE "second"
             form == IF F!Held(client[c].form) THEN client[c].form ELSE F!Other(client[c].form)
             r == [client[c] EXCEPT !.at = place, !.form = form]
  <2>1. client' = [client EXCEPT ![c] = r]
    BY <1>0, <1>2 DEF F!ProbeFirst, FormsTyped
  <2>2. place \in F!ClientAt /\ place # "write" /\ form \in F!Forms
    BY <1>0, ClientFields, FormsAreTwo DEF F!ClientAt, F!Forms, ClientType
  <2> HIDE DEF place, form
  <2>3. r \in ClientType /\ r.op = client[c].op /\ r.at = place /\ r.answer = client[c].answer
    BY <1>0, <2>2 DEF ClientType
  <2>4. Becomes(c, r)
    BY <1>0, <1>2, <2>1, <2>2, <2>3 DEF Becomes, F!ProbeFirst, FormsTyped
  <2>5. QED
    BY <1>2, <2>4, <1>0, ClientMoves DEF F!ProbeFirst
<1>3. CASE F!ProbeSecond(c)
  <2>1. client[c].at # "rest" /\ UNCHANGED <<held, worth, wanted, compactor, overlapped>>
    BY <1>3 DEF F!ProbeSecond
  <2>2. \/ F!Moves(c, "act") \/ (F!Moves(c, "write") /\ client[c].op = "put")
        \/ F!Answers(c, "none") \/ (F!Answers(c, "absent") /\ client[c].op \notin {"put", "remove"})
    BY <1>3 DEF F!ProbeSecond, F!Rests
  <2>3. \E r : Becomes(c, r)
    BY <1>0, <2>1, <2>2, MovesBecomes, AnswersBecomes DEF F!ClientAt, Said
  <2>4. QED
    BY <1>0, <2>1, <2>3, ClientMoves
<1>4. CASE F!Get(c) \/ F!Redirect(c) \/ F!PutFound(c) \/ F!GiveUp(c)
  <2>1. /\ client[c].at # "rest" /\ UNCHANGED <<held, worth, compactor, overlapped>>
        /\ wanted' \in BOOLEAN /\ (wanted' => wanted \/ Under(c, "put"))
    <3>1. CASE F!PutFound(c)
      <4>1. Under(c, "put") /\ wanted' = TRUE
        BY <3>1 DEF F!PutFound, Under
      <4>2. QED
        BY <3>1, <4>1 DEF F!PutFound
    <3>2. CASE F!Get(c) \/ F!Redirect(c) \/ F!GiveUp(c)
      BY <1>0, <3>2 DEF F!Get, F!Redirect, F!GiveUp
    <3>3. QED
      BY <1>4, <3>1, <3>2
  <2>2. \E what \in Said : F!Answers(c, what) /\ (client[c].op \in {"put", "remove"} => what = "none")
    BY <1>4 DEF F!Get, F!Redirect, F!PutFound, F!GiveUp, F!Rests, Said
  <2>3. \E r : Becomes(c, r)
    BY <1>0, <2>1, <2>2, AnswersBecomes
  <2>4. QED
    BY <2>1, <2>3, ClientMoves
<1>5. CASE F!PutNew(c)
  <2>1. /\ client[c].at = "write" /\ F!Answers(c, "none") /\ UNCHANGED <<worth, compactor, overlapped>>
        /\ held' \in F!Writes(F!Pack(c)) /\ wanted' \in {wanted, wanted \/ held'[F!Pack(c)] # "absent"}
    BY <1>5 DEF F!PutNew, F!Rests
  <2>2. Under(c, "put") /\ F!Pack(c) \in F!Forms
    BY <1>0, <2>1 DEF FormsTyped, Under, F!Pack, F!Forms
  <2>3. Becomes(c, [client[c] EXCEPT !.at = "rest", !.answer = "none"])
    BY <1>0, <2>1, AnswersBecomes DEF Said
  <2>4. held' \in [F!Forms -> {"good", "bad", "absent"}] /\ \A f \in F!Forms : held[f] = "good" => held'[f] = "good"
    BY <1>0, <2>1, <2>2 DEF F!Writes, F!Held, FormsTyped
  <2>5. wanted' \in BOOLEAN
    BY <1>0, <2>1
  <2>6. QED
    BY <2>1, <2>2, <2>3, <2>4, <2>5, ClientKeeps
<1>6. CASE F!Remove(c)
  <2>1. /\ client[c].at = "act" /\ client[c].op = "remove" /\ F!Answers(c, "none")
        /\ held' \in F!Deletes(client[c].form) /\ UNCHANGED <<worth, wanted, compactor, overlapped>>
    BY <1>6 DEF F!Remove, F!Rests
  <2>2. Under(c, "remove")
    BY <2>1 DEF Under
  <2>3. Becomes(c, [client[c] EXCEPT !.at = "rest", !.answer = "none"])
    BY <1>0, <2>1, AnswersBecomes DEF Said
  <2>4. held' \in [F!Forms -> {"good", "bad", "absent"}]
    BY <1>0, <2>1 DEF F!Deletes, FormsTyped
  <2>5. QED
    BY <1>0, <2>1, <2>2, <2>3, <2>4, ClientKeeps
<1>7. QED
  BY <1>1, <1>2, <1>3, <1>4, <1>5, <1>6 DEF F!ClientStep

-----------------------------------------------------------------------------
(* Requests of a compaction.                                                 *)

\* A compaction that goes on leaves what holds for the others, which are none unless they
\* overlapped; what holds for it is shown for each of its steps.
LEMMA CompactorKeeps ==
    ASSUME FormsInv, NEW p \in Compactors, NEW place \in F!CompactorAt, F!Goes(p, place), Compacts(p),
           UNCHANGED <<worth, wanted, client, overlapped>>,
           held' \in [F!Forms -> {"good", "bad", "absent"}],
           ~overlapped => /\ F!Evidence => F!Evidence'
                          /\ place \in {"write", "verify", "undo"} => held'["plain"] = "good"
                          /\ place = "unlink" => held'["packed"] = "good"
    PROVE  FormsInv' /\ F!KeepsEvidence
<1>1. compactor'[p] = place /\ (\A q \in Compactors \ {p} : compactor'[q] = compactor[q])
      /\ compactor' \in [Compactors -> F!CompactorAt]
  BY DEF F!Goes, FormsInv, FormsTyped
<1>2. FormsTyped'
  BY <1>1 DEF FormsInv, FormsTyped
<1>3. Claims'
  BY DEF FormsInv, Claims, Under
<1>4. \A q \in Compactors : Compacts(q)' => Compacts(q)
  BY <1>1 DEF Compacts
<1>5. Alone'
  BY <1>4 DEF FormsInv, Alone, Under
<1>6. ASSUME ~overlapped, NEW q \in Compactors
      PROVE  /\ compactor'[q] \in {"write", "verify", "undo"} => held'["plain"] = "good"
             /\ compactor'[q] = "unlink" => held'["packed"] = "good"
  <2>1. CASE q = p
    BY <1>1, <1>6, <2>1
  <2>2. CASE q # p
    BY <1>1, <1>6, <2>2 DEF FormsInv, Alone, Compacts
  <2>3. QED
    BY <2>1, <2>2
<1>7. Sound'
  BY <1>6 DEF Sound
<1>8. F!KeepsEvidence
  BY DEF F!KeepsEvidence
<1>9. QED
  BY <1>2, <1>3, <1>5, <1>7, <1>8 DEF FormsInv

LEMMA CompactorSteps == ASSUME FormsInv, NEW p \in Compactors, F!CompactorStep(p) PROVE FormsInv' /\ F!KeepsEvidence
<1>0. /\ held \in [F!Forms -> {"good", "bad", "absent"}] /\ compactor \in [Compactors -> F!CompactorAt]
      /\ ~overlapped => /\ compactor[p] \in {"write", "verify", "undo"} => held["plain"] = "good"
                        /\ compactor[p] = "unlink" => held["packed"] = "good"
  BY DEF FormsInv, FormsTyped, Sound
<1>1. CASE F!CompactArtifacts(p)
  <2>1. /\ compactor[p] = "rest" /\ F!Goes(p, "read") /\ UNCHANGED <<held, worth, wanted, client>>
        /\ overlapped' <=> \/ overlapped
                           \/ \E q \in Compactors : compactor[q] # "rest"
                           \/ \E c \in Clients : client[c].at # "rest" /\ client[c].op = "remove"
        /\ overlapped' \in BOOLEAN
    BY <1>1 DEF F!CompactArtifacts, FormsInv, FormsTyped
  <2>2. compactor'[p] = "read" /\ (\A q \in Compactors \ {p} : compactor'[q] = compactor[q])
        /\ compactor' \in [Compactors -> F!CompactorAt]
    BY <1>0, <2>1 DEF F!Goes, F!CompactorAt
  <2>3. FormsTyped'
    BY <2>1, <2>2 DEF FormsInv, FormsTyped
  <2>4. Claims'
    BY <2>1 DEF FormsInv, Claims, Under
  <2>5. Alone'
    BY <2>1, <2>2 DEF Alone, Compacts, Under
  <2>6. Sound'
    BY <2>1, <2>2 DEF Sound, FormsInv
  <2>7. F!KeepsEvidence
    BY <2>1 DEF F!KeepsEvidence, F!Evidence
  <2>8. QED
    BY <2>3, <2>4, <2>5, <2>6, <2>7 DEF FormsInv
<1>2. CASE F!CompactOne(p)
  <2> DEFINE place == IF held["plain"] = "good" /\ worth THEN "write" ELSE "rest"
  <2>1. Compacts(p) /\ F!Goes(p, place) /\ UNCHANGED <<held, worth, wanted, client, overlapped>>
    BY <1>2 DEF F!CompactOne, Compacts
  <2>2. place \in F!CompactorAt /\ (place = "write" => held["plain"] = "good") /\ place \in {"write", "rest"}
    BY DEF F!CompactorAt
  <2>3. F!Evidence' <=> F!Evidence
    BY <2>1 DEF F!Evidence
  <2> HIDE DEF place
  <2>4. QED
    BY <1>0, <2>1, <2>2, <2>3, CompactorKeeps
<1>3. CASE F!WriteCompressed(p)
  <2>1. /\ compactor[p] = "write" /\ held' \in F!Writes("packed") /\ UNCHANGED <<worth, wanted, client, overlapped>>
    BY <1>3 DEF F!WriteCompressed
  <2>2. PICK place \in {"verify", "rest"} : F!Goes(p, place)
    BY <1>3 DEF F!WriteCompressed, F!Goes
  <2>3. /\ held' \in [F!Forms -> {"good", "bad", "absent"}]
        /\ \A f \in F!Forms : held[f] = "good" => held'[f] = "good"
    BY <1>0, <2>1 DEF F!Writes, F!Held, F!Forms
  <2>4. F!Evidence => F!Evidence'
    BY <2>3 DEF F!Evidence
  <2>5. place \in F!CompactorAt /\ place # "unlink" /\ Compacts(p)
    BY <2>1, <2>2 DEF F!CompactorAt, Compacts
  <2>6. QED
    BY <1>0, <2>1, <2>2, <2>3, <2>4, <2>5, CompactorKeeps DEF F!Forms
<1>4. CASE F!VerifyCompressed(p)
  <2>1. /\ compactor[p] = "verify" /\ UNCHANGED <<held, worth, wanted, client, overlapped>>
        /\ (F!Goes(p, "unlink") /\ held["packed"] = "good") \/ F!Goes(p, "undo")
    BY <1>4 DEF F!VerifyCompressed
  <2>2. Compacts(p) /\ (F!Evidence' <=> F!Evidence)
    BY <2>1 DEF Compacts, F!Evidence
  <2>3. PICK place \in {"unlink", "undo"} : F!Goes(p, place) /\ (place = "unlink" => held["packed"] = "good")
    BY <2>1
  <2>4. QED
    BY <1>0, <2>1, <2>2, <2>3, CompactorKeeps DEF F!CompactorAt
<1>5. CASE F!RemoveRaw(p) \/ F!AbandonCompressed(p)
  <2>1. /\ Compacts(p) /\ F!Goes(p, "rest") /\ UNCHANGED <<worth, wanted, client, overlapped>>
        /\ \/ compactor[p] = "unlink" /\ held' \in F!Deletes("plain")
           \/ compactor[p] = "undo" /\ held' \in F!Deletes("packed")
    BY <1>5 DEF F!RemoveRaw, F!AbandonCompressed, Compacts
  <2>2. /\ held' \in [F!Forms -> {"good", "bad", "absent"}]
        /\ compactor[p] = "unlink" => held'["packed"] = held["packed"]
        /\ compactor[p] = "undo" => held'["plain"] = held["plain"]
    BY <1>0, <2>1 DEF F!Deletes, F!Forms
  <2>3. ~overlapped => F!Evidence'
    BY <1>0, <2>1, <2>2 DEF F!Evidence, F!Forms
  <2>4. QED
    BY <2>1, <2>2, <2>3, CompactorKeeps DEF F!CompactorAt
<1>6. CASE F!StopCompacting(p)
  <2>1. Compacts(p) /\ F!Goes(p, "rest") /\ UNCHANGED <<held, worth, wanted, client, overlapped>>
    BY <1>6 DEF F!StopCompacting, Compacts
  <2>2. F!Evidence' <=> F!Evidence
    BY <2>1 DEF F!Evidence
  <2>3. QED
    BY <1>0, <2>1, <2>2, CompactorKeeps DEF F!CompactorAt
<1>7. QED
  BY <1>1, <1>2, <1>3, <1>4, <1>5, <1>6 DEF F!CompactorStep

-----------------------------------------------------------------------------
LEMMA FormsStep == ASSUME FormsInv, [F!Next]_F!vars PROVE FormsInv' /\ F!KeepsEvidence
<1>1. CASE F!Expire
  <2>1. /\ wanted' = FALSE /\ UNCHANGED <<held, worth, client, compactor, overlapped>>
    BY <1>1 DEF F!Expire
  <2>2. FormsTyped' /\ Claims' /\ Alone' /\ Sound'
    BY <2>1 DEF FormsInv, FormsTyped, Claims, Alone, Sound, Under, Compacts
  <2>3. F!KeepsEvidence
    BY <2>1 DEF F!KeepsEvidence, F!Evidence
  <2>4. QED
    BY <2>2, <2>3 DEF FormsInv
<1>2. CASE UNCHANGED F!vars
  BY <1>2 DEF F!vars, FormsInv, FormsTyped, Claims, Alone, Sound, Under, Compacts, F!KeepsEvidence,
              F!Evidence
<1>3. QED
  BY <1>1, <1>2, ClientSteps, CompactorSteps DEF F!Next

LEMMA FormsStart == F!Init => FormsInv
<1> SUFFICES ASSUME F!Init PROVE FormsInv
  OBVIOUS
<1>1. F!Idle \in ClientType /\ F!Idle.at = "rest" /\ F!Idle.op = "get"
  BY DEF F!Idle, ClientType, F!Ops, F!ClientAt, F!Forms, Said
<1>2. \A c \in Clients : client[c] = F!Idle
  BY DEF F!Init
<1>3. FormsTyped
  BY <1>1, <1>2 DEF F!Init, FormsTyped, F!CompactorAt, F!Evidence
<1>4. QED
  BY <1>1, <1>2, <1>3 DEF F!Init, FormsInv, Claims, Alone, Sound, Under, Compacts

\* Every variable keeps its type, only a put writes, and only a reader is answered.
LEMMA FormsTypes == FormsInv => F!TypeOK
BY DEF FormsInv, FormsTyped, F!TypeOK, ClientType, Said

-----------------------------------------------------------------------------
(* IndexRebuild: the index and the documents.                                 *)

Objects == {"absent", "good", "damaged", "newer"}
Entries == {"none", "stale", "full", "other"}
Modes == {"apply", "verify"}
RunAt == R!Walking \cup {"off", "survey", "clear", "orphans"}
MarkerType == [own : {"absent", "fresh", "aged"}, left : {"absent", "fresh"}]
RebuildType == [at : RunAt, mode : Modes, todo : SUBSET Scans, doc : SUBSET Scans]
ReportType == [drift : SUBSET Scans, unjudged : SUBSET Scans]
SweepType == [at : {"off", "walk"}, todo : SUBSET Scans, forced : BOOLEAN]

-----------------------------------------------------------------------------
(* The inductive invariant.                                                  *)

RebuildStored ==
    /\ object \in [Scans -> Objects] /\ row \in [Scans -> Entries]
    /\ refs \subseteq Scans /\ claims \subseteq Scans
    /\ \A s \in Scans : row[s] # "none" => s \in refs
RebuildTyped ==
    /\ RebuildStored /\ changed \subseteq Scans /\ early \in BOOLEAN
    /\ marker \in MarkerType /\ rebuild \in RebuildType /\ report \in ReportType /\ sweep \in SweepType
    /\ rebuild.at \in R!Walking \ {"list"} <=> rebuild.doc # {}
    /\ \A s, t \in rebuild.doc : s = t

\* A run that writes has its marker up, and a sweep beside it was there before it
\* or found that marker too old.
Marked == rebuild.mode = "apply" =>
    /\ rebuild.at \in R!Walking \cup {"survey", "clear"} => marker.own # "absent"
    /\ rebuild.at \in R!Walking \cup {"survey"} /\ sweep.at = "walk" => early \/ marker.own = "aged"

\* No scan that is still to be stored looks as if it had been pruned.
Holding == \A s \in claims : ~R!Pruned(s)

\* What the run has found out of the document in hand still holds.
InHand == \A s \in rebuild.doc \ changed :
    /\ R!Present(s)
    /\ rebuild.at \in {"judge", "prunedRow", "evidence", "merge", "write"} => object[s] \in {"good", "newer"}
    /\ rebuild.at = "prunedRow" => s \in refs
    /\ rebuild.at \in {"evidence", "merge", "write"} => ~R!Pruned(s)
    /\ rebuild.at \in {"merge", "write"} => object[s] = "good"

\* An entry without its document is in the report from the survey on, ...
Surveyed(s) == row[s] # "none" /\ ~R!Present(s) => s \in report.drift
\* ... and a document that the walk has passed is settled or in the report.
Judged(s) ==
    /\ object[s] = "good" /\ ~R!Pruned(s) => row[s] = "full" \/ s \in report.drift
    /\ object[s] \in {"damaged", "newer"} /\ ~R!Pruned(s) => s \in report.unjudged
    /\ rebuild.mode = "apply" /\ row[s] = "stale" => s \in report.unjudged \cup report.drift
Thorough ==
    /\ rebuild.at = "survey" => rebuild.todo = Scans
    /\ rebuild.at \in {"clear", "orphans"} => rebuild.todo = {}
    /\ rebuild.at \in R!Walking \cup {"clear", "orphans"} =>
          /\ \A s \in Scans \ changed : Surveyed(s)
          /\ \A s \in Scans \ (changed \cup rebuild.todo) : Judged(s)

RebuildInv == RebuildTyped /\ Marked /\ Holding /\ InHand /\ Thorough

-----------------------------------------------------------------------------
(* The records of the run.                                                   *)

LEMMA RebuildPlaces ==
    /\ "list" \in R!Walking /\ "read" \in R!Walking /\ "judge" \in R!Walking /\ "prunedRow" \in R!Walking
    /\ "evidence" \in R!Walking /\ "merge" \in R!Walking /\ "write" \in R!Walking
    /\ "off" \notin R!Walking /\ "survey" \notin R!Walking /\ "clear" \notin R!Walking /\ "orphans" \notin R!Walking
    /\ R!Walking \subseteq RunAt /\ "off" \in RunAt /\ "survey" \in RunAt /\ "clear" \in RunAt /\ "orphans" \in RunAt
    /\ "list" \notin {"survey", "clear", "orphans"}
BY DEF R!Walking, RunAt

LEMMA GoesTo ==
    ASSUME rebuild \in RebuildType, NEW place \in RunAt, R!Goes(place)
    PROVE  /\ rebuild' \in RebuildType /\ rebuild'.at = place
           /\ rebuild'.mode = rebuild.mode /\ rebuild'.todo = rebuild.todo /\ rebuild'.doc = rebuild.doc
BY DEF R!Goes, RebuildType

LEMMA DropsOne ==
    ASSUME rebuild \in RebuildType, NEW s, R!Drops(s)
    PROVE  /\ rebuild' \in RebuildType /\ rebuild'.at = "list" /\ rebuild'.mode = rebuild.mode
           /\ rebuild'.todo = rebuild.todo \ {s} /\ rebuild'.doc = {}
<1>1. "list" \in RunAt
  BY RebuildPlaces
<1>2. QED
  BY <1>1 DEF R!Drops, RebuildType

\* The report of a run only grows.
Adds == /\ report' \in ReportType
        /\ report.drift \subseteq report'.drift /\ report.unjudged \subseteq report'.unjudged

LEMMA DriftAdds ==
    ASSUME report \in ReportType, NEW S, S \subseteq Scans, R!Drift(S)
    PROVE  Adds /\ S \subseteq report'.drift
BY DEF R!Drift, Adds, ReportType

LEMMA UnjudgedAdds ==
    ASSUME report \in ReportType, NEW s \in Scans, R!Unjudged(s)
    PROVE  Adds /\ s \in report'.unjudged
BY DEF R!Unjudged, Adds, ReportType

LEMMA NothingAdds == ASSUME report \in ReportType, UNCHANGED report PROVE Adds
BY DEF Adds

-----------------------------------------------------------------------------
(* What goes on beside a run.                                                *)

\* A step that touches one scan, and says so.
Touches(s) == /\ R!Changes(s) /\ UNCHANGED <<rebuild, report>>
              /\ \A t \in Scans \ {s} : object'[t] = object[t] /\ row'[t] = row[t] /\ (t \in refs' <=> t \in refs)

LEMMA TouchKeeps ==
    ASSUME RebuildTyped, InHand, Thorough, NEW s \in Scans, Touches(s)
    PROVE  InHand' /\ Thorough' /\ changed' \subseteq Scans
<1>1. CASE rebuild.at = "off"
  <2>1. rebuild'.at = "off" /\ rebuild'.doc = {} /\ changed' = {}
    BY <1>1, RebuildPlaces DEF RebuildTyped, Touches, R!Changes
  <2>2. InHand'
    BY <2>1 DEF InHand
  <2>3. Thorough'
    BY <2>1, RebuildPlaces DEF Thorough
  <2>4. QED
    BY <2>1, <2>2, <2>3
<1>2. CASE rebuild.at # "off"
  <2>1. changed' = changed \cup {s} /\ rebuild' = rebuild /\ report' = report
    BY <1>2 DEF Touches, R!Changes
  <2>2. \A t \in Scans \ changed' : /\ t \in Scans \ changed /\ object'[t] = object[t] /\ row'[t] = row[t]
                                    /\ (t \in refs' <=> t \in refs)
    BY <2>1 DEF Touches
  <2>3. InHand'
    <3>1. rebuild.doc \subseteq Scans
      BY DEF RebuildTyped, RebuildType
    <3>2. QED
      BY <2>1, <2>2, <3>1 DEF InHand, R!Present, R!Pruned
  <2>4. Thorough'
    BY <2>1, <2>2 DEF Thorough, Surveyed, Judged, R!Present, R!Pruned
  <2>5. changed' \subseteq Scans
    BY <2>1 DEF RebuildTyped
  <2>6. QED
    BY <2>3, <2>4, <2>5
<1>3. QED
  BY <1>1, <1>2

LEMMA RestKeeps ==
    ASSUME InHand, Thorough, UNCHANGED <<object, row, refs, rebuild, report, changed>>
    PROVE  InHand' /\ Thorough'
BY DEF InHand, Thorough, Surveyed, Judged, R!Present, R!Pruned

\* A step of a scan or a prune.
LEMMA ScanKeeps ==
    ASSUME RebuildInv, NEW s \in Scans, Touches(s), RebuildStored', Holding', UNCHANGED <<marker, sweep, early>>
    PROVE  RebuildInv'
<1>1. InHand' /\ Thorough' /\ changed' \subseteq Scans
  BY TouchKeeps DEF RebuildInv
<1>2. UNCHANGED <<rebuild, report>>
  BY DEF Touches
<1>3. RebuildTyped'
  BY <1>1, <1>2 DEF RebuildInv, RebuildTyped
<1>4. Marked'
  BY <1>2 DEF RebuildInv, Marked
<1>5. QED
  BY <1>1, <1>3, <1>4 DEF RebuildInv

LEMMA StoreDocumentKeeps == ASSUME RebuildInv, NEW s \in Scans, R!StoreDocument(s) PROVE RebuildInv'
<1>1. /\ row[s] = "none" /\ s \notin refs /\ object' = [object EXCEPT ![s] = "good"] /\ claims' = claims \cup {s}
      /\ R!Changes(s) /\ UNCHANGED <<row, refs, marker, rebuild, report, sweep, early>>
  BY DEF R!StoreDocument, R!indexVars
<1>2. RebuildStored
  BY DEF RebuildInv, RebuildTyped
<1>3. Touches(s)
  BY <1>1, <1>2 DEF Touches, RebuildStored
<1>4. RebuildStored'
  BY <1>1, <1>2 DEF RebuildStored, Objects
<1>5. Holding'
  BY <1>1 DEF RebuildInv, Holding, R!Pruned
<1>6. QED
  BY <1>1, <1>3, <1>4, <1>5, ScanKeeps

LEMMA PutResultKeeps == ASSUME RebuildInv, NEW s \in Scans, R!PutResult(s) PROVE RebuildInv'
<1>1. /\ claims' = claims \ {s} /\ row' = [row EXCEPT ![s] = "full"] /\ refs' = refs \cup {s}
      /\ R!Changes(s) /\ UNCHANGED <<object, marker, rebuild, report, sweep, early>>
  BY DEF R!PutResult
<1>2. RebuildStored
  BY DEF RebuildInv, RebuildTyped
<1>3. Touches(s)
  BY <1>1, <1>2 DEF Touches, RebuildStored
<1>4. RebuildStored'
  BY <1>1, <1>2 DEF RebuildStored, Entries
<1>5. Holding'
  BY <1>1, <1>2 DEF RebuildInv, Holding, R!Pruned, RebuildStored
<1>6. QED
  BY <1>1, <1>3, <1>4, <1>5, ScanKeeps

LEMMA ExpireKeeps == ASSUME RebuildInv, NEW s \in Scans, R!Expire(s) PROVE RebuildInv'
<1>1. /\ s \notin claims /\ row' = [row EXCEPT ![s] = "none"]
      /\ R!Changes(s) /\ UNCHANGED <<object, refs, claims, marker, rebuild, report, sweep, early>>
  BY DEF R!Expire
<1>2. RebuildStored
  BY DEF RebuildInv, RebuildTyped
<1>3. Touches(s)
  BY <1>1, <1>2 DEF Touches, RebuildStored
<1>4. RebuildStored'
  BY <1>1, <1>2 DEF RebuildStored, Entries
<1>5. Holding'
  BY <1>1, <1>2 DEF RebuildInv, Holding, R!Pruned, RebuildStored
<1>6. QED
  BY <1>1, <1>3, <1>4, <1>5, ScanKeeps

LEMMA CollectDanglingKeeps == ASSUME RebuildInv, NEW s \in Scans, R!CollectDangling(s) PROVE RebuildInv'
<1>1. /\ row[s] = "none" /\ object' = [object EXCEPT ![s] = "absent"] /\ refs' = refs \ {s}
      /\ R!Changes(s) /\ UNCHANGED <<row, claims, marker, rebuild, report, sweep, early>>
  BY DEF R!CollectDangling
<1>2. RebuildStored
  BY DEF RebuildInv, RebuildTyped
<1>3. Touches(s)
  BY <1>1, <1>2 DEF Touches, RebuildStored
<1>4. RebuildStored'
  BY <1>1, <1>2 DEF RebuildStored, Objects
<1>5. Holding'
  BY <1>1 DEF RebuildInv, Holding, R!Pruned
<1>6. QED
  BY <1>1, <1>3, <1>4, <1>5, ScanKeeps

LEMMA LoseScanKeeps == ASSUME RebuildInv, NEW s \in Scans, R!LoseScan(s) PROVE RebuildInv'
<1>1. /\ claims' = claims \ {s}
      /\ UNCHANGED <<object, row, refs, marker, rebuild, report, sweep, early, changed>>
  BY DEF R!LoseScan, R!indexVars
<1>2. InHand' /\ Thorough'
  BY <1>1, RestKeeps DEF RebuildInv
<1>3. RebuildTyped' /\ Marked' /\ Holding'
  BY <1>1 DEF RebuildInv, RebuildTyped, RebuildStored, Marked, Holding, R!Pruned
<1>4. QED
  BY <1>2, <1>3 DEF RebuildInv

LEMMA SweepBucketKeeps == ASSUME RebuildInv, NEW s \in Scans, R!SweepBucket(s) PROVE RebuildInv'
<1>1. /\ sweep' = [sweep EXCEPT !.todo = @ \ {s}]
      /\ UNCHANGED <<row, refs, claims, marker, rebuild, report, early>>
      /\ \/ s \notin refs \cup claims /\ object' = [object EXCEPT ![s] = "absent"] /\ R!Changes(s)
         \/ UNCHANGED <<object, changed>>
  BY DEF R!SweepBucket, R!indexVars
<1>2. RebuildStored /\ sweep \in SweepType
  BY DEF RebuildInv, RebuildTyped
<1>3. sweep' \in SweepType /\ sweep'.at = sweep.at
  BY <1>1, <1>2 DEF SweepType
<1>4. InHand' /\ Thorough' /\ changed' \subseteq Scans
  <2>1. CASE UNCHANGED <<object, changed>>
    BY <1>1, <2>1, RestKeeps DEF RebuildInv, RebuildTyped
  <2>2. CASE object' = [object EXCEPT ![s] = "absent"] /\ R!Changes(s)
    <3>1. Touches(s)
      BY <1>1, <1>2, <2>2 DEF Touches, RebuildStored
    <3>2. QED
      BY <3>1, TouchKeeps DEF RebuildInv
  <2>3. QED
    BY <1>1, <2>1, <2>2
<1>5. RebuildStored'
  BY <1>1, <1>2 DEF RebuildStored, Objects
<1>6. RebuildTyped'
  BY <1>1, <1>3, <1>4, <1>5 DEF RebuildInv, RebuildTyped
<1>7. Marked' /\ Holding'
  BY <1>1, <1>3 DEF RebuildInv, Marked, Holding, R!Pruned
<1>8. QED
  BY <1>4, <1>6, <1>7 DEF RebuildInv

\* A sweep begins or ends, or a marker ages: nothing that is stored changes.
LEMMA SweepKeeps == ASSUME RebuildInv, R!StartSweep \/ R!EndSweep \/ R!AgeMarker PROVE RebuildInv'
<1>1. UNCHANGED <<object, row, refs, claims, rebuild, report, changed>>
  BY DEF R!StartSweep, R!Markers, R!EndSweep, R!AgeMarker, R!indexVars
<1>2. InHand' /\ Thorough'
  BY <1>1, RestKeeps DEF RebuildInv
<1>3. Holding' /\ RebuildStored'
  BY <1>1 DEF RebuildInv, Holding, R!Pruned, RebuildTyped, RebuildStored
<1>4. marker \in MarkerType /\ sweep \in SweepType /\ early \in BOOLEAN
  BY DEF RebuildInv, RebuildTyped
<1>5. CASE R!StartSweep
  <2>1. /\ sweep' = [at |-> "walk", todo |-> Scans, forced |-> R!IndexIsEmpty]
        /\ "fresh" \notin {marker.own, marker.left} /\ marker' = marker
        /\ early' \in BOOLEAN
    BY <1>5 DEF R!StartSweep, R!Markers
  <2>2. R!IndexIsEmpty \in BOOLEAN
    BY DEF R!IndexIsEmpty
  <2>3. sweep' \in SweepType
    BY <2>1, <2>2 DEF SweepType
  <2>4. RebuildTyped'
    BY <1>1, <1>3, <2>1, <2>3 DEF RebuildInv, RebuildTyped
  <2>5. marker.own # "absent" => marker.own = "aged"
    BY <1>4, <2>1 DEF MarkerType
  <2>6. Marked'
    BY <1>1, <2>1, <2>5 DEF RebuildInv, Marked
  <2>7. QED
    BY <1>2, <1>3, <2>4, <2>6 DEF RebuildInv
<1>6. CASE R!EndSweep
  <2>1. sweep' = R!NoSweep /\ early' = FALSE /\ marker' = marker
    BY <1>6 DEF R!EndSweep
  <2>2. sweep' \in SweepType /\ sweep'.at = "off"
    BY <2>1 DEF SweepType, R!NoSweep
  <2>3. RebuildTyped' /\ Marked'
    BY <1>1, <1>3, <2>1, <2>2 DEF RebuildInv, RebuildTyped, Marked
  <2>4. QED
    BY <1>2, <1>3, <2>3 DEF RebuildInv
<1>7. CASE R!AgeMarker
  <2>1. sweep' = sweep /\ early' = early
    BY <1>7 DEF R!AgeMarker
  <2>2. marker' \in MarkerType /\ (marker.own # "absent" => marker'.own # "absent")
        /\ (marker.own = "aged" => marker'.own = "aged")
    BY <1>4, <1>7 DEF R!AgeMarker, MarkerType
  <2>3. RebuildTyped' /\ Marked'
    BY <1>1, <1>3, <2>1, <2>2 DEF RebuildInv, RebuildTyped, Marked
  <2>4. QED
    BY <1>2, <1>3, <2>3 DEF RebuildInv
<1>8. QED
  BY <1>5, <1>6, <1>7

-----------------------------------------------------------------------------
(* The steps of a run.                                                       *)

\* A step of the walk that writes nothing into the index: it goes on within the
\* walk, and the report may grow.
RebuildWalks == /\ rebuild.at \in R!Walking /\ rebuild'.at \in R!Walking /\ Adds
                /\ UNCHANGED <<object, row, refs, claims, marker, sweep, early, changed>>
                /\ rebuild' \in RebuildType /\ rebuild'.mode = rebuild.mode
                /\ rebuild'.at # "list" <=> rebuild'.doc # {}
                /\ \A s, t \in rebuild'.doc : s = t

LEMMA WalkKeeps ==
    ASSUME RebuildInv, RebuildWalks, InHand', Thorough'
    PROVE  RebuildInv'
<1>1. RebuildTyped'
  BY DEF RebuildInv, RebuildTyped, RebuildStored, RebuildWalks, Adds
<1>2. Marked'
  BY DEF RebuildInv, Marked, RebuildWalks
<1>3. Holding'
  BY DEF RebuildInv, Holding, R!Pruned, RebuildWalks
<1>4. QED
  BY <1>1, <1>2, <1>3 DEF RebuildInv

\* What is known of a scan stays known.
LEMMA StaysJudged ==
    ASSUME Adds, UNCHANGED <<object, row, refs>>, rebuild'.mode = rebuild.mode, NEW s
    PROVE  /\ Surveyed(s) => Surveyed(s)'
           /\ Judged(s) => Judged(s)'
BY DEF Adds, Surveyed, Judged, R!Present, R!Pruned

\* The walk goes on with the document in hand.
LEMMA GoesOnKeeps ==
    ASSUME RebuildInv, rebuild.at \in R!Walking \ {"list"}, NEW place \in R!Walking \ {"list"}, R!Goes(place), Adds,
           UNCHANGED <<object, row, refs, claims, marker, sweep, early, changed>>, InHand'
    PROVE  RebuildInv'
<1>1. /\ rebuild' \in RebuildType /\ rebuild'.at = place
      /\ rebuild'.mode = rebuild.mode /\ rebuild'.todo = rebuild.todo /\ rebuild'.doc = rebuild.doc
  BY GoesTo, RebuildPlaces DEF RebuildInv, RebuildTyped
<1>2. RebuildWalks
  BY <1>1 DEF RebuildWalks, RebuildInv, RebuildTyped
<1>3. Thorough'
  BY <1>1, StaysJudged, RebuildPlaces DEF RebuildInv, Thorough
<1>4. QED
  BY <1>2, <1>3, WalkKeeps

\* The walk is done with a scan, which is settled or in the report.
LEMMA DropKeeps ==
    ASSUME RebuildInv, rebuild.at \in R!Walking, NEW s \in Scans, R!Drops(s), Adds,
           UNCHANGED <<object, row, refs, claims, marker, sweep, early, changed>>,
           s \notin changed => Judged(s)'
    PROVE  RebuildInv'
<1>1. /\ rebuild' \in RebuildType /\ rebuild'.at = "list" /\ rebuild'.mode = rebuild.mode
      /\ rebuild'.todo = rebuild.todo \ {s} /\ rebuild'.doc = {}
  BY DropsOne DEF RebuildInv, RebuildTyped
<1>2. RebuildWalks
  BY <1>1, RebuildPlaces DEF RebuildWalks
<1>3. InHand'
  BY <1>1 DEF InHand
<1>4. Thorough'
  <2>1. \A t \in Scans \ changed : Surveyed(t)'
    BY <1>1, StaysJudged DEF RebuildInv, Thorough
  <2>2. \A t \in Scans \ (changed \cup rebuild.todo) : Judged(t)'
    BY <1>1, StaysJudged DEF RebuildInv, Thorough
  <2>3. \A t \in Scans \ (changed \cup rebuild'.todo) : Judged(t)'
    BY <1>1, <2>2
  <2>4. QED
    BY <1>1, <2>1, <2>3 DEF Thorough
<1>5. QED
  BY <1>2, <1>3, <1>4, WalkKeeps

LEMMA ListDocumentKeeps == ASSUME RebuildInv, NEW s \in Scans, R!ListDocument(s) PROVE RebuildInv'
<1>1. /\ rebuild.at = "list" /\ s \in rebuild.todo
      /\ UNCHANGED <<object, row, refs, claims, marker, sweep, early, changed, report>>
      /\ IF R!Present(s) THEN rebuild' = [rebuild EXCEPT !.at = "read", !.doc = {s}] ELSE R!Drops(s)
  BY DEF R!ListDocument, R!storeVars, R!indexVars
<1>2. rebuild \in RebuildType /\ Adds
  BY <1>1, NothingAdds DEF RebuildInv, RebuildTyped
<1>3. CASE R!Present(s)
  <2>1. /\ rebuild' \in RebuildType /\ rebuild'.at = "read" /\ rebuild'.doc = {s}
        /\ rebuild'.mode = rebuild.mode /\ rebuild'.todo = rebuild.todo
    <3>1. "read" \in RunAt /\ {s} \in SUBSET Scans
      BY RebuildPlaces
    <3>2. rebuild' = [rebuild EXCEPT !.at = "read", !.doc = {s}]
      BY <1>1, <1>3
    <3> DEFINE one == {s}
    <3> HIDE DEF one
    <3>3. rebuild' = [rebuild EXCEPT !.at = "read", !.doc = one] /\ one \in SUBSET Scans
      BY <3>1, <3>2 DEF one
    <3>4. /\ rebuild' \in RebuildType /\ rebuild'.at = "read" /\ rebuild'.doc = one
          /\ rebuild'.mode = rebuild.mode /\ rebuild'.todo = rebuild.todo
      BY <1>2, <3>1, <3>3 DEF RebuildType
    <3>5. QED
      BY <3>4 DEF one
  <2>2. RebuildWalks
    BY <1>1, <1>2, <2>1, RebuildPlaces DEF RebuildWalks
  <2>3. InHand'
    BY <1>1, <1>3, <2>1 DEF InHand, R!Present
  <2>4. Thorough'
    BY <1>1, <1>2, <2>1, StaysJudged, RebuildPlaces DEF RebuildInv, Thorough
  <2>5. QED
    BY <2>2, <2>3, <2>4, WalkKeeps
<1>4. CASE ~R!Present(s)
  <2>1. s \notin changed => Judged(s)'
    <3>1. SUFFICES ASSUME s \notin changed PROVE Judged(s)'
      OBVIOUS
    <3>2. Surveyed(s)
      BY <1>1, <3>1, RebuildPlaces DEF RebuildInv, Thorough
    <3>3. object'[s] = "absent" /\ (row'[s] = "stale" => s \in report'.drift)
      BY <1>1, <1>4, <3>2 DEF Surveyed, R!Present
    <3>4. QED
      BY <3>3 DEF Judged
  <2>2. QED
    BY <1>1, <1>2, <1>4, <2>1, DropKeeps, RebuildPlaces
<1>5. QED
  BY <1>3, <1>4

LEMMA ReadDocumentKeeps == ASSUME RebuildInv, NEW s \in Scans, R!ReadDocument(s) PROVE RebuildInv'
<1>1. /\ rebuild.at = "read" /\ s \in rebuild.doc
      /\ UNCHANGED <<object, row, refs, claims, marker, sweep, early, changed>>
  BY DEF R!ReadDocument, R!storeVars, R!indexVars
<1>2. report \in ReportType /\ rebuild \in RebuildType
  BY DEF RebuildInv, RebuildTyped
<1>3. CASE object[s] \in {"good", "newer"}
  <2>1. R!Goes("judge") /\ UNCHANGED report
    BY <1>3 DEF R!ReadDocument
  <2>2. rebuild'.at = "judge" /\ rebuild'.doc = rebuild.doc
    BY <1>2, <2>1, GoesTo, RebuildPlaces
  <2>3. InHand'
    BY <1>1, <1>3, <2>2, RebuildPlaces DEF RebuildInv, RebuildTyped, InHand, R!Present
  <2>4. QED
    BY <1>1, <1>2, <2>1, <2>3, NothingAdds, GoesOnKeeps, RebuildPlaces
<1>4. CASE object[s] \notin {"good", "newer"}
  <2>1. R!Drops(s) /\ R!Unjudged(s)
    BY <1>4 DEF R!ReadDocument
  <2>2. Adds /\ s \in report'.unjudged
    BY <1>2, <2>1, UnjudgedAdds
  <2>3. Judged(s)'
    BY <1>1, <1>4, <2>2 DEF Judged
  <2>4. QED
    BY <1>1, <2>1, <2>2, <2>3, DropKeeps, RebuildPlaces
<1>5. QED
  BY <1>3, <1>4

LEMMA AskReferencesKeeps == ASSUME RebuildInv, NEW s \in Scans, R!AskReferences(s) PROVE RebuildInv'
<1>1. /\ rebuild.at = "judge" /\ s \in rebuild.doc /\ \A t \in rebuild.doc : t = s
      /\ UNCHANGED <<object, row, refs, claims, marker, sweep, early, changed>> /\ Adds /\ rebuild \in RebuildType
  BY NothingAdds DEF R!AskReferences, R!storeVars, R!indexVars, RebuildInv, RebuildTyped
<1>2. PICK place : place = IF s \in refs THEN "prunedRow" ELSE "evidence"
  OBVIOUS
<1>3. R!Goes(place) /\ place \in R!Walking \ {"list"} /\ place \in RunAt
  BY <1>2, RebuildPlaces DEF R!AskReferences
<1>4. rebuild'.at = place /\ rebuild'.doc = rebuild.doc
  BY <1>1, <1>3, GoesTo
<1>5. InHand'
  BY <1>1, <1>2, <1>4 DEF RebuildInv, InHand, R!Present, R!Pruned
<1>6. QED
  BY <1>1, <1>3, <1>5, GoesOnKeeps, RebuildPlaces

LEMMA AskRowKeeps == ASSUME RebuildInv, NEW s \in Scans, R!AskRow(s) PROVE RebuildInv'
<1>1. /\ rebuild.at = "prunedRow" /\ s \in rebuild.doc /\ \A t \in rebuild.doc : t = s
      /\ UNCHANGED <<object, row, refs, claims, marker, sweep, early, changed>> /\ Adds /\ rebuild \in RebuildType
  BY NothingAdds DEF R!AskRow, R!storeVars, R!indexVars, RebuildInv, RebuildTyped
<1>2. CASE row[s] = "none"
  <2>1. R!Drops(s)
    BY <1>2 DEF R!AskRow
  <2>2. s \notin changed => R!Pruned(s)
    BY <1>1, <1>2 DEF RebuildInv, InHand, R!Pruned
  <2>3. s \notin changed => Judged(s)'
    BY <1>1, <1>2, <2>2 DEF Judged, R!Pruned
  <2>4. QED
    BY <1>1, <2>1, <2>3, DropKeeps, RebuildPlaces
<1>3. CASE row[s] # "none"
  <2>1. R!Goes("evidence")
    BY <1>3 DEF R!AskRow
  <2>2. rebuild'.at = "evidence" /\ rebuild'.doc = rebuild.doc
    BY <1>1, <2>1, GoesTo, RebuildPlaces
  <2>3. InHand'
    BY <1>1, <1>3, <2>2 DEF RebuildInv, InHand, R!Present, R!Pruned
  <2>4. QED
    BY <1>1, <2>1, <2>3, GoesOnKeeps, RebuildPlaces
<1>4. QED
  BY <1>2, <1>3

LEMMA CheckEvidenceKeeps == ASSUME RebuildInv, NEW s \in Scans, R!CheckEvidence(s) PROVE RebuildInv'
<1>1. /\ rebuild.at = "evidence" /\ s \in rebuild.doc /\ \A t \in rebuild.doc : t = s
      /\ UNCHANGED <<object, row, refs, claims, marker, sweep, early, changed>>
      /\ rebuild \in RebuildType /\ report \in ReportType
  BY DEF R!CheckEvidence, R!IsNewer, R!storeVars, R!indexVars, RebuildInv, RebuildTyped
<1>2. CASE object[s] = "newer"
  <2>1. R!Drops(s) /\ R!Unjudged(s)
    BY <1>2 DEF R!CheckEvidence, R!IsNewer
  <2>2. Adds /\ s \in report'.unjudged
    BY <1>1, <2>1, UnjudgedAdds
  <2>3. Judged(s)'
    BY <1>1, <1>2, <2>2 DEF Judged
  <2>4. QED
    BY <1>1, <2>1, <2>2, <2>3, DropKeeps, RebuildPlaces
<1>3. CASE object[s] # "newer"
  <2>1. R!Goes("merge") /\ Adds
    BY <1>1, <1>3, NothingAdds DEF R!CheckEvidence, R!IsNewer
  <2>2. rebuild'.at = "merge" /\ rebuild'.doc = rebuild.doc
    BY <1>1, <2>1, GoesTo, RebuildPlaces
  <2>3. InHand'
    BY <1>1, <1>3, <2>2 DEF RebuildInv, InHand, R!Present, R!Pruned
  <2>4. QED
    BY <1>1, <2>1, <2>3, GoesOnKeeps, RebuildPlaces
<1>4. QED
  BY <1>2, <1>3

LEMMA MergeKeeps == ASSUME RebuildInv, NEW s \in Scans, R!Merge(s) PROVE RebuildInv'
<1>1. /\ rebuild.at = "merge" /\ s \in rebuild.doc /\ \A t \in rebuild.doc : t = s
      /\ UNCHANGED <<object, row, refs, claims, marker, sweep, early, changed>>
      /\ rebuild \in RebuildType /\ report \in ReportType
  BY DEF R!Merge, R!storeVars, R!indexVars, RebuildInv, RebuildTyped
<1>2. s \notin changed => object[s] = "good"
  BY <1>1 DEF RebuildInv, InHand
<1>3. CASE row[s] = "full"
  <2>1. R!Drops(s) /\ UNCHANGED report
    BY <1>3 DEF R!Merge, R!Account, R!Outcome
  <2>2. s \notin changed => Judged(s)'
    BY <1>1, <1>2, <1>3 DEF Judged
  <2>3. QED
    BY <1>1, <2>1, <2>2, NothingAdds, DropKeeps, RebuildPlaces
<1>4. ASSUME R!Drops(s), R!Drift({s}) PROVE RebuildInv'
  <2>1. Adds /\ s \in report'.drift
    BY <1>1, <1>4, DriftAdds
  <2>2. s \notin changed => Judged(s)'
    BY <1>1, <1>2, <2>1 DEF Judged
  <2>3. QED
    BY <1>1, <1>4, <2>1, <2>2, DropKeeps, RebuildPlaces
<1>5. ASSUME R!Goes("write"), UNCHANGED report PROVE RebuildInv'
  <2>1. Adds
    BY <1>1, <1>5, NothingAdds
  <2>2. rebuild'.at = "write" /\ rebuild'.doc = rebuild.doc
    BY <1>1, <1>5, GoesTo, RebuildPlaces
  <2>3. InHand'
    BY <1>1, <2>2 DEF RebuildInv, InHand, R!Present, R!Pruned
  <2>4. QED
    BY <1>1, <1>5, <2>1, <2>3, GoesOnKeeps, RebuildPlaces
<1>6. CASE row[s] # "full"
  <2>1. rebuild.mode \in {"apply", "verify"}
    BY <1>1 DEF RebuildType, Modes
  <2>2. R!Outcome(s) = "conflict" \/ R!Outcome(s) \in {"added", "rederived"}
    BY <1>6 DEF R!Outcome
  <2>3. R!Account(s) /\ IF R!Outcome(s) \in {"added", "rederived"} /\ rebuild.mode = "apply"
                        THEN R!Goes("write") ELSE R!Drops(s)
    BY DEF R!Merge
  <2>4. CASE R!Outcome(s) = "conflict" \/ rebuild.mode = "verify"
    <3>1. R!Drift({s}) /\ R!Drops(s)
      BY <2>2, <2>3, <2>4 DEF R!Account
    <3>2. QED
      BY <1>4, <3>1
  <2>5. CASE R!Outcome(s) \in {"added", "rederived"} /\ rebuild.mode = "apply"
    <3>1. UNCHANGED report /\ R!Goes("write")
      BY <2>3, <2>5 DEF R!Account
    <3>2. QED
      BY <1>5, <3>1
  <2>6. QED
    BY <2>1, <2>2, <2>4, <2>5
<1>7. QED
  BY <1>3, <1>6

LEMMA WriteKeeps == ASSUME RebuildInv, NEW s \in Scans, R!Write(s) PROVE RebuildInv'
<1>1. /\ rebuild.at = "write" /\ s \in rebuild.doc /\ R!Drops(s)
      /\ row' = [row EXCEPT ![s] = "full"] /\ refs' = refs \cup {s}
      /\ UNCHANGED <<object, claims, marker, sweep, early, changed, report>>
      /\ rebuild \in RebuildType /\ RebuildStored
  BY DEF R!Write, R!storeVars, RebuildInv, RebuildTyped
<1>2. /\ rebuild' \in RebuildType /\ rebuild'.at = "list" /\ rebuild'.mode = rebuild.mode
      /\ rebuild'.todo = rebuild.todo \ {s} /\ rebuild'.doc = {}
  BY <1>1, DropsOne
<1>3. \A t \in Scans \ {s} : row'[t] = row[t] /\ (t \in refs' <=> t \in refs)
  BY <1>1 DEF RebuildStored
<1>4. row'[s] = "full" /\ s \in refs'
  BY <1>1 DEF RebuildStored
<1>5. RebuildStored'
  BY <1>1 DEF RebuildStored, Entries
<1>6. RebuildTyped'
  BY <1>1, <1>2, <1>5, RebuildPlaces DEF RebuildInv, RebuildTyped
<1>7. Marked'
  BY <1>1, <1>2, RebuildPlaces DEF RebuildInv, Marked
<1>8. Holding'
  <2>1. claims' = claims /\ claims \subseteq Scans
    BY <1>1 DEF RebuildStored
  <2>2. QED
    BY <1>3, <1>4, <2>1 DEF RebuildInv, Holding, R!Pruned
<1>9. InHand'
  BY <1>2 DEF InHand
<1>10. Thorough'
  <2>1. ASSUME NEW t \in Scans, t \notin changed PROVE Surveyed(t)'
    <3>1. CASE t = s
      BY <1>1, <2>1, <3>1 DEF RebuildInv, InHand, Surveyed, R!Present
    <3>2. CASE t # s
      BY <1>1, <1>3, <2>1, <3>2, RebuildPlaces DEF RebuildInv, Thorough, Surveyed, R!Present
    <3>3. QED
      BY <3>1, <3>2
  <2>2. ASSUME NEW t \in Scans, t \notin changed, t \notin rebuild'.todo PROVE Judged(t)'
    <3>1. CASE t = s
      <4>1. object'[s] = "good"
        BY <1>1, <2>2, <3>1 DEF RebuildInv, InHand
      <4>2. QED
        BY <1>4, <3>1, <4>1 DEF Judged
    <3>2. CASE t # s
      <4>1. Judged(t)
        BY <1>1, <1>2, <2>2, <3>2, RebuildPlaces DEF RebuildInv, Thorough
      <4>2. QED
        BY <1>1, <1>2, <1>3, <3>2, <4>1 DEF Judged, R!Pruned
    <3>3. QED
      BY <3>1, <3>2
  <2>3. changed' = changed
    BY <1>1
  <2>4. QED
    BY <1>2, <2>1, <2>2, <2>3, RebuildPlaces DEF Thorough
<1>11. QED
  BY <1>6, <1>7, <1>8, <1>9, <1>10 DEF RebuildInv

-----------------------------------------------------------------------------
(* The beginning and the end of a run.                                       *)

LEMMA StartRebuildKeeps == ASSUME RebuildInv, NEW mode \in Modes, R!StartRebuild(mode) PROVE RebuildInv'
<1>1. /\ rebuild' = [at |-> "survey", mode |-> mode, todo |-> Scans, doc |-> {}]
      /\ marker' = (IF mode = "apply" THEN [marker EXCEPT !.own = "fresh"] ELSE marker)
      /\ early' = (sweep.at = "walk") /\ changed' = {} /\ report' = R!NoReport
      /\ UNCHANGED <<object, row, refs, claims, sweep>>
  BY DEF R!StartRebuild, R!Marks, R!indexVars
<1>2. rebuild' \in RebuildType /\ rebuild'.at = "survey" /\ rebuild'.mode = mode /\ rebuild'.doc = {} /\ rebuild'.todo = Scans
  BY <1>1, RebuildPlaces DEF RebuildType
<1>3. marker' \in MarkerType /\ (mode = "apply" => marker'.own = "fresh")
  BY <1>1 DEF RebuildInv, RebuildTyped, MarkerType
<1>4. report' \in ReportType
  BY <1>1 DEF ReportType, R!NoReport
<1>5. early' \in BOOLEAN
  BY <1>1
<1>6. RebuildTyped'
  BY <1>1, <1>2, <1>3, <1>4, <1>5, RebuildPlaces DEF RebuildInv, RebuildTyped, RebuildStored
<1>7. Marked'
  BY <1>1, <1>2, <1>3, RebuildPlaces DEF Marked
<1>8. Holding' /\ InHand'
  BY <1>1, <1>2 DEF RebuildInv, Holding, R!Pruned, InHand
<1>9. Thorough'
  BY <1>2, RebuildPlaces DEF Thorough
<1>10. QED
  BY <1>6, <1>7, <1>8, <1>9 DEF RebuildInv

\* A step of the run from one of its places to the next, outside the walk.
LEMMA PassesOn ==
    ASSUME RebuildInv, NEW place \in {"list", "clear", "orphans"}, R!Goes(place), Adds,
           rebuild.doc = {}, UNCHANGED <<object, row, refs, claims, sweep, early, changed>>, marker' \in MarkerType,
           (marker' = marker /\ rebuild.at \in R!Walking \cup {"survey"}) \/ place = "orphans", Thorough'
    PROVE  RebuildInv'
<1>1. place \in RunAt /\ rebuild \in RebuildType
  BY RebuildPlaces DEF RebuildInv, RebuildTyped
<1>2. /\ rebuild' \in RebuildType /\ rebuild'.at = place
      /\ rebuild'.mode = rebuild.mode /\ rebuild'.todo = rebuild.todo /\ rebuild'.doc = {}
  BY <1>1, GoesTo
<1>3. RebuildTyped'
  BY <1>2, RebuildPlaces DEF RebuildInv, RebuildTyped, RebuildStored, Adds
<1>4. Marked'
  BY <1>2, RebuildPlaces DEF RebuildInv, Marked
<1>5. Holding' /\ InHand'
  BY <1>2 DEF RebuildInv, Holding, R!Pruned, InHand
<1>6. QED
  BY <1>3, <1>4, <1>5 DEF RebuildInv

LEMMA SurveyIndexKeeps == ASSUME RebuildInv, R!SurveyIndex PROVE RebuildInv'
<1> DEFINE Gone == {s \in Scans : row[s] # "none" /\ ~R!Present(s)}
<1>1. /\ rebuild.at = "survey" /\ R!Goes("list") /\ R!Drift(Gone)
      /\ UNCHANGED <<object, row, refs, claims, sweep, early, changed, marker>>
      /\ rebuild \in RebuildType /\ report \in ReportType /\ marker \in MarkerType
  BY DEF R!SurveyIndex, R!DocumentGone, R!storeVars, R!indexVars, RebuildInv, RebuildTyped
<1>2. Adds /\ Gone \subseteq report'.drift
  BY <1>1, DriftAdds
<1>3. rebuild'.at = "list" /\ rebuild'.todo = Scans /\ rebuild.doc = {}
  BY <1>1, GoesTo, RebuildPlaces DEF RebuildInv, RebuildTyped, Thorough
<1>4. Thorough'
  BY <1>1, <1>2, <1>3, RebuildPlaces DEF Thorough, Surveyed, R!Present
<1>5. QED
  BY <1>1, <1>2, <1>3, <1>4, PassesOn

LEMMA EndOfListKeeps == ASSUME RebuildInv, R!EndOfList PROVE RebuildInv'
<1>1. /\ rebuild.at = "list" /\ rebuild.todo = {} /\ R!Goes("clear")
      /\ UNCHANGED <<object, row, refs, claims, sweep, early, changed, marker, report>>
      /\ rebuild \in RebuildType /\ report \in ReportType /\ marker \in MarkerType /\ rebuild.doc = {}
  BY DEF R!EndOfList, R!storeVars, R!indexVars, RebuildInv, RebuildTyped
<1>2. rebuild'.at = "clear" /\ rebuild'.todo = {} /\ rebuild'.mode = rebuild.mode
  BY <1>1, GoesTo, RebuildPlaces
<1>3. Adds
  BY <1>1, NothingAdds
<1>4. Thorough'
  BY <1>1, <1>2, <1>3, StaysJudged, RebuildPlaces DEF RebuildInv, Thorough
<1>5. QED
  BY <1>1, <1>3, <1>4, PassesOn, RebuildPlaces

\* However the marker goes, it stays a marker.
LEMMA MarkerGoes == ASSUME marker \in MarkerType, R!Unmarked \/ R!Left PROVE marker' \in MarkerType
BY DEF R!Unmarked, R!Left, MarkerType

LEMMA ClearMarkerKeeps == ASSUME RebuildInv, R!ClearMarker PROVE RebuildInv'
<1>1. /\ rebuild.at = "clear" /\ R!Goes("orphans") /\ (R!Unmarked \/ R!Left)
      /\ UNCHANGED <<object, row, refs, claims, sweep, early, changed, report>>
      /\ rebuild \in RebuildType /\ report \in ReportType /\ marker \in MarkerType
  BY DEF R!ClearMarker, R!storeVars, R!indexVars, RebuildInv, RebuildTyped
<1>2. rebuild'.at = "orphans" /\ rebuild'.todo = rebuild.todo /\ rebuild'.mode = rebuild.mode
  BY <1>1, GoesTo, RebuildPlaces
<1>3. Adds /\ marker' \in MarkerType
  BY <1>1, NothingAdds, MarkerGoes
<1>4. Thorough'
  BY <1>1, <1>2, <1>3, StaysJudged, RebuildPlaces DEF RebuildInv, Thorough
<1>5. rebuild.doc = {}
  BY <1>1, RebuildPlaces DEF RebuildInv, RebuildTyped
<1>6. QED
  BY <1>1, <1>3, <1>4, <1>5, PassesOn

LEMMA EndKeeps == ASSUME RebuildInv, R!SurveyOrphans \/ R!FailRebuild \/ R!KillRebuild PROVE RebuildInv'
<1>1. /\ rebuild' = R!Off /\ report' = R!NoReport /\ changed' = {}
      /\ UNCHANGED <<object, row, refs, claims, sweep, early>>
  BY DEF R!SurveyOrphans, R!FailRebuild, R!KillRebuild, R!Ends, R!storeVars, R!indexVars
<1>2. marker' \in MarkerType
  BY MarkerGoes DEF R!SurveyOrphans, R!FailRebuild, R!KillRebuild, RebuildInv, RebuildTyped
<1>3. rebuild' \in RebuildType /\ rebuild'.at = "off" /\ rebuild'.doc = {}
  BY <1>1, RebuildPlaces DEF R!Off, RebuildType, Modes
<1>4. report' \in ReportType
  BY <1>1 DEF R!NoReport, ReportType
<1>5. RebuildTyped'
  BY <1>1, <1>2, <1>3, <1>4, RebuildPlaces DEF RebuildInv, RebuildTyped, RebuildStored
<1>6. Marked'
  BY <1>3, RebuildPlaces DEF Marked
<1>7. Holding' /\ InHand'
  BY <1>1, <1>3 DEF RebuildInv, Holding, R!Pruned, InHand
<1>8. Thorough'
  BY <1>3, RebuildPlaces DEF Thorough
<1>9. QED
  BY <1>5, <1>6, <1>7, <1>8 DEF RebuildInv

-----------------------------------------------------------------------------
(* The theorems.                                                             *)

LEMMA StoreSteps == ASSUME RebuildInv, R!StoreNext PROVE RebuildInv'
<1>1. CASE \E s \in Scans : R!StoreDocument(s) \/ R!PutResult(s) \/ R!LoseScan(s)
  BY <1>1, StoreDocumentKeeps, PutResultKeeps, LoseScanKeeps
<1>2. CASE \E s \in Scans : R!Expire(s) \/ R!CollectDangling(s) \/ R!SweepBucket(s)
  BY <1>2, ExpireKeeps, CollectDanglingKeeps, SweepBucketKeeps
<1>3. CASE R!StartSweep \/ R!EndSweep \/ R!AgeMarker
  BY <1>3, SweepKeeps
<1>4. QED
  BY <1>1, <1>2, <1>3 DEF R!StoreNext

LEMMA RunSteps == ASSUME RebuildInv, R!RebuildNext PROVE RebuildInv'
<1>1. CASE \E mode \in {"apply", "verify"} : R!StartRebuild(mode)
  BY <1>1, StartRebuildKeeps DEF Modes
<1>2. CASE R!SurveyIndex \/ R!EndOfList \/ R!ClearMarker \/ R!SurveyOrphans \/ R!FailRebuild \/ R!KillRebuild
  BY <1>2, SurveyIndexKeeps, EndOfListKeeps, ClearMarkerKeeps, EndKeeps
<1>3. CASE \E s \in Scans : R!ListDocument(s) \/ R!ReadDocument(s) \/ R!AskReferences(s) \/ R!AskRow(s)
  BY <1>3, ListDocumentKeeps, ReadDocumentKeeps, AskReferencesKeeps, AskRowKeeps
<1>4. CASE \E s \in Scans : R!CheckEvidence(s) \/ R!Merge(s) \/ R!Write(s)
  BY <1>4, CheckEvidenceKeeps, MergeKeeps, WriteKeeps
<1>5. QED
  BY <1>1, <1>2, <1>3, <1>4 DEF R!RebuildNext

LEMMA RebuildRests == ASSUME RebuildInv, UNCHANGED R!vars PROVE RebuildInv'
<1>1. UNCHANGED <<object, row, refs, claims, marker, rebuild, report, sweep, early, changed>>
  BY DEF R!vars
<1>2. InHand' /\ Thorough'
  BY <1>1, RestKeeps DEF RebuildInv
<1>3. RebuildTyped' /\ Marked' /\ Holding'
  BY <1>1 DEF RebuildInv, RebuildTyped, RebuildStored, Marked, Holding, R!Pruned
<1>4. QED
  BY <1>2, <1>3 DEF RebuildInv

LEMMA RebuildStarts == R!Init => RebuildInv
<1> SUFFICES ASSUME R!Init PROVE RebuildInv
  OBVIOUS
<1>1. /\ RebuildStored /\ claims = {} /\ marker = [own |-> "absent", left |-> "absent"] /\ rebuild = R!Off
      /\ report = R!NoReport /\ sweep = R!NoSweep /\ early = FALSE /\ changed = {}
  BY DEF R!Init, RebuildStored, Objects, Entries
<1>2. rebuild \in RebuildType /\ rebuild.at = "off" /\ rebuild.doc = {} /\ rebuild.mode = "apply"
  BY <1>1, RebuildPlaces DEF R!Off, RebuildType, Modes
<1>3. marker \in MarkerType
  BY <1>1 DEF MarkerType
<1>4. report \in ReportType
  BY <1>1 DEF R!NoReport, ReportType
<1>5. sweep \in SweepType
  BY <1>1 DEF R!NoSweep, SweepType
<1>6. RebuildTyped
  BY <1>1, <1>2, <1>3, <1>4, <1>5, RebuildPlaces DEF RebuildTyped
<1>7. Marked /\ Thorough
  BY <1>2, RebuildPlaces DEF Marked, Thorough
<1>8. Holding /\ InHand
  BY <1>1, <1>2 DEF Holding, InHand
<1>9. QED
  BY <1>6, <1>7, <1>8 DEF RebuildInv

LEMMA RebuildStep == ASSUME RebuildInv, [R!Next]_R!vars PROVE RebuildInv'
BY StoreSteps, RunSteps, RebuildRests DEF R!Next

\* Every variable keeps its type; an entry of the index has its references, and the run
\* has a document in hand exactly while it is at work on one.
LEMMA RebuildTypes == RebuildInv => R!TypeOK
BY DEF RebuildInv, RebuildTyped, RebuildStored, R!TypeOK, Objects, Entries, MarkerType,
       RebuildType, ReportType, SweepType, RunAt, Modes

\* A rebuild puts nothing back that retention deleted (prunedScan), unless retention did
\* so between the question and the write.
LEMMA PrunedIsLeft == ASSUME RebuildInv, [R!Next]_R!vars PROVE R!LeavesPruned
<1>0. SUFFICES ASSUME NEW s \in Scans, s \notin changed, R!Pruned(s), rebuild.at # "off"
               PROVE  row'[s] = "none"
  BY DEF R!LeavesPruned
<1>1. row[s] = "none" /\ row \in [Scans -> Entries]
  BY <1>0 DEF R!Pruned, RebuildInv, RebuildTyped, RebuildStored
<1>2. ASSUME NEW t \in Scans, R!PutResult(t) PROVE row'[s] = "none"
  <2>1. t # s
    BY <1>0, <1>2 DEF R!PutResult, RebuildInv, Holding
  <2>2. QED
    BY <1>1, <1>2, <2>1 DEF R!PutResult
<1>3. ASSUME NEW t \in Scans, R!Expire(t) PROVE row'[s] = "none"
  BY <1>1, <1>3 DEF R!Expire
<1>4. ASSUME NEW t \in Scans, R!Write(t) PROVE row'[s] = "none"
  <2>1. t # s
    BY <1>0, <1>4 DEF R!Write, RebuildInv, InHand
  <2>2. QED
    BY <1>1, <1>4, <2>1 DEF R!Write
<1>5. ASSUME R!StoreNext, ~(\E t \in Scans : R!PutResult(t) \/ R!Expire(t)) PROVE row' = row
  BY <1>5 DEF R!StoreNext, R!StoreDocument, R!LoseScan, R!CollectDangling, R!SweepBucket,
              R!StartSweep, R!Markers, R!EndSweep,
              R!AgeMarker, R!indexVars
<1>6. ASSUME R!RebuildNext, ~(\E t \in Scans : R!Write(t)) PROVE row' = row
  BY <1>6 DEF R!RebuildNext, R!StartRebuild, R!Marks, R!SurveyIndex, R!EndOfList, R!ClearMarker,
              R!SurveyOrphans, R!FailRebuild,
              R!KillRebuild, R!ListDocument, R!ReadDocument, R!AskReferences, R!AskRow,
              R!CheckEvidence, R!IsNewer, R!Merge, R!Account, R!DocumentGone, R!indexVars
<1>7. CASE UNCHANGED R!vars
  BY <1>1, <1>7 DEF R!vars
<1>8. CASE R!StoreNext
  BY <1>1, <1>2, <1>3, <1>5, <1>8
<1>9. CASE R!RebuildNext
  BY <1>1, <1>4, <1>6, <1>9
<1>10. QED
  BY <1>0, <1>7, <1>8, <1>9 DEF R!Next

\* Nothing is swept while the index is half built, except by a sweep that was already
\* under way or after the day a marker counts for (markRebuild, rebuildMarkerIsStale).
LEMMA HalfBuiltIsSpared == ASSUME RebuildInv, [R!Next]_R!vars PROVE R!SparesHalfBuilt
<1>0. SUFFICES ASSUME NEW s \in Scans, R!Swept(s), rebuild.at \in R!Walking, rebuild.mode = "apply"
               PROVE  early \/ marker.own = "aged"
  BY DEF R!SparesHalfBuilt
<1>1. object'[s] # object[s] /\ sweep' # sweep
  BY <1>0 DEF R!Swept, R!Present
<1>2. ASSUME NEW t \in Scans, R!SweepBucket(t) PROVE early \/ marker.own = "aged"
  BY <1>0, <1>2 DEF R!SweepBucket, RebuildInv, Marked
<1>3. ASSUME R!StoreNext, ~(\E t \in Scans : R!SweepBucket(t)) PROVE object' = object \/ sweep' = sweep
  BY <1>3 DEF R!StoreNext, R!StoreDocument, R!PutResult, R!LoseScan, R!Expire, R!CollectDangling,
              R!StartSweep, R!Markers, R!EndSweep,
              R!AgeMarker
<1>4. ASSUME R!RebuildNext PROVE object' = object
  BY <1>4 DEF R!RebuildNext, R!StartRebuild, R!Marks, R!SurveyIndex, R!EndOfList, R!ClearMarker,
              R!SurveyOrphans, R!FailRebuild,
              R!KillRebuild, R!ListDocument, R!ReadDocument, R!AskReferences, R!AskRow,
              R!CheckEvidence, R!IsNewer, R!Merge, R!Account, R!DocumentGone, R!Write,
              R!storeVars
<1>5. CASE UNCHANGED R!vars
  BY <1>1, <1>5 DEF R!vars
<1>6. QED
  BY <1>0, <1>1, <1>2, <1>3, <1>4, <1>5 DEF R!Next

\* When a run ends, each scan nothing else touched meanwhile agrees with its document,
\* was pruned, or is in the report: a green verification means no drift.
LEMMA NothingIsMissed == RebuildInv => R!RunIsThorough
BY DEF RebuildInv, Thorough, Surveyed, Judged, R!RunIsThorough, R!Present

-----------------------------------------------------------------------------
(* The pages of a walk.                                                      *)

Ascends(p) == \A i, j \in DOMAIN p : i < j => p[i] < p[j]


\* A finite set of numbers is in some order.
LEMMA Enumerated ==
    ASSUME NEW S, S \subseteq Nat, IsFiniteSet(S)
    PROVE  \E p \in [1..Cardinality(S) -> S] : Ascends(p)
<1> DEFINE Listed(X) == \E p \in [1..Cardinality(X) -> X] : Ascends(p)
           Sizes == {n \in Nat : \E X \in SUBSET S : ~Listed(X) /\ Cardinality(X) = n}
<1>1. SUFFICES ASSUME ~Listed(S) PROVE FALSE
  OBVIOUS
<1>2. \A X \in SUBSET S : IsFiniteSet(X) /\ Cardinality(X) \in Nat
  BY FS_Subset, FS_CardinalityType
<1>3. Sizes \subseteq Nat /\ Cardinality(S) \in Sizes
  BY <1>1, <1>2
<1>4. PICK n \in Sizes : \A m \in Sizes : n <= m
  <2> HIDE DEF Sizes
  <2>1. QED
    BY <1>3, Least
<1>5. n \in Nat
  BY <1>3
<1>6. PICK X \in SUBSET S : ~Listed(X) /\ Cardinality(X) = n
  BY <1>4
<1>7. X # {}
  <2>1. SUFFICES ASSUME X = {} PROVE FALSE
    OBVIOUS
  <2>2. Cardinality(X) = 0 /\ 1..0 = {}
    BY <2>1, FS_EmptySet
  <2>3. [i \in {} |-> i] \in [1..Cardinality(X) -> X] /\ Ascends([i \in {} |-> i])
    BY <2>2 DEF Ascends
  <2>4. QED
    BY <1>6, <2>3
<1>8. PICK a \in X : \A l \in X : a <= l
  BY <1>7, Least
<1> DEFINE Y == X \ {a}
<1>9. Cardinality(Y) = n - 1 /\ n - 1 \in Nat /\ Y \in SUBSET S
  <2>1. Cardinality(Y) = Cardinality(X) - 1
    BY <1>2, <1>8, FS_RemoveElement
  <2>2. Cardinality(Y) \in Nat
    BY <1>2
  <2>3. QED
    BY <1>6, <2>1, <2>2
<1>10. Listed(Y)
  <2>1. n - 1 \notin Sizes
    <3> HIDE DEF Sizes
    <3>1. QED
      BY <1>3, <1>4, <1>5, <1>9
  <2>2. QED
    BY <1>9, <2>1
<1>11. PICK p \in [1..(n - 1) -> Y] : Ascends(p)
  BY <1>9, <1>10
<1> DEFINE q == [i \in 1..n |-> IF i = 1 THEN a ELSE p[i - 1]]
<1>12. \A i \in 1..n : i # 1 => i - 1 \in 1..(n - 1) /\ p[i - 1] \in Y
  BY <1>5, <1>11
<1>13. q \in [1..n -> X]
  BY <1>8, <1>12
<1>14. ASSUME NEW i \in 1..n, NEW j \in 1..n, i < j PROVE q[i] < q[j]
  <2>1. j # 1 /\ q[j] = p[j - 1] /\ p[j - 1] \in Y /\ j - 1 \in 1..(n - 1)
    BY <1>5, <1>12, <1>14
  <2>2. a \in Nat /\ \A y \in Y : y \in Nat /\ a < y
    BY <1>8
  <2>3. CASE i = 1
    BY <2>1, <2>2, <2>3
  <2>4. CASE i # 1
    <3>1. i - 1 \in 1..(n - 1) /\ q[i] = p[i - 1] /\ i - 1 < j - 1
      BY <1>5, <1>12, <1>14, <2>4
    <3>2. DOMAIN p = 1..(n - 1)
      BY <1>11
    <3>3. QED
      BY <1>11, <2>1, <3>1, <3>2 DEF Ascends
  <2>5. QED
    BY <2>3, <2>4
<1>15. Ascends(q)
  BY <1>14 DEF Ascends
<1>16. QED
  BY <1>6, <1>13, <1>15

\* A set in order has each of its numbers in its place.
LEMMA OnceEach ==
    ASSUME NEW S, S \subseteq Nat, IsFiniteSet(S), NEW p \in [1..Cardinality(S) -> S], Ascends(p)
    PROVE  \A s \in S : \E i \in 1..Cardinality(S) : p[i] = s
<1>1. Cardinality(S) \in Nat
  BY FS_CardinalityType
<1>2. ASSUME NEW i \in 1..Cardinality(S), NEW j \in 1..Cardinality(S), p[i] = p[j] PROVE i = j
  <2>1. p[i] \in Nat /\ p[j] \in Nat /\ DOMAIN p = 1..Cardinality(S)
    OBVIOUS
  <2>2. ~(i < j) /\ ~(j < i)
    BY <1>2, <2>1 DEF Ascends
  <2>3. QED
    BY <1>1, <2>2
<1>3. p \in Injection(1..Cardinality(S), S)
  BY <1>2 DEF Injection, IsInjective
<1>4. Cardinality(1..Cardinality(S)) = Cardinality(S)
  BY <1>1, FS_Interval
<1>5. p \in Surjection(1..Cardinality(S), S)
  BY <1>3, <1>4, FS_Injection
<1>6. QED
  BY <1>5 DEF Surjection

\* A page holds the first rows of a set, in order, and at most Batch of them.
LEMMA PageHolds ==
    ASSUME M!SchemaAssumption, NEW S, S \subseteq Rows, S # {}
    PROVE  \E n \in 1..Batch :
             /\ M!Page(S) \in [1..n -> Rows] /\ Ascends(M!Page(S)) /\ \A i \in 1..n : M!Page(S)[i] \in S
             /\ \A r \in S : (\E i \in 1..n : M!Page(S)[i] = r) \/ (\A i \in 1..n : M!Page(S)[i] < r)
<1> DEFINE G == M!FirstOf(S)
           Before(r) == {q \in S : q < r}
           n == Cardinality(G)
<1>1. S \subseteq Nat /\ IsFiniteSet(S) /\ Batch \in Nat \ {0} /\ Rows \subseteq Nat
  BY FS_Subset, Finite DEF M!SchemaAssumption
<1>2. \A T \in SUBSET S : IsFiniteSet(T) /\ Cardinality(T) \in Nat
  BY <1>1, FS_Subset, FS_CardinalityType
<1>3. G \in SUBSET S /\ G = {r \in S : Cardinality(Before(r)) < Batch}
  BY Counting DEF M!FirstOf
<1>4. \A r \in S : Before(r) \in SUBSET S
  OBVIOUS
<1>5. \A r, s \in S : r <= s => Cardinality(Before(r)) <= Cardinality(Before(s))
  <2>1. SUFFICES ASSUME NEW r \in S, NEW s \in S, r <= s PROVE Cardinality(Before(r)) <= Cardinality(Before(s))
    OBVIOUS
  <2>2. \A q \in S : q \in Nat
    BY <1>1
  <2>3. \A q \in S : q < r => q < s
    BY <2>1, <2>2
  <2>4. Before(r) \in SUBSET Before(s)
    BY <2>3
  <2>5. QED
    BY <1>2, <1>4, <2>4, FS_Subset
<1> HIDE DEF Before
<1>6. n \in Nat /\ IsFiniteSet(G) /\ G \subseteq Nat
  BY <1>1, <1>2, <1>3
<1>7. M!Page(S) \in [1..n -> G] /\ Ascends(M!Page(S))
  <2>1. \E p \in [1..n -> G] : Ascends(p)
    BY <1>6, Enumerated
  <2>2. QED
    BY <2>1, Counting DEF M!Page, Ascends
<1>8. \A f \in G : \E i \in 1..n : M!Page(S)[i] = f
  BY <1>6, <1>7, OnceEach
<1>9. n # 0
  <2>1. PICK m \in S : \A l \in S : m <= l
    BY <1>1, Least
  <2>2. \A q \in S : q \in Nat
    BY <1>1
  <2>3. \A q \in S : ~ (q < m)
    BY <2>1, <2>2
  <2>4. Before(m) = {}
    BY <2>3 DEF Before
  <2>5. m \in G
    BY <1>1, <1>3, <2>4, FS_EmptySet
  <2>6. QED
    BY <1>6, <2>5, FS_EmptySet
<1>10. n <= Batch
  <2>1. n \in 1..n /\ M!Page(S)[n] \in G
    BY <1>6, <1>7, <1>9
  <2> DEFINE g == M!Page(S)[n]
             Fewer == G \ {g}
  <2>2. Fewer \subseteq Before(g)
    <3>1. SUFFICES ASSUME NEW f \in G, f # g PROVE f < g
      BY <1>3 DEF Before
    <3>2. PICK i \in 1..n : M!Page(S)[i] = f
      BY <1>8
    <3>3. i < n /\ DOMAIN M!Page(S) = 1..n
      BY <1>6, <1>7, <3>1, <3>2
    <3>4. QED
      BY <1>7, <2>1, <3>2, <3>3 DEF Ascends
  <2>3. Cardinality(Fewer) <= Cardinality(Before(g)) /\ Cardinality(Before(g)) < Batch
    BY <1>2, <1>3, <1>4, <2>1, <2>2, FS_Subset
  <2>4. Cardinality(Fewer) = n - 1
    <3> HIDE DEF g, n
    <3>1. Cardinality(G \ {g}) = Cardinality(G) - 1
      BY <1>6, <2>1, FS_RemoveElement DEF g
    <3>2. QED
      BY <3>1 DEF n
  <2>5. Cardinality(Before(g)) \in Nat
    BY <1>2, <1>3, <1>4, <2>1
  <2>6. QED
    BY <1>1, <1>6, <2>3, <2>4, <2>5
<1>11. ASSUME NEW r \in S, r \notin G PROVE \A i \in 1..n : M!Page(S)[i] < r
  <2>1. SUFFICES ASSUME NEW i \in 1..n PROVE M!Page(S)[i] < r
    OBVIOUS
  <2>2. M!Page(S)[i] \in G /\ M!Page(S)[i] \in S /\ Cardinality(Before(M!Page(S)[i])) < Batch
    BY <1>3, <1>7
  <2>3. ~ (Cardinality(Before(r)) < Batch)
    BY <1>3, <1>11
  <2>4. Cardinality(Before(r)) \in Nat /\ Cardinality(Before(M!Page(S)[i])) \in Nat
    BY <1>2, <1>4, <2>2
  <2>5. ~ (Cardinality(Before(r)) <= Cardinality(Before(M!Page(S)[i])))
    BY <1>1, <2>2, <2>3, <2>4
  <2>6. ~ (r <= M!Page(S)[i])
    BY <1>5, <2>2, <2>5
  <2>7. r \in Nat /\ M!Page(S)[i] \in Nat
    BY <1>1, <2>2
  <2>8. QED
    BY <2>6, <2>7
<1>12. n \in 1..Batch /\ M!Page(S) \in [1..n -> Rows] /\ \A i \in 1..n : M!Page(S)[i] \in S
  BY <1>1, <1>3, <1>6, <1>7, <1>9, <1>10
<1>13. QED
  BY <1>7, <1>8, <1>11, <1>12

-----------------------------------------------------------------------------
(* Types.                                                                    *)

Pages == UNION {[1..n -> Rows] : n \in 0..Batch}
Afters == {0} \cup Rows
InARow == 0..MaxInARow
Tos == 0..M!Target
Stmts == 1..3
OpenerType == [at : M!At, to : Tos, stmt : Stmts, page : Pages, after : Afters, failed : BOOLEAN, inARow : InARow]
Columns == {"results", "document", "summary", "references", "refs_indexed"}

\* A page that is not empty has a first row and a rest.
LEMMA PageParts ==
    ASSUME M!SchemaAssumption, NEW p \in Pages, p # <<>>
    PROVE  /\ Head(p) \in Rows /\ Head(p) = p[1] /\ 1 \in DOMAIN p /\ Tail(p) \in Pages
           /\ \A i \in DOMAIN Tail(p) : i + 1 \in DOMAIN p /\ Tail(p)[i] = p[i + 1] /\ i \in Nat \ {0}
           /\ \A i \in DOMAIN p : i # 1 => i - 1 \in DOMAIN Tail(p) /\ i \in Nat \ {0} /\ p[i] = Tail(p)[i - 1]
<1>1. Batch \in Nat
  BY DEF M!SchemaAssumption
<1>2. PICK n \in 0..Batch : p \in [1..n -> Rows]
  BY DEF Pages
<1>3. n \in Nat /\ n <= Batch /\ p \in Seq(Rows) /\ Len(p) = n
  BY <1>1, <1>2
<1>4. n # 0
  BY <1>2, <1>3
<1>5. Tail(p) \in Seq(Rows) /\ Len(Tail(p)) = n - 1 /\ \A i \in 1..(n - 1) : Tail(p)[i] = p[i + 1]
  BY <1>3, <1>4
<1>6. n - 1 \in 0..Batch /\ Tail(p) \in [1..(n - 1) -> Rows]
  <2>1. n - 1 \in 0..Batch
    BY <1>1, <1>3, <1>4
  <2>2. \A t \in Seq(Rows) : t \in [1..Len(t) -> Rows]
    OBVIOUS
  <2>3. QED
    BY <1>5, <2>1, <2>2
<1>7. Tail(p) \in Pages
  BY <1>6 DEF Pages
<1>8. Head(p) = p[1] /\ 1 \in 1..n
  BY <1>3, <1>4
<1>9. DOMAIN p = 1..n /\ DOMAIN Tail(p) = 1..(n - 1)
  BY <1>2, <1>6
<1>10. \A i \in 1..(n - 1) : i + 1 \in 1..n /\ Tail(p)[i] = p[i + 1] /\ i \in Nat \ {0}
  BY <1>3, <1>5
<1>11. \A i \in 1..n : i # 1 => i - 1 \in 1..(n - 1) /\ i \in Nat \ {0} /\ p[i] = Tail(p)[i - 1]
  BY <1>3, <1>5
<1>12. QED
  BY <1>2, <1>7, <1>8, <1>9, <1>10, <1>11

LEMMA PagesAre ==
    ASSUME M!SchemaAssumption
    PROVE  <<>> \in Pages /\ \A n \in 1..Batch : [1..n -> Rows] \subseteq Pages
<1>1. Batch \in Nat
  BY DEF M!SchemaAssumption
<1>2. <<>> \in [1..0 -> Rows] /\ 0 \in 0..Batch
  BY <1>1
<1>3. \A n \in 1..Batch : n \in 0..Batch
  BY <1>1
<1>4. QED
  BY <1>2, <1>3 DEF Pages

SchemaStored ==
    /\ dialect \in {"sqlite", "postgres", "mysql"} /\ version \in 0..(M!Target + 1) /\ raced \in BOOLEAN
    /\ columns \subseteq Columns /\ named \subseteq Rows /\ objects \subseteq Rows /\ readable \subseteq Rows
    /\ document \in [Rows -> {"row", "none"}]
    /\ recorded \in [Rows -> {"unknown", "recorded", "underivable"}]
    /\ \A r \in Rows : document[r] = "row" => "document" \in columns
SchemaTyped == SchemaStored /\ opener \in [Openers -> OpenerType]

\* What each version's statements are.
LEMMA Versions ==
    /\ M!Migrations[1] = {"results"} /\ M!Migrations[2] = {"summary"} /\ M!Migrations[3] = {"document"}
    /\ M!Migrations[4] = {"references", "refs_indexed"}
    /\ \A v \in 1..3 : Cardinality(M!Migrations[v]) = 1
    /\ Cardinality(M!Migrations[4]) = 2
    /\ M!Statement(1, 1) = "results" /\ M!Statement(2, 1) = "summary" /\ M!Statement(3, 1) = "document"
    /\ M!Statement(4, 1) = "references" /\ M!Statement(4, 2) = "refs_indexed"
    /\ UNION {M!Migrations[v] : v \in 1..M!Target} = Columns
<1>1. /\ M!Migrations[1] = {"results"} /\ M!Migrations[2] = {"summary"} /\ M!Migrations[3] = {"document"}
      /\ M!Migrations[4] = {"references", "refs_indexed"}
  BY DEF M!Migrations
<1>2. Cardinality({"results"}) = 1 /\ Cardinality({"summary"}) = 1 /\ Cardinality({"document"}) = 1
  BY FS_Singleton
<1>3. \A v \in 1..3 : Cardinality(M!Migrations[v]) = 1
  BY <1>1, <1>2
<1>4. Cardinality(M!Migrations[4]) = 2
  <2>1. IsFiniteSet({"references"}) /\ Cardinality({"references"}) = 1
    BY FS_Singleton
  <2>2. Cardinality({"references"} \cup {"refs_indexed"}) = 2
    BY <2>1, FS_AddElement
  <2>3. M!Migrations[4] = {"references"} \cup {"refs_indexed"}
    BY <1>1
  <2>4. QED
    BY <2>2, <2>3
<1>5. M!Statement(1, 1) = "results" /\ M!Statement(2, 1) = "summary" /\ M!Statement(3, 1) = "document"
  BY <1>1 DEF M!Statement, M!Target
<1>6. M!Statement(4, 1) = "references" /\ M!Statement(4, 2) = "refs_indexed"
  BY DEF M!Statement, M!Target
<1>7. UNION {M!Migrations[v] : v \in 1..M!Target} = Columns
  <2>1. 1..M!Target = {1, 2, 3, 4}
    BY DEF M!Target
  <2>2. UNION {M!Migrations[v] : v \in {1, 2, 3, 4}} = M!Migrations[1] \cup M!Migrations[2] \cup M!Migrations[3] \cup M!Migrations[4]
    OBVIOUS
  <2>3. QED
    BY <1>1, <2>1, <2>2 DEF Columns
<1>8. QED
  BY <1>1, <1>3, <1>4, <1>5, <1>6, <1>7

-----------------------------------------------------------------------------
(* The inductive invariant.                                                  *)

\* A walk leaves no document behind it, unless it says that it failed, ...
Walked(w) == w.at \in {"page", "move", "record"} /\ ~w.failed =>
    \A r \in Rows : document[r] = "row" => r > w.after
\* ... steps over none in the page it has in hand, ...
InPage(w) == w.at \in {"move", "record"} =>
    /\ w.page # <<>> /\ Ascends(w.page) /\ \A i \in DOMAIN w.page : w.after < w.page[i]
    /\ \A r \in Rows : document[r] = "row" /\ r > w.after =>
          (\E i \in DOMAIN w.page : w.page[i] = r) \/ (\A i \in DOMAIN w.page : w.page[i] < r)
\* ... and has written an object before it empties the row.
Written(w) == w.at = "record" => Head(w.page) \in objects
\* The column is dropped only when nothing is left in it.
Emptied(w) == w.at = "apply" /\ w.to = M!Documents => \A r \in Rows : document[r] = "none"
OpenerWalks(w) == Walked(w) /\ InPage(w) /\ Written(w) /\ Emptied(w)

\* The work of the versions up to v is done.
Earned(v) == /\ v >= 1 => "results" \in columns
             /\ v >= 2 => "summary" \in columns
             /\ v >= 3 => "document" \notin columns
             /\ v >= 4 => "references" \in columns /\ "refs_indexed" \in columns
\* A migration is at a version the ones before which are done, ...
Climbs(w) == w.at \in M!Migrating => w.to \in 1..M!Target /\ Earned(w.to - 1)
\* ... and so are its statements, where they are steps of their own.
Stated(w) == w.at = "apply" /\ dialect = "mysql" /\ w.stmt >= 2 =>
    /\ w.to = 1 => "results" \in columns
    /\ w.to = 2 => "summary" \in columns
    /\ w.to = 3 => "document" \notin columns
    /\ w.to = 4 => "references" \in columns /\ (w.stmt >= 3 => "refs_indexed" \in columns)
\* Who has the store open has all of it, and a walk stops at the bound.
Full(w) == /\ w.at \in {"count", "index", "open"} => Earned(M!Target)
           /\ w.at = "index" => w.inARow < MaxInARow
Serves(w) == Climbs(w) /\ Stated(w) /\ Full(w)

Records == /\ version <= M!Target => Earned(version)
           /\ columns # {} => "results" \in columns
\* SQLite: as long as no two migrations met, the columns are those of the version.
OneMigrates == dialect = "sqlite" /\ ~raced =>
    /\ \A o, p \in Openers : opener[o].at \in M!Migrating /\ opener[p].at \in M!Migrating => o = p
    /\ \A o \in Openers : opener[o].at \in M!Migrating => opener[o].to = version + 1
    /\ version \in {1, 2} => "document" \in columns
    /\ version = 0 => columns = {}

SchemaInv == SchemaTyped /\ Records /\ OneMigrates /\ \A o \in Openers : OpenerWalks(opener[o]) /\ Serves(opener[o])

-----------------------------------------------------------------------------
(* What a step of one process leaves to the others.                          *)

\* Documents only leave their rows, objects stay, and done work stays done.
Grows ==
    /\ \A r \in Rows : document'[r] = "row" => document[r] = "row"
    /\ \A r \in Rows : document[r] \in {"row", "none"} /\ document'[r] \in {"row", "none"}
    /\ objects \subseteq objects' /\ dialect' = dialect
    /\ columns \ {"document"} \subseteq columns'
    /\ "results" \in columns /\ "document" \in columns' => "document" \in columns

LEMMA WalksOn == ASSUME Grows, NEW w, OpenerWalks(w) PROVE OpenerWalks(w)'
<1>1. Walked(w)' /\ Written(w)'
  BY DEF Grows, OpenerWalks, Walked, Written
<1>2. InPage(w)'
  BY DEF Grows, OpenerWalks, InPage
<1>3. Emptied(w)'
  BY DEF Grows, OpenerWalks, Emptied
<1>4. QED
  BY <1>1, <1>2, <1>3 DEF OpenerWalks

LEMMA EarnedStays == ASSUME Grows, NEW v \in Nat, Earned(v) PROVE Earned(v)'
BY DEF Grows, Earned

LEMMA ServesOn == ASSUME Grows, NEW w \in OpenerType, Serves(w) PROVE Serves(w)'
<1>1. w.to \in Nat /\ w.stmt \in Nat
  BY DEF OpenerType, Tos, Stmts, M!Target
<1>2. Climbs(w)'
  <2>1. SUFFICES ASSUME w.at \in M!Migrating PROVE w.to \in 1..M!Target /\ Earned(w.to - 1)'
    BY DEF Climbs
  <2>2. w.to \in 1..M!Target /\ Earned(w.to - 1)
    BY <2>1 DEF Serves, Climbs
  <2>3. w.to - 1 \in Nat
    BY <2>2 DEF M!Target
  <2>4. QED
    BY <2>2, <2>3, EarnedStays
<1>3. Full(w)'
  <2>1. M!Target \in Nat
    BY DEF M!Target
  <2>2. QED
    BY <2>1, EarnedStays DEF Serves, Full
<1>4. Stated(w)'
  <2>1. SUFFICES ASSUME w.at = "apply", dialect = "mysql", w.stmt >= 2
                 PROVE  /\ w.to = 1 => "results" \in columns'
                        /\ w.to = 2 => "summary" \in columns'
                        /\ w.to = 3 => "document" \notin columns'
                        /\ w.to = 4 => "references" \in columns' /\ (w.stmt >= 3 => "refs_indexed" \in columns')
    BY DEF Stated, Grows
  <2>2. w.to = 3 => "results" \in columns
    <3>1. SUFFICES ASSUME w.to = 3 PROVE "results" \in columns
      OBVIOUS
    <3>2. Earned(2)
      BY <2>1, <3>1 DEF Serves, Climbs, M!Migrating
    <3>3. QED
      BY <3>2 DEF Earned
  <2>3. /\ w.to = 1 => "results" \in columns
        /\ w.to = 2 => "summary" \in columns
        /\ w.to = 3 => "document" \notin columns
        /\ w.to = 4 => "references" \in columns /\ (w.stmt >= 3 => "refs_indexed" \in columns)
    BY <2>1 DEF Serves, Stated
  <2>4. QED
    BY <2>2, <2>3 DEF Grows
<1>5. QED
  BY <1>2, <1>3, <1>4 DEF Serves

\* A process whose record becomes w, in a step that leaves the rest as it is or grows it.
LEMMA OneSteps ==
    ASSUME SchemaInv, Grows, NEW o \in Openers, NEW w \in OpenerType, opener' = [opener EXCEPT ![o] = w],
           OpenerWalks(w)', Serves(w)'
    PROVE  /\ opener' \in [Openers -> OpenerType] /\ opener'[o] = w
           /\ \A p \in Openers \ {o} : opener'[p] = opener[p]
           /\ \A p \in Openers : OpenerWalks(opener[p])' /\ Serves(opener[p])'
<1>1. opener \in [Openers -> OpenerType] /\ \A p \in Openers : OpenerWalks(opener[p]) /\ Serves(opener[p])
  BY DEF SchemaInv, SchemaTyped
<1>2. opener' \in [Openers -> OpenerType] /\ opener'[o] = w /\ \A p \in Openers \ {o} : opener'[p] = opener[p]
  BY <1>1
<1>3. ASSUME NEW p \in Openers PROVE OpenerWalks(opener[p])' /\ Serves(opener[p])'
  <2>1. CASE p = o
    BY <1>2, <2>1 DEF OpenerWalks, Walked, InPage, Written, Emptied, Serves, Climbs, Stated, Full,
                      Earned
  <2>2. CASE p # o
    <3> DEFINE u == opener[p]
    <3>1. u \in OpenerType /\ OpenerWalks(u) /\ Serves(u) /\ opener'[p] = u
      BY <1>1, <1>2, <2>2
    <3>2. QED
      BY <3>1, WalksOn, ServesOn DEF OpenerWalks, Walked, InPage, Written, Emptied, Serves, Climbs,
                                     Stated, Full, Earned
  <2>3. QED
    BY <2>1, <2>2
<1>4. QED
  BY <1>2, <1>3

\* A step of one process, put together.
LEMMA Frame ==
    ASSUME SchemaInv, Grows, NEW o \in Openers, NEW w \in OpenerType, M!Becomes(o, w),
           OpenerWalks(w)', Serves(w)', SchemaStored', Records', OneMigrates'
    PROVE  SchemaInv'
<1>1. opener' \in [Openers -> OpenerType] /\ \A p \in Openers : OpenerWalks(opener[p])' /\ Serves(opener[p])'
  BY OneSteps DEF M!Becomes
<1>2. QED
  BY <1>1 DEF SchemaInv, SchemaTyped

\* Who migrates goes on migrating to the same version.
OpenerGoesOn(o, w) == w.at \in M!Migrating => opener[o].at \in M!Migrating /\ w.to = opener[o].to

LEMMA MigratesOn ==
    ASSUME SchemaInv, NEW o \in Openers, NEW w \in OpenerType, M!Becomes(o, w), OpenerGoesOn(o, w),
           UNCHANGED <<dialect, version, columns, raced>>
    PROVE  OneMigrates'
<1>1. opener'[o] = w /\ \A p \in Openers \ {o} : opener'[p] = opener[p]
  BY DEF SchemaInv, SchemaTyped, M!Becomes
<1>2. \A p \in Openers : opener'[p].at \in M!Migrating => opener[p].at \in M!Migrating /\ opener'[p].to = opener[p].to
  BY <1>1 DEF OpenerGoesOn
<1>3. QED
  BY <1>2 DEF SchemaInv, OneMigrates

\* A step that leaves the schema and the rows, but may write an object or references.
LEMMA Quiet ==
    ASSUME SchemaInv, NEW o \in Openers, NEW w \in OpenerType, M!Becomes(o, w), OpenerGoesOn(o, w),
           UNCHANGED <<dialect, version, columns, readable, document, named, raced>>,
           objects \subseteq objects', objects' \subseteq Rows,
           recorded' \in [Rows -> {"unknown", "recorded", "underivable"}],
           OpenerWalks(w) \/ OpenerWalks(w)', Serves(w)
    PROVE  SchemaInv' /\ M!KeepsDocuments
<1>1. Grows
  BY DEF Grows, SchemaInv, SchemaTyped, SchemaStored
<1>2. OpenerWalks(w)' /\ Serves(w)'
  BY <1>1, WalksOn, ServesOn
<1>3. SchemaStored'
  BY DEF SchemaInv, SchemaTyped, SchemaStored
<1>4. Records'
  BY DEF SchemaInv, Records, Earned
<1>5. OneMigrates'
  BY MigratesOn
<1>6. M!KeepsDocuments
  BY DEF M!KeepsDocuments
<1>7. QED
  BY <1>1, <1>2, <1>3, <1>4, <1>5, <1>6, Frame

\* The fields of a process.
LEMMA OpenerParts ==
    ASSUME NEW w \in OpenerType
    PROVE  /\ w.at \in M!At /\ w.to \in 0..4 /\ w.stmt \in 1..3 /\ w.page \in Pages /\ w.after \in Afters
           /\ w.failed \in BOOLEAN /\ w.inARow \in InARow
           /\ DOMAIN w = {"at", "to", "stmt", "page", "after", "failed", "inARow"}
BY DEF OpenerType, Tos, Stmts, M!Target

LEMMA OpenerPlaces ==
    /\ "closed" \in M!At /\ "count" \in M!At /\ "index" \in M!At /\ "open" \in M!At /\ "prepare" \in M!At
    /\ "page" \in M!At /\ "move" \in M!At /\ "record" \in M!At /\ "apply" \in M!At
    /\ 0 \in Tos /\ 1 \in Stmts /\ 0 \in Afters /\ TRUE \in BOOLEAN /\ FALSE \in BOOLEAN
    /\ Rows \subseteq Afters
BY DEF M!At, Tos, Stmts, M!Target, Afters

LEMMA Zero == ASSUME M!SchemaAssumption PROVE 0 \in InARow /\ MaxInARow \in Nat \ {0} /\ \A r \in Rows : r \in Nat /\ r > 0
BY DEF InARow, M!SchemaAssumption

LEMMA Rest ==
    ASSUME NEW w, w.at \in {"closed", "prepare", "count", "index", "open"}
    PROVE  OpenerWalks(w)
BY DEF OpenerWalks, Walked, InPage, Written, Emptied

LEMMA FailsQuietly ==
    ASSUME SchemaInv, M!SchemaAssumption, NEW o \in Openers, M!Fails(o), UNCHANGED <<M!schemaVars, M!rowVars, raced>>
    PROVE  SchemaInv' /\ M!KeepsDocuments
<1>1. M!Closed \in OpenerType /\ M!Closed.at = "closed"
  <2>1. <<>> \in Pages
    BY PagesAre
  <2>2. M!Closed \in OpenerType
    BY <2>1, OpenerPlaces, Zero DEF M!Closed, OpenerType
  <2>3. QED
    BY <2>2 DEF M!Closed
<1>2. M!Becomes(o, M!Closed) /\ OpenerGoesOn(o, M!Closed)
  BY <1>1 DEF M!Fails, M!Becomes, OpenerGoesOn, M!Migrating
<1>3. Serves(M!Closed)
  BY <1>1 DEF Serves, Climbs, Stated, Full, M!Migrating
<1>4. OpenerWalks(M!Closed)
  BY <1>1, Rest
<1>5. UNCHANGED <<dialect, version, columns, readable, document, named, raced, objects, recorded>>
  BY DEF M!schemaVars, M!rowVars
<1>6. objects' \subseteq Rows /\ recorded' \in [Rows -> {"unknown", "recorded", "underivable"}]
  BY <1>5 DEF SchemaInv, SchemaTyped, SchemaStored
<1>7. QED
  BY <1>1, <1>2, <1>3, <1>4, <1>5, <1>6, Quiet

\* A step that moves only its process.
LEMMA OnlyMoves ==
    ASSUME SchemaInv, NEW o \in Openers, NEW w \in OpenerType, M!Becomes(o, w), OpenerGoesOn(o, w),
           UNCHANGED <<M!schemaVars, M!rowVars, raced>>, OpenerWalks(w), Serves(w)
    PROVE  SchemaInv' /\ M!KeepsDocuments
<1>1. UNCHANGED <<dialect, version, columns, readable, document, named, raced, objects, recorded>>
  BY DEF M!schemaVars, M!rowVars
<1>2. objects' \subseteq Rows /\ recorded' \in [Rows -> {"unknown", "recorded", "underivable"}]
  BY <1>1 DEF SchemaInv, SchemaTyped, SchemaStored
<1>3. QED
  BY <1>1, <1>2, Quiet

-----------------------------------------------------------------------------
(* Opening.                                                                  *)

LEMMA OpensCurrent ==
    ASSUME SchemaInv, NEW o \in Openers, NEW place \in {"count", "open"}, version = M!Target,
           M!Goes(o, place), UNCHANGED <<M!schemaVars, M!rowVars, raced>>
    PROVE  SchemaInv' /\ M!KeepsDocuments
<1> DEFINE w == [opener[o] EXCEPT !.at = place]
<1>1. opener[o] \in OpenerType
  BY DEF SchemaInv, SchemaTyped
<1>2. w \in OpenerType /\ w.at = place /\ M!Becomes(o, w)
  <2>1. place \in M!At
    BY OpenerPlaces
  <2>2. opener[o] \in OpenerType /\ DOMAIN opener[o] = {"at", "to", "stmt", "page", "after", "failed", "inARow"}
    BY <1>1, OpenerParts
  <2>3. w \in OpenerType
    BY <1>1, <2>1 DEF OpenerType
  <2>4. w.at = place
    BY <2>2
  <2>5. M!Becomes(o, w)
    BY <2>2 DEF M!Goes, M!Becomes
  <2>6. QED
    BY <2>3, <2>4, <2>5
<1> HIDE DEF w
<1>3. Earned(M!Target)
  BY DEF SchemaInv, Records, M!Target
<1>4. Serves(w) /\ OpenerGoesOn(o, w) /\ OpenerWalks(w)
  BY <1>2, <1>3, Rest DEF Serves, Climbs, Stated, Full, OpenerGoesOn, M!Migrating
<1>5. QED
  BY <1>2, <1>4, OnlyMoves

LEMMA OpenKeeps == ASSUME SchemaInv, NEW o \in Openers, M!Open(o) PROVE SchemaInv' /\ M!KeepsDocuments
<1>1. CASE version = M!Target
  <2>1. /\ M!Becomes(o, [opener[o] EXCEPT !.at = "count"]) /\ UNCHANGED <<M!schemaVars, M!rowVars>>
        /\ raced' = (raced \/ FALSE)
    BY <1>1 DEF M!Open, M!Target
  <2>2. raced' = raced
    BY <2>1 DEF SchemaInv, SchemaTyped, SchemaStored
  <2>3. M!Goes(o, "count")
    BY <2>1 DEF M!Becomes, M!Goes
  <2>4. QED
    BY <1>1, <2>1, <2>2, <2>3, OpensCurrent
<1>2. CASE version # M!Target
  <2>1. PICK w : w = [opener[o] EXCEPT !.at = "prepare", !.to = version + 1]
    OBVIOUS
  <2>2. /\ opener[o].at = "closed" /\ version \in Nat /\ version < 4 /\ M!Becomes(o, w)
        /\ UNCHANGED <<dialect, version, columns, readable, document, named, objects, recorded>>
        /\ raced' = (raced \/ (version < M!Target /\ \E p \in Openers : opener[p].at \in M!Migrating))
    BY <1>2, <2>1 DEF M!Open, M!Target, SchemaInv, SchemaTyped, SchemaStored, M!schemaVars, M!rowVars
  <2>3. w \in OpenerType /\ w.at = "prepare" /\ w.to = version + 1
    <3>1. opener[o] \in OpenerType
      BY DEF SchemaInv, SchemaTyped
    <3>2. version + 1 \in Tos
      BY <2>2 DEF Tos, M!Target
    <3>3. w \in OpenerType
      BY <2>1, <3>1, <3>2, OpenerPlaces DEF OpenerType
    <3>4. w.at = "prepare" /\ w.to = version + 1
      BY <2>1, <3>1, OpenerParts
    <3>5. QED
      BY <3>3, <3>4
  <2>4. raced' \in BOOLEAN /\ (~raced' => ~raced /\ \A p \in Openers : opener[p].at \notin M!Migrating)
    BY <2>2 DEF SchemaInv, SchemaTyped, SchemaStored, M!Target
  <2>5. Grows
    BY <2>2 DEF Grows, SchemaInv, SchemaTyped, SchemaStored
  <2>6. Earned(version)
    BY <2>2 DEF SchemaInv, Records, M!Target
  <2>7. Serves(w)
    <3>1. w.to \in 1..M!Target /\ w.to - 1 = version
      BY <2>2, <2>3 DEF M!Target
    <3>2. QED
      BY <2>3, <2>6, <3>1 DEF Serves, Climbs, Stated, Full
  <2>8. OpenerWalks(w)' /\ Serves(w)'
    <3>1. OpenerWalks(w)
      BY <2>3, Rest
    <3>2. OpenerWalks(w)'
      BY <2>5, <3>1, WalksOn
    <3>3. Serves(w)'
      BY <2>3, <2>5, <2>7, ServesOn
    <3>4. QED
      BY <3>2, <3>3
  <2>9. SchemaStored' /\ Records'
    BY <2>2, <2>4 DEF SchemaInv, SchemaTyped, SchemaStored, Records, Earned
  <2>10. OneMigrates'
    <3>1. opener'[o] = w /\ \A p \in Openers \ {o} : opener'[p] = opener[p]
      BY <2>2 DEF SchemaInv, SchemaTyped, M!Becomes
    <3>2. ~raced' => \A p \in Openers : opener'[p].at \in M!Migrating => p = o
      BY <2>4, <3>1
    <3>3. QED
      BY <2>2, <2>3, <2>4, <3>1, <3>2 DEF SchemaInv, OneMigrates
  <2>11. M!KeepsDocuments
    BY <2>2 DEF M!KeepsDocuments
  <2>12. SchemaInv'
    BY <2>2, <2>3, <2>5, <2>8, <2>9, <2>10, Frame
  <2>13. QED
    BY <2>11, <2>12
<1>3. QED
  BY <1>1, <1>2

LEMMA PrepareKeeps == ASSUME SchemaInv, M!SchemaAssumption, NEW o \in Openers, M!Prepare(o) PROVE SchemaInv' /\ M!KeepsDocuments
<1> DEFINE old == opener[o]
           pending == "document" \in columns /\ \E r \in Rows : document[r] = "row"
<1>1. old \in OpenerType /\ Serves(old) /\ SchemaStored
  BY DEF SchemaInv, SchemaTyped
<1>2. old.at = "prepare" /\ UNCHANGED <<M!schemaVars, M!rowVars, raced>>
  BY DEF M!Prepare, M!Pending
<1>3. CASE old.to = M!Documents /\ pending
  <2> DEFINE w == [old EXCEPT !.at = "page", !.after = 0, !.failed = FALSE, !.inARow = 0]
  <2>1. M!Becomes(o, w)
    BY <1>3 DEF M!Prepare, M!Pending
  <2>2. w \in OpenerType
    BY <1>1, OpenerPlaces, Zero DEF OpenerType
  <2>3. w.at = "page" /\ w.after = 0 /\ w.to = old.to
    BY <1>1, OpenerParts
  <2> HIDE DEF w
  <2>4. OpenerWalks(w)
    BY <2>3, Zero DEF OpenerWalks, Walked, InPage, Written, Emptied
  <2>5. Serves(w) /\ OpenerGoesOn(o, w)
    BY <1>1, <1>2, <2>3 DEF Serves, Climbs, Stated, Full, OpenerGoesOn, M!Migrating
  <2>6. QED
    BY <1>2, <2>1, <2>2, <2>4, <2>5, OnlyMoves
<1>4. CASE ~(old.to = M!Documents /\ pending)
  <2> DEFINE w == [old EXCEPT !.at = "apply", !.stmt = 1]
  <2>1. M!Becomes(o, w)
    BY <1>4 DEF M!Prepare, M!Pending
  <2>2. w \in OpenerType
    BY <1>1, OpenerPlaces DEF OpenerType
  <2>3. w.at = "apply" /\ w.stmt = 1 /\ w.to = old.to
    BY <1>1, OpenerParts
  <2> HIDE DEF w
  <2>4. old.to = M!Documents => \A r \in Rows : document[r] = "none"
    BY <1>1, <1>4 DEF SchemaStored
  <2>5. OpenerWalks(w)
    BY <2>3, <2>4 DEF OpenerWalks, Walked, InPage, Written, Emptied
  <2>6. Serves(w) /\ OpenerGoesOn(o, w)
    BY <1>1, <1>2, <2>3 DEF Serves, Climbs, Stated, Full, OpenerGoesOn, M!Migrating
  <2>7. QED
    BY <1>2, <2>1, <2>2, <2>5, <2>6, OnlyMoves
<1>5. QED
  BY <1>3, <1>4


-----------------------------------------------------------------------------
(* Moving the documents.                                                     *)

LEMMA ServesAs ==
    ASSUME NEW u, NEW w, Serves(u), u.at \in M!Migrating, w.to = u.to,
           w.at \in {"page", "move", "record", "apply"}, w.at = "apply" => w.stmt = 1
    PROVE  Serves(w)
BY DEF Serves, Climbs, Stated, Full, M!Migrating

LEMMA NextPageKeeps ==
    ASSUME SchemaInv, M!SchemaAssumption, NEW o \in Openers, M!NextPage(o)
    PROVE  SchemaInv' /\ M!KeepsDocuments
<1> DEFINE old == opener[o]
           rows == {r \in Rows : document[r] = "row" /\ r > old.after}
<1>1. old \in OpenerType /\ Serves(old) /\ OpenerWalks(old) /\ SchemaStored
  BY DEF SchemaInv, SchemaTyped
<1>2. old.at = "page" /\ UNCHANGED <<M!schemaVars, M!rowVars, raced>>
  BY DEF M!NextPage
<1>3. CASE "document" \notin columns \/ (rows = {} /\ ~M!MovedAll(o))
  <2>1. M!Fails(o)
    BY <1>3 DEF M!NextPage
  <2>2. QED
    BY <1>2, <2>1, FailsQuietly
<1>4. CASE "document" \in columns /\ rows # {}
  <2>1. PICK w : w = [old EXCEPT !.at = "move", !.page = M!Page(rows)]
    OBVIOUS
  <2>2. M!Becomes(o, w)
    BY <1>4, <2>1 DEF M!NextPage
  <2> DEFINE p == M!Page(rows)
  <2>3. PICK n \in 1..Batch :
          /\ p \in [1..n -> Rows] /\ Ascends(p) /\ \A i \in 1..n : p[i] \in rows
          /\ \A r \in rows : (\E i \in 1..n : p[i] = r) \/ (\A i \in 1..n : p[i] < r)
    <3> HIDE DEF rows
    <3>1. rows \subseteq Rows
      BY DEF rows
    <3>2. QED
      BY <1>4, <3>1, PageHolds
  <2>4. p \in Pages /\ DOMAIN p = 1..n /\ p # <<>>
    <3>1. 1 \in 1..n
      BY DEF M!SchemaAssumption
    <3>2. p \in Pages
      BY <2>3, PagesAre
    <3>3. DOMAIN p = 1..n
      BY <2>3
    <3>4. QED
      BY <3>1, <3>2, <3>3
  <2> HIDE DEF p
  <2>5. w \in OpenerType /\ w.at = "move" /\ w.page = p /\ w.after = old.after /\ w.failed = old.failed /\ w.to = old.to
    <3>1. w \in OpenerType
      BY <1>1, <2>1, <2>4, OpenerPlaces DEF OpenerType, p
    <3>2. QED
      BY <1>1, <2>1, <3>1, OpenerParts DEF p
  <2>6. InPage(w)
    BY <2>3, <2>4, <2>5 DEF InPage
  <2>7. OpenerWalks(w)
    BY <1>1, <1>2, <2>5, <2>6 DEF OpenerWalks, Walked, Written, Emptied
  <2>8. Serves(w) /\ OpenerGoesOn(o, w)
    BY <1>1, <1>2, <2>5, ServesAs DEF OpenerGoesOn, M!Migrating
  <2>9. QED
    BY <1>2, <2>2, <2>5, <2>7, <2>8, OnlyMoves
<1>5. CASE "document" \in columns /\ rows = {} /\ M!MovedAll(o)
  <2>1. PICK w : w = [old EXCEPT !.at = "apply", !.stmt = 1, !.page = <<>>]
    OBVIOUS
  <2>2. M!Becomes(o, w)
    BY <1>5, <2>1 DEF M!NextPage
  <2>3. w \in OpenerType /\ w.at = "apply" /\ w.stmt = 1 /\ w.to = old.to
    <3>1. w \in OpenerType
      BY <1>1, <2>1, OpenerPlaces, PagesAre DEF OpenerType
    <3>2. QED
      BY <1>1, <2>1, <3>1, OpenerParts
  <2>4. \A r \in Rows : document[r] = "none"
    <3>1. ~old.failed
      BY <1>5 DEF M!MovedAll
    <3>2. \A r \in Rows : document[r] = "row" => r \in rows
      BY <1>1, <1>2, <3>1 DEF OpenerWalks, Walked
    <3>3. QED
      BY <1>1, <1>5, <3>2 DEF SchemaStored
  <2>5. OpenerWalks(w)
    BY <2>3, <2>4 DEF OpenerWalks, Walked, InPage, Written, Emptied
  <2>6. Serves(w) /\ OpenerGoesOn(o, w)
    BY <1>1, <1>2, <2>3, ServesAs DEF OpenerGoesOn, M!Migrating
  <2>7. QED
    BY <1>2, <2>2, <2>3, <2>5, <2>6, OnlyMoves
<1>6. QED
  BY <1>3, <1>4, <1>5

\* A walk that leaves a row behind leaves no document there, or says that it failed.
LEMMA PastWalks ==
    ASSUME SchemaInv, M!SchemaAssumption, Grows, NEW o \in Openers, opener[o].at \in {"move", "record"},
           NEW failed \in BOOLEAN, NEW refusals \in InARow, M!Past(o, failed, refusals),
           ~failed => ~opener[o].failed /\ document'[Head(opener[o].page)] = "none"
    PROVE  \E w \in OpenerType : M!Becomes(o, w) /\ OpenerGoesOn(o, w) /\ Serves(w) /\ OpenerWalks(w)'
<1> DEFINE old == opener[o]
           p == old.page
           rest == Tail(p)
           h == Head(p)
<1>1. old \in OpenerType /\ Serves(old) /\ OpenerWalks(old) /\ SchemaStored
  BY DEF SchemaInv, SchemaTyped
<1>2. p \in Pages /\ old.after \in Afters
  BY <1>1, OpenerParts
<1>3. /\ p # <<>> /\ Ascends(p) /\ \A i \in DOMAIN p : old.after < p[i]
      /\ \A r \in Rows : document[r] = "row" /\ r > old.after =>
            (\E i \in DOMAIN p : p[i] = r) \/ (\A i \in DOMAIN p : p[i] < r)
  BY <1>1 DEF OpenerWalks, InPage
<1>4. /\ h \in Rows /\ h = p[1] /\ 1 \in DOMAIN p /\ rest \in Pages
      /\ \A i \in DOMAIN rest : i + 1 \in DOMAIN p /\ rest[i] = p[i + 1] /\ i \in Nat \ {0}
      /\ \A i \in DOMAIN p : i # 1 => i - 1 \in DOMAIN rest /\ i \in Nat \ {0} /\ p[i] = rest[i - 1]
  BY <1>2, <1>3, PageParts
<1>5. PICK w : w = [old EXCEPT !.at = IF rest = <<>> THEN "page" ELSE "move", !.page = rest,
                               !.after = h, !.failed = failed, !.inARow = refusals]
  OBVIOUS
<1>6. M!Becomes(o, w)
  BY <1>5 DEF M!Past
<1>7. w \in OpenerType
  BY <1>1, <1>4, <1>5, OpenerPlaces DEF OpenerType
<1>8. /\ w.at = (IF rest = <<>> THEN "page" ELSE "move") /\ w.page = rest /\ w.after = h
      /\ w.failed = failed /\ w.to = old.to
  BY <1>1, <1>5, OpenerParts
<1> HIDE DEF p, h, rest
<1>9. \A i \in DOMAIN p : p[i] \in Nat
  <2>1. \A q \in Pages : \A i \in DOMAIN q : q[i] \in Rows
    BY DEF Pages
  <2>2. QED
    BY <1>2, <2>1, Zero
<1>10. h \in Nat /\ old.after \in Nat /\ old.after < h
  BY <1>2, <1>3, <1>4, Zero DEF Afters
<1>11. \A i \in DOMAIN p : i # 1 => h < p[i]
  BY <1>3, <1>4 DEF Ascends
<1>12. \A r \in Rows : document'[r] = "row" => r \in Nat /\ document[r] = "row"
  BY Zero DEF Grows
<1>13. Walked(w)'
  <2>1. SUFFICES ASSUME ~failed, NEW r \in Rows, document'[r] = "row" PROVE r > h
    BY <1>8 DEF Walked
  <2>2. document[r] = "row" /\ r # h /\ r > old.after
    BY <1>1, <1>12, <2>1 DEF OpenerWalks, Walked, h, p
  <2>3. CASE \E i \in DOMAIN p : p[i] = r
    BY <1>4, <1>9, <1>10, <1>11, <1>12, <2>1, <2>2, <2>3
  <2>4. CASE \A i \in DOMAIN p : p[i] < r
    BY <1>4, <1>9, <1>10, <1>12, <2>1, <2>4
  <2>5. QED
    BY <1>3, <2>2, <2>3, <2>4
<1>14. InPage(w)'
  <2>1. ASSUME NEW i \in DOMAIN rest, NEW j \in DOMAIN rest, i < j PROVE rest[i] < rest[j]
    <3>1. i + 1 \in DOMAIN p /\ j + 1 \in DOMAIN p /\ i + 1 < j + 1 /\ rest[i] = p[i + 1] /\ rest[j] = p[j + 1]
      BY <1>4, <2>1
    <3>2. QED
      BY <1>3, <3>1 DEF Ascends
  <2>2. \A i \in DOMAIN rest : h < rest[i]
    <3>1. SUFFICES ASSUME NEW i \in DOMAIN rest PROVE h < rest[i]
      OBVIOUS
    <3>2. i + 1 \in DOMAIN p /\ rest[i] = p[i + 1] /\ i + 1 # 1
      BY <1>4
    <3>3. QED
      BY <1>11, <3>2
  <2>3. ASSUME NEW r \in Rows, document'[r] = "row", r > h
        PROVE  (\E i \in DOMAIN rest : rest[i] = r) \/ (\A i \in DOMAIN rest : rest[i] < r)
    <3>1. document[r] = "row" /\ r > old.after /\ r \in Nat
      BY <1>10, <1>12, <2>3
    <3>2. CASE \E i \in DOMAIN p : p[i] = r
      <4>1. PICK i \in DOMAIN p : p[i] = r
        BY <3>2
      <4>2. i # 1
        BY <1>4, <1>10, <2>3, <4>1
      <4>3. i - 1 \in DOMAIN rest /\ rest[i - 1] = r
        BY <1>4, <4>1, <4>2
      <4>4. QED
        BY <4>3
    <3>3. CASE \A i \in DOMAIN p : p[i] < r
      BY <1>4, <3>3
    <3>4. QED
      BY <1>3, <3>1, <3>2, <3>3
  <2>4. Ascends(rest)
    BY <2>1 DEF Ascends
  <2>5. QED
    BY <1>8, <2>2, <2>3, <2>4 DEF InPage
<1>15. OpenerWalks(w)'
  BY <1>8, <1>13, <1>14 DEF OpenerWalks, Written, Emptied
<1>16. Serves(w) /\ OpenerGoesOn(o, w)
  BY <1>1, <1>8, ServesAs DEF OpenerGoesOn, M!Migrating
<1>17. QED
  BY <1>6, <1>7, <1>15, <1>16

LEMMA MoveDocumentKeeps ==
    ASSUME SchemaInv, M!SchemaAssumption, NEW o \in Openers, M!MoveDocument(o)
    PROVE  SchemaInv' /\ M!KeepsDocuments
<1> DEFINE old == opener[o]
           h == Head(old.page)
           refusals == old.inARow + 1
<1>1. /\ old \in OpenerType /\ Serves(old) /\ OpenerWalks(old) /\ SchemaStored /\ old.at = "move"
      /\ UNCHANGED <<M!schemaVars, document, named, recorded, raced>>
  BY DEF SchemaInv, SchemaTyped, M!MoveDocument
<1>2. /\ UNCHANGED <<dialect, version, columns, readable, document, named, raced>> /\ UNCHANGED recorded
      /\ recorded' \in [Rows -> {"unknown", "recorded", "underivable"}] /\ objects \subseteq Rows
  BY <1>1 DEF M!schemaVars, SchemaStored
<1>3. h \in Rows
  <2>1. old.page \in Pages /\ old.page # <<>>
    BY <1>1, OpenerParts DEF OpenerWalks, InPage
  <2>2. QED
    BY <2>1, PageParts
<1>4. ASSUME objects \subseteq objects' PROVE Grows
  BY <1>1, <1>2, <1>4 DEF Grows, SchemaStored
<1>5. ASSUME NEW failed \in BOOLEAN, NEW n \in InARow, M!Past(o, failed, n), UNCHANGED objects,
             ~failed => ~old.failed /\ document[h] = "none"
      PROVE  SchemaInv' /\ M!KeepsDocuments
  <2>1. Grows
    BY <1>4, <1>5
  <2>2. \E w \in OpenerType : M!Becomes(o, w) /\ OpenerGoesOn(o, w) /\ Serves(w) /\ OpenerWalks(w)'
    BY <1>1, <1>2, <1>5, <2>1, PastWalks
  <2>3. PICK w \in OpenerType : M!Becomes(o, w) /\ OpenerGoesOn(o, w) /\ Serves(w) /\ OpenerWalks(w)'
    BY <2>2
  <2>4. QED
    BY <1>2, <1>5, <2>3, Quiet
<1>6. ASSUME M!Fails(o), UNCHANGED objects PROVE SchemaInv' /\ M!KeepsDocuments
  <2>1. UNCHANGED <<M!schemaVars, M!rowVars, raced>>
    BY <1>1, <1>6 DEF M!rowVars
  <2>2. QED
    BY <1>6, <2>1, FailsQuietly
<1>7. CASE document[h] = "none" /\ M!Past(o, old.failed, 0) /\ UNCHANGED objects
  <2>1. old.failed \in BOOLEAN /\ 0 \in InARow
    BY <1>1, OpenerParts, Zero
  <2>2. QED
    BY <1>5, <1>7, <2>1
<1>8. CASE document[h] = "row" /\ objects' = objects \cup {h} /\ M!Goes(o, "record")
  <2>1. PICK w : w = [old EXCEPT !.at = "record"]
    OBVIOUS
  <2>2. M!Becomes(o, w)
    BY <1>1, <1>8, <2>1, OpenerParts DEF M!Goes, M!Becomes
  <2>3. w \in OpenerType
    BY <1>1, <2>1, OpenerPlaces DEF OpenerType
  <2>4. w.at = "record" /\ w.page = old.page /\ w.after = old.after /\ w.failed = old.failed /\ w.to = old.to
    BY <1>1, <2>1, OpenerParts
  <2>5. OpenerWalks(w)'
    <3>1. objects' = objects \cup {Head(w.page)} /\ UNCHANGED document
      BY <1>2, <1>8, <2>4
    <3>2. QED
      BY <1>1, <2>4, <3>1 DEF OpenerWalks, Walked, InPage, Written, Emptied
  <2>6. Serves(w) /\ OpenerGoesOn(o, w)
    BY <1>1, <2>4, ServesAs DEF OpenerGoesOn, M!Migrating
  <2>7. objects \subseteq objects' /\ objects' \subseteq Rows
    BY <1>2, <1>3, <1>8
  <2>8. QED
    BY <1>2, <2>2, <2>3, <2>5, <2>6, <2>7, Quiet
<1>9. CASE (IF refusals >= MaxInARow THEN M!Fails(o) ELSE M!Past(o, TRUE, refusals)) /\ UNCHANGED objects
  <2>1. CASE refusals >= MaxInARow
    BY <1>6, <1>9, <2>1
  <2>2. CASE ~(refusals >= MaxInARow)
    <3>1. refusals \in InARow
      <4>1. old.inARow \in InARow
        BY <1>1, OpenerParts
      <4>2. QED
        BY <2>2, <4>1, Zero DEF InARow
    <3>2. QED
      BY <1>5, <1>9, <2>2, <3>1
  <2>3. QED
    BY <2>1, <2>2
<1>10. \/ M!Fails(o) /\ UNCHANGED objects
       \/ document[h] = "none" /\ M!Past(o, old.failed, 0) /\ UNCHANGED objects
       \/ document[h] = "row" /\ objects' = objects \cup {h} /\ M!Goes(o, "record")
       \/ (IF refusals >= MaxInARow THEN M!Fails(o) ELSE M!Past(o, TRUE, refusals)) /\ UNCHANGED objects
  BY DEF M!MoveDocument
<1>11. QED
  BY <1>6, <1>7, <1>8, <1>9, <1>10

LEMMA RecordMovedKeeps ==
    ASSUME SchemaInv, M!SchemaAssumption, NEW o \in Openers, M!RecordMoved(o)
    PROVE  SchemaInv' /\ M!KeepsDocuments
<1> DEFINE old == opener[o]
           h == Head(old.page)
<1>1. /\ old \in OpenerType /\ Serves(old) /\ OpenerWalks(old) /\ SchemaStored /\ old.at = "record"
      /\ UNCHANGED <<dialect, version, columns, readable, objects, recorded, raced>>
  BY DEF SchemaInv, SchemaTyped, M!RecordMoved, M!schemaVars
<1>2. h \in Rows /\ h \in objects
  <2>1. old.page \in Pages /\ old.page # <<>>
    BY <1>1, OpenerParts DEF OpenerWalks, InPage
  <2>2. h \in Rows
    BY <2>1, PageParts
  <2>3. h \in objects
    BY <1>1 DEF OpenerWalks, Written
  <2>4. QED
    BY <2>2, <2>3
<1>3. CASE "document" \notin columns
  <2>1. M!Fails(o) /\ UNCHANGED <<M!schemaVars, M!rowVars, raced>>
    BY <1>1, <1>3 DEF M!RecordMoved, M!schemaVars, M!rowVars
  <2>2. QED
    BY <2>1, FailsQuietly
<1>4. CASE "document" \in columns
  <2>1. /\ document' = [document EXCEPT ![h] = "none"] /\ named' = named \cup {h}
        /\ M!Past(o, old.failed, 0)
    BY <1>4 DEF M!RecordMoved
  <2> HIDE DEF h
  <2>2. /\ document \in [Rows -> {"row", "none"}] /\ document' \in [Rows -> {"row", "none"}]
        /\ document'[h] = "none" /\ \A r \in Rows \ {h} : document'[r] = document[r]
    BY <1>1, <1>2, <2>1 DEF SchemaStored
  <2>3. \A r \in Rows : document'[r] = "row" => document[r] = "row"
    BY <2>2
  <2>4. Grows
    BY <1>1, <2>2, <2>3 DEF Grows
  <2>5. old.failed \in BOOLEAN /\ 0 \in InARow
    BY <1>1, OpenerParts, Zero
  <2>6. \E w \in OpenerType : M!Becomes(o, w) /\ OpenerGoesOn(o, w) /\ Serves(w) /\ OpenerWalks(w)'
    BY <1>1, <2>1, <2>2, <2>4, <2>5, PastWalks DEF h
  <2>7. PICK w \in OpenerType : M!Becomes(o, w) /\ OpenerGoesOn(o, w) /\ Serves(w) /\ OpenerWalks(w)'
    BY <2>6
  <2>8. Serves(w)'
    BY <2>4, <2>7, ServesOn
  <2>9. SchemaStored'
    BY <1>1, <1>2, <2>1, <2>2, <2>3 DEF SchemaStored
  <2>10. Records'
    BY <1>1 DEF SchemaInv, Records, Earned
  <2>11. OneMigrates'
    BY <1>1, <2>7, MigratesOn
  <2>12. M!KeepsDocuments
    BY <1>1, <1>2, <2>1, <2>2 DEF M!KeepsDocuments
  <2>13. SchemaInv'
    BY <2>4, <2>7, <2>8, <2>9, <2>10, <2>11, Frame
  <2>14. QED
    BY <2>12, <2>13
<1>5. QED
  BY <1>3, <1>4

-----------------------------------------------------------------------------
(* The statements of a version.                                              *)

LEMMA FourVersions ==
    ASSUME NEW w \in OpenerType, Serves(w), w.at = "apply"
    PROVE  w.to \in {1, 2, 3, 4} /\ Earned(w.to - 1) /\ w.to - 1 \in Nat
<1>1. w.to \in 1..4 /\ Earned(w.to - 1)
  BY DEF Serves, Climbs, M!Migrating, M!Target
<1>2. QED
  BY <1>1

\* What a version's statements make of the columns.
LEMMA MadeGrows ==
    ASSUME SchemaStored, Records, NEW v \in {1, 2, 3, 4}, Earned(v - 1), NEW cs, cs \subseteq M!Migrations[v], cs # {},
           columns' = M!Made(v, cs)
    PROVE  /\ columns' \subseteq Columns /\ columns \ {"document"} \subseteq columns'
           /\ "results" \in columns /\ "document" \in columns' => "document" \in columns
           /\ "results" \in columns'
           /\ v \in {2, 4} => cs \subseteq columns'
           /\ v = 3 => columns' = columns \ cs
           /\ v # 3 => columns \subseteq columns'
           /\ columns = {} /\ v = 1 => columns' = {"results", "document"}
<1>1. columns \subseteq Columns /\ (columns # {} => "results" \in columns)
  BY DEF SchemaStored, Records
<1>2. CASE v = 1
  <2>1. columns' = IF "results" \notin columns THEN {"results", "document"} ELSE columns \cup cs
    BY <1>2 DEF M!Made, M!Drops, M!Documents
  <2>2. cs = {"results"}
    BY <1>2, Versions
  <2>3. CASE "results" \in columns
    <3>1. columns' = columns
      BY <2>1, <2>2, <2>3
    <3>2. QED
      BY <1>1, <1>2, <2>2, <2>3, <3>1
  <2>4. CASE "results" \notin columns
    <3>1. columns = {} /\ columns' = {"results", "document"}
      BY <1>1, <2>1, <2>4
    <3>2. QED
      BY <1>2, <2>2, <3>1 DEF Columns
  <2>5. QED
    BY <2>3, <2>4
<1>3. CASE v \in {2, 4}
  <2>1. columns' = columns \cup cs /\ "results" \in columns
    BY <1>3 DEF M!Made, M!Drops, M!Documents, Earned
  <2>2. cs \subseteq {"summary", "references", "refs_indexed"}
    BY <1>3, Versions
  <2>3. QED
    BY <1>1, <1>3, <2>1, <2>2 DEF Columns
<1>4. CASE v = 3
  <2>1. columns' = columns \ cs /\ "results" \in columns
    BY <1>4 DEF M!Made, M!Drops, M!Documents, Earned
  <2>2. cs = {"document"}
    BY <1>4, Versions
  <2>3. columns' \subseteq columns /\ "document" \notin columns' /\ "results" \in columns'
    BY <2>1, <2>2
  <2>4. columns \ {"document"} \subseteq columns'
    BY <2>1, <2>2
  <2>5. QED
    BY <1>1, <1>4, <2>1, <2>3, <2>4
<1>5. QED
  BY <1>2, <1>3, <1>4

\* The work of a version is done when all of its statements are.
LEMMA AllMade ==
    ASSUME SchemaStored, Records, NEW v \in {1, 2, 3, 4}, Earned(v - 1), Grows, columns' = M!Made(v, M!Migrations[v])
    PROVE  Earned(v)'
<1>1. Earned(v - 1)'
  BY EarnedStays
<1>2. /\ M!Migrations[v] \subseteq M!Migrations[v] /\ M!Migrations[v] # {}
      /\ M!Migrations[2] = {"summary"} /\ M!Migrations[3] = {"document"}
      /\ M!Migrations[4] = {"references", "refs_indexed"}
  BY Versions
<1>3. /\ v \in {2, 4} => M!Migrations[v] \subseteq columns'
      /\ "results" \in columns'
      /\ v = 3 => columns' = columns \ M!Migrations[v]
  BY <1>2, MadeGrows
<1>4. QED
  BY <1>1, <1>2, <1>3 DEF Earned

\* A column that is dropped is empty.
LEMMA NothingDropped ==
    ASSUME SchemaStored, NEW v, M!Dropped(v), v = M!Documents => \A r \in Rows : document[r] = "none"
    PROVE  document' = document
<1>1. document \in [Rows -> {"row", "none"}]
  BY DEF SchemaStored
<1>2. CASE v = M!Documents
  <2>1. document' = [r \in Rows |-> "none"] /\ \A r \in Rows : document[r] = "none"
    BY <1>2 DEF M!Dropped, M!Drops
  <2>2. QED
    BY <1>1, <2>1
<1>3. CASE v # M!Documents
  BY <1>3 DEF M!Dropped, M!Drops
<1>4. QED
  BY <1>2, <1>3

\* What one or all of the statements of a version leave behind.
LEMMA StatementRuns ==
    ASSUME SchemaInv, NEW o \in Openers, opener[o].at = "apply", NEW cs, cs \subseteq M!Migrations[opener[o].to], cs # {},
           columns' = M!Made(opener[o].to, cs), M!Dropped(opener[o].to), version' \in 0..(M!Target + 1),
           UNCHANGED <<dialect, named, objects, readable, recorded, raced>>
    PROVE  Grows /\ SchemaStored' /\ document' = document /\ "results" \in columns'
<1> DEFINE v == opener[o].to
<1>1. opener[o] \in OpenerType /\ Serves(opener[o]) /\ OpenerWalks(opener[o]) /\ SchemaStored /\ Records
  BY DEF SchemaInv, SchemaTyped
<1>2. v \in {1, 2, 3, 4} /\ Earned(v - 1)
  BY <1>1, FourVersions
<1>3. v = M!Documents => \A r \in Rows : document[r] = "none"
  BY <1>1 DEF OpenerWalks, Emptied
<1>4. document' = document
  BY <1>1, <1>3, NothingDropped
<1>5. /\ columns' \subseteq Columns /\ columns \ {"document"} \subseteq columns' /\ "results" \in columns'
      /\ "results" \in columns /\ "document" \in columns' => "document" \in columns
      /\ v # 3 => columns \subseteq columns'
  BY <1>1, <1>2, MadeGrows
<1>6. Grows
  BY <1>1, <1>4, <1>5 DEF Grows, SchemaStored
<1>7. \A r \in Rows : document[r] = "row" => "document" \in columns'
  BY <1>1, <1>3, <1>5 DEF SchemaStored, M!Documents
<1>8. SchemaStored'
  BY <1>1, <1>4, <1>5, <1>7 DEF SchemaStored
<1>9. QED
  BY <1>4, <1>5, <1>6, <1>8

\* Who has brought the store to a version goes on to the next, or has it open.
LEMMA SucceedsAs ==
    ASSUME NEW o \in Openers, opener[o] \in OpenerType, NEW v \in {1, 2, 3, 4}, M!Succeeds(o, v)
    PROVE  \E w \in OpenerType : /\ M!Becomes(o, w) /\ OpenerWalks(w)
                                 /\ w.at = (IF v = 4 THEN "count" ELSE "prepare") /\ (v # 4 => w.to = v + 1)
<1>1. CASE v = 4
  <2>1. PICK w : w = [opener[o] EXCEPT !.at = "count"]
    OBVIOUS
  <2>2. M!Becomes(o, w)
    BY <1>1, <2>1 DEF M!Succeeds, M!Target
  <2>3. w \in OpenerType
    BY <2>1, OpenerPlaces DEF OpenerType
  <2>4. w.at = "count"
    BY <2>1, OpenerParts
  <2>5. QED
    BY <1>1, <2>2, <2>3, <2>4, Rest
<1>2. CASE v # 4
  <2>1. PICK w : w = [opener[o] EXCEPT !.at = "prepare", !.to = v + 1]
    OBVIOUS
  <2>2. M!Becomes(o, w)
    BY <1>2, <2>1 DEF M!Succeeds, M!Target
  <2>3. v + 1 \in Tos
    BY <1>2 DEF Tos, M!Target
  <2>4. w \in OpenerType
    BY <2>1, <2>3, OpenerPlaces DEF OpenerType
  <2>5. w.at = "prepare" /\ w.to = v + 1
    BY <2>1, OpenerParts
  <2>6. QED
    BY <1>2, <2>2, <2>4, <2>5, Rest
<1>3. QED
  BY <1>1, <1>2

LEMMA ServesNext ==
    ASSUME NEW v \in {1, 2, 3, 4}, NEW w, Earned(v)',
           w.at = (IF v = 4 THEN "count" ELSE "prepare"), v # 4 => w.to = v + 1
    PROVE  Serves(w)'
<1>1. CASE v = 4
  BY <1>1 DEF Serves, Climbs, Stated, Full, M!Migrating, M!Target
<1>2. CASE v # 4
  <2>1. w.to \in 1..M!Target /\ w.to - 1 = v
    BY <1>2 DEF M!Target
  <2>2. QED
    BY <1>2, <2>1 DEF Serves, Climbs, Stated, Full
<1>3. QED
  BY <1>1, <1>2

LEMMA ApplyMigrationKeeps ==
    ASSUME SchemaInv, M!SchemaAssumption, NEW o \in Openers, M!ApplyMigration(o)
    PROVE  SchemaInv' /\ M!KeepsDocuments
<1> DEFINE old == opener[o]
<1>0. PICK v : v = opener[o].to
  OBVIOUS
<1> USE <1>0
<1>1. /\ old \in OpenerType /\ Serves(old) /\ SchemaStored /\ Records /\ old.at = "apply" /\ dialect # "mysql"
      /\ UNCHANGED <<dialect, named, objects, readable, recorded, raced>>
  BY DEF SchemaInv, SchemaTyped, M!ApplyMigration
<1>2. v \in {1, 2, 3, 4} /\ Earned(v - 1)
  BY <1>1, FourVersions
<1>3. CASE ~(\A c \in M!Migrations[v] : M!Runs(v, c))
  <2>1. M!Fails(o) /\ UNCHANGED <<M!schemaVars, M!rowVars, raced>>
    BY <1>1, <1>3 DEF M!ApplyMigration, M!schemaVars, M!rowVars
  <2>2. QED
    BY <2>1, FailsQuietly
<1>4. CASE \A c \in M!Migrations[v] : M!Runs(v, c)
  <2>1. columns' = M!Made(v, M!Migrations[v]) /\ version' = v /\ M!Dropped(v) /\ M!Succeeds(o, v)
    BY <1>4 DEF M!ApplyMigration
  <2>2. M!Migrations[v] \subseteq M!Migrations[v] /\ M!Migrations[v] # {} /\ version' \in 0..(M!Target + 1)
    <3>1. M!Migrations[v] # {}
      BY <1>2, Versions
    <3>2. version' \in 0..(M!Target + 1)
      BY <1>2, <2>1 DEF M!Target
    <3>3. QED
      BY <3>1, <3>2
  <2>3. Grows /\ SchemaStored' /\ document' = document /\ "results" \in columns'
    BY <1>1, <2>1, <2>2, StatementRuns
  <2>4. Earned(v)'
    BY <1>1, <1>2, <2>1, <2>3, AllMade
  <2>5. PICK w \in OpenerType : /\ M!Becomes(o, w) /\ OpenerWalks(w)
                                /\ w.at = (IF v = 4 THEN "count" ELSE "prepare") /\ (v # 4 => w.to = v + 1)
    BY <1>1, <1>2, <2>1, SucceedsAs
  <2>6. OpenerWalks(w)' /\ Serves(w)'
    <3>1. OpenerWalks(w)'
      BY <2>3, <2>5, WalksOn
    <3>2. PICK u \in {1, 2, 3, 4} : u = v
      BY <1>2
    <3>3. Earned(u)'
      BY <2>1, <2>4, <3>2 DEF Earned
    <3>4. Serves(w)'
      BY <2>5, <3>2, <3>3, ServesNext
    <3>5. QED
      BY <3>1, <3>4
  <2>7. Records'
    <3>1. Earned(version)'
      BY <2>1, <2>4 DEF Earned
    <3>2. QED
      BY <2>3, <3>1 DEF Records
  <2>8. OneMigrates'
    <3>1. SUFFICES ASSUME dialect = "sqlite", ~raced PROVE OneMigrates'
      BY <1>1 DEF OneMigrates
    <3>2. /\ \A p \in Openers : opener[p].at \in M!Migrating => p = o
          /\ v = version + 1 /\ (version \in {1, 2} => "document" \in columns) /\ (version = 0 => columns = {})
      BY <1>1, <3>1 DEF SchemaInv, OneMigrates, M!Migrating
    <3>3. opener'[o] = w /\ \A p \in Openers \ {o} : opener'[p] = opener[p]
      BY <2>5 DEF SchemaInv, SchemaTyped, M!Becomes
    <3>4. \A p \in Openers : opener'[p].at \in M!Migrating => p = o /\ v # 4
      BY <2>5, <3>2, <3>3 DEF M!Migrating
    <3>5. version' \in {1, 2} => "document" \in columns'
      <4>1. version \in Nat
        BY <1>1 DEF SchemaStored, M!Target
      <4>2. CASE version = 0
        <5>1. v = 1 /\ columns = {}
          BY <3>2, <4>2
        <5>2. columns' = {"results", "document"}
          BY <1>1, <1>2, <2>1, <2>2, <5>1, MadeGrows
        <5>3. QED
          BY <5>2
      <4>3. CASE version # 0 /\ version' \in {1, 2}
        <5>1. version = 1 /\ v = 2
          BY <2>1, <3>2, <4>1, <4>3
        <5>2. columns \subseteq columns'
          BY <1>1, <1>2, <2>1, <2>2, <5>1, MadeGrows
        <5>3. QED
          BY <3>2, <5>1, <5>2
      <4>4. QED
        BY <4>2, <4>3
    <3>6. \A p \in Openers : opener'[p].at \in M!Migrating => opener'[p].to = version' + 1
      BY <2>1, <2>5, <3>3, <3>4
    <3>7. version' # 0
      BY <1>2, <2>1
    <3>8. QED
      BY <3>4, <3>5, <3>6, <3>7 DEF OneMigrates
  <2>9. M!KeepsDocuments
    BY <2>3 DEF M!KeepsDocuments
  <2>10. SchemaInv'
    BY <2>3, <2>5, <2>6, <2>7, <2>8, Frame
  <2>11. QED
    BY <2>9, <2>10
<1>5. QED
  BY <1>3, <1>4

LEMMA ApplyStatementKeeps ==
    ASSUME SchemaInv, M!SchemaAssumption, NEW o \in Openers, M!ApplyStatement(o)
    PROVE  SchemaInv' /\ M!KeepsDocuments
<1> DEFINE old == opener[o]
<1>0. PICK v, k, c : v = opener[o].to /\ k = opener[o].stmt /\ c = M!Statement(v, k)
  OBVIOUS
<1> USE <1>0
<1>1. /\ old \in OpenerType /\ Serves(old) /\ OpenerWalks(old) /\ SchemaStored /\ Records /\ old.at = "apply"
      /\ dialect = "mysql" /\ k <= Cardinality(M!Migrations[v])
      /\ UNCHANGED <<dialect, version, named, objects, readable, recorded, raced>>
  BY Counting DEF SchemaInv, SchemaTyped, M!ApplyStatement
<1>2. v \in {1, 2, 3, 4} /\ Earned(v - 1)
  BY <1>1, FourVersions
<1>3. CASE ~M!Runs(v, c)
  <2>1. M!Fails(o) /\ UNCHANGED <<M!schemaVars, M!rowVars, raced>>
    BY <1>1, <1>3 DEF M!ApplyStatement, M!schemaVars, M!rowVars
  <2>2. QED
    BY <2>1, FailsQuietly
<1>4. CASE M!Runs(v, c)
  <2>1. PICK w : w = [old EXCEPT !.stmt = @ + 1]
    OBVIOUS
  <2>2. columns' = M!Made(v, {c}) /\ M!Dropped(v) /\ M!Becomes(o, w)
    BY <1>4, <2>1 DEF M!ApplyStatement
  <2>3. /\ k \in {1, 2} /\ c \in M!Migrations[v] /\ (v # 4 => k = 1)
        /\ (v = 1 => c = "results") /\ (v = 2 => c = "summary") /\ (v = 3 => c = "document")
        /\ (v = 4 /\ k = 1 => c = "references") /\ (v = 4 /\ k = 2 => c = "refs_indexed")
    <3>1. k \in 1..3
      BY <1>1, OpenerParts
    <3>2. CASE v \in {1, 2, 3}
      <4>1. Cardinality(M!Migrations[v]) = 1
        BY <3>2, Versions
      <4>2. k = 1
        BY <1>1, <3>1, <4>1
      <4>3. QED
        BY <3>2, <4>2, Versions
    <3>3. CASE v = 4
      <4>1. Cardinality(M!Migrations[v]) = 2
        BY <3>3, Versions
      <4>2. k \in {1, 2}
        BY <1>1, <3>1, <4>1
      <4>3. QED
        BY <3>3, <4>2, Versions
    <3>4. QED
      BY <1>2, <3>2, <3>3
  <2>4. {c} \subseteq M!Migrations[v] /\ {c} # {} /\ version' \in 0..(M!Target + 1)
    BY <1>1, <2>3 DEF SchemaStored
  <2>5. Grows /\ SchemaStored' /\ document' = document /\ "results" \in columns'
    BY <1>1, <2>2, <2>4, StatementRuns
  <2>6. w \in OpenerType /\ w.at = "apply" /\ w.to = v /\ w.stmt = k + 1
    <3>1. k + 1 \in Stmts
      BY <2>3 DEF Stmts
    <3>2. w \in OpenerType
      BY <1>1, <2>1, <3>1 DEF OpenerType
    <3>3. QED
      BY <1>1, <2>1, <3>2, OpenerParts
  <2>7. OpenerWalks(w)'
    <3>1. OpenerWalks(w)
      BY <1>1, <2>6 DEF OpenerWalks, Walked, InPage, Written, Emptied
    <3>2. QED
      BY <2>5, <3>1, WalksOn
  <2>8. Serves(w)'
    <3>1. Earned(v - 1)' /\ v - 1 \in Nat
      BY <1>2, <2>5, EarnedStays
    <3>2. Climbs(w)'
      <4>1. Earned(w.to - 1)'
        BY <1>1, <2>6, <3>1 DEF Earned
      <4>2. w.to \in 1..M!Target
        BY <1>2, <2>6 DEF M!Target
      <4>3. QED
        BY <4>1, <4>2 DEF Climbs
    <3>3. /\ v \in {2, 4} => c \in columns'
          /\ v = 3 => columns' = columns \ {c}
      BY <1>1, <1>2, <2>2, <2>4, MadeGrows
    <3>4. v = 4 /\ k = 2 => "references" \in columns'
      <4>1. SUFFICES ASSUME v = 4, k = 2 PROVE "references" \in columns'
        OBVIOUS
      <4>2. "references" \in columns
        BY <1>1, <4>1 DEF Serves, Stated
      <4>3. QED
        BY <2>5, <4>2 DEF Grows
    <3>5. Stated(w)'
      BY <2>3, <2>5, <2>6, <3>3, <3>4 DEF Stated
    <3>6. Full(w)'
      BY <2>6 DEF Full
    <3>7. QED
      BY <3>2, <3>5, <3>6 DEF Serves
  <2>9. Records'
    <3>1. version <= M!Target => Earned(version)'
      <4>1. version \in Nat
        BY <1>1 DEF SchemaStored, M!Target
      <4>2. QED
        BY <1>1, <2>5, <4>1, EarnedStays DEF Records
    <3>2. QED
      BY <1>1, <2>5, <3>1 DEF Records, Earned
  <2>10. OneMigrates'
    BY <1>1 DEF OneMigrates
  <2>11. M!KeepsDocuments
    BY <2>5 DEF M!KeepsDocuments
  <2>12. SchemaInv'
    BY <2>2, <2>5, <2>6, <2>7, <2>8, <2>9, <2>10, Frame
  <2>13. QED
    BY <2>11, <2>12
<1>5. QED
  BY <1>3, <1>4

LEMMA SetSchemaVersionKeeps ==
    ASSUME SchemaInv, M!SchemaAssumption, NEW o \in Openers, M!SetSchemaVersion(o)
    PROVE  SchemaInv' /\ M!KeepsDocuments
<1> DEFINE old == opener[o]
<1>0. PICK v, k : v = opener[o].to /\ k = opener[o].stmt
  OBVIOUS
<1> USE <1>0
<1>1. /\ old \in OpenerType /\ Serves(old) /\ SchemaStored /\ Records /\ old.at = "apply"
      /\ dialect = "mysql" /\ k > Cardinality(M!Migrations[v]) /\ version' = v /\ M!Succeeds(o, v)
      /\ UNCHANGED <<dialect, columns, document, named, objects, recorded, readable, raced>>
  BY Counting DEF SchemaInv, SchemaTyped, M!SetSchemaVersion, M!rowVars
<1>2. v \in {1, 2, 3, 4} /\ Earned(v - 1)
  BY <1>1, FourVersions
<1>3. k >= 2 /\ (v = 4 => k >= 3)
  <2>1. k \in 1..3
    BY <1>1, OpenerParts
  <2>2. CASE v \in {1, 2, 3}
    <3>1. Cardinality(M!Migrations[v]) = 1
      BY <2>2, Versions
    <3>2. QED
      BY <1>1, <2>1, <2>2, <3>1
  <2>3. CASE v = 4
    <3>1. Cardinality(M!Migrations[v]) = 2
      BY <2>3, Versions
    <3>2. QED
      BY <1>1, <2>1, <3>1
  <2>4. QED
    BY <1>2, <2>2, <2>3
<1>4. Earned(v) /\ "results" \in columns
  <2>1. /\ v = 1 => "results" \in columns
        /\ v = 2 => "summary" \in columns
        /\ v = 3 => "document" \notin columns
        /\ v = 4 => "references" \in columns /\ "refs_indexed" \in columns
    BY <1>1, <1>3 DEF Serves, Stated
  <2>2. QED
    BY <1>2, <2>1 DEF Earned
<1>5. Grows
  BY <1>1 DEF Grows, SchemaStored
<1>6. Earned(v)' /\ Earned(version)'
  BY <1>1, <1>4 DEF Earned
<1>7. PICK w \in OpenerType : /\ M!Becomes(o, w) /\ OpenerWalks(w)
                              /\ w.at = (IF v = 4 THEN "count" ELSE "prepare") /\ (v # 4 => w.to = v + 1)
  BY <1>1, <1>2, SucceedsAs
<1>8. OpenerWalks(w)' /\ Serves(w)'
  <2>1. OpenerWalks(w)'
    BY <1>5, <1>7, WalksOn
  <2>2. PICK u \in {1, 2, 3, 4} : u = v
    BY <1>2
  <2>3. Earned(u)'
    BY <1>1, <1>4, <2>2 DEF Earned
  <2>4. Serves(w)'
    BY <1>7, <2>2, <2>3, ServesNext
  <2>5. QED
    BY <2>1, <2>4
<1>9. SchemaStored'
  BY <1>1, <1>2 DEF SchemaStored, M!Target
<1>10. Records'
  BY <1>1, <1>4, <1>6 DEF Records
<1>11. OneMigrates'
  BY <1>1 DEF OneMigrates
<1>12. M!KeepsDocuments
  BY <1>1 DEF M!KeepsDocuments
<1>13. SchemaInv'
  BY <1>5, <1>7, <1>8, <1>9, <1>10, <1>11, Frame
<1>14. QED
  BY <1>12, <1>13

-----------------------------------------------------------------------------
(* Recording what each result refers to.                                     *)

\* The places from which a store that is current is left, or kept open.
LEMMA StaysCurrent ==
    ASSUME NEW o \in Openers, NEW w, Serves(opener[o]), opener[o].at \in {"count", "index", "open"},
           w.at \in {"count", "index", "open"}, w.at = "index" => w.inARow < MaxInARow
    PROVE  Serves(w) /\ OpenerWalks(w) /\ OpenerGoesOn(o, w)
<1>1. OpenerWalks(w)
  BY Rest
<1>2. QED
  BY <1>1 DEF Serves, Climbs, Stated, Full, M!Migrating, OpenerGoesOn

LEMMA CountUnindexedKeeps ==
    ASSUME SchemaInv, M!SchemaAssumption, NEW o \in Openers, M!CountUnindexed(o)
    PROVE  SchemaInv' /\ M!KeepsDocuments
<1>1. PICK w : w = [opener[o] EXCEPT !.at = "index", !.after = 0, !.inARow = 0]
  OBVIOUS
<1>2. /\ opener[o] \in OpenerType /\ Serves(opener[o]) /\ opener[o].at = "count"
      /\ M!Becomes(o, w) /\ UNCHANGED <<M!schemaVars, M!rowVars, raced>>
  BY <1>1 DEF SchemaInv, SchemaTyped, M!CountUnindexed
<1>3. w \in OpenerType
  BY <1>1, <1>2, OpenerPlaces, Zero DEF OpenerType
<1>4. w.at = "index" /\ w.inARow < MaxInARow
  BY <1>1, <1>2, OpenerParts, Zero
<1>5. Serves(w) /\ OpenerWalks(w) /\ OpenerGoesOn(o, w)
  BY <1>2, <1>4, StaysCurrent
<1>6. QED
  BY <1>2, <1>3, <1>5, OnlyMoves

LEMMA EndIndexKeeps == ASSUME SchemaInv, NEW o \in Openers, M!EndIndex(o) PROVE SchemaInv' /\ M!KeepsDocuments
<1>1. PICK w : w = [opener[o] EXCEPT !.at = "open"]
  OBVIOUS
<1>2. /\ opener[o] \in OpenerType /\ Serves(opener[o]) /\ opener[o].at = "index"
      /\ M!Goes(o, "open") /\ UNCHANGED <<M!schemaVars, M!rowVars, raced>>
  BY <1>1 DEF SchemaInv, SchemaTyped, M!EndIndex
<1>3. M!Becomes(o, w)
  BY <1>1, <1>2, OpenerParts DEF M!Goes, M!Becomes
<1>4. w \in OpenerType
  BY <1>1, <1>2, OpenerPlaces DEF OpenerType
<1>5. w.at = "open"
  BY <1>1, <1>2, OpenerParts
<1>6. Serves(w) /\ OpenerWalks(w) /\ OpenerGoesOn(o, w)
  BY <1>2, <1>5, StaysCurrent
<1>7. QED
  BY <1>2, <1>3, <1>4, <1>6, OnlyMoves

LEMMA IndexResultKeeps ==
    ASSUME SchemaInv, M!SchemaAssumption, NEW o \in Openers, M!IndexResult(o)
    PROVE  SchemaInv' /\ M!KeepsDocuments
<1> DEFINE old == opener[o]
           refusals == old.inARow + 1
           Kinds == {"unknown", "recorded", "underivable"}
<1>1. PICK r \in M!Unindexed(o) :
        /\ old.at = "index" /\ UNCHANGED <<M!schemaVars, document, named, objects, raced>>
        /\ \/ /\ recorded' = [recorded EXCEPT ![r] = IF r \in objects \cap readable THEN "recorded" ELSE "underivable"]
              /\ M!Becomes(o, [old EXCEPT !.after = r, !.inARow = 0])
           \/ /\ UNCHANGED recorded
              /\ M!Becomes(o, [old EXCEPT !.after = r, !.inARow = refusals,
                                          !.at = IF refusals >= MaxInARow THEN "open" ELSE "index"])
  BY DEF M!IndexResult
<1>2. old \in OpenerType /\ Serves(old) /\ SchemaStored /\ recorded \in [Rows -> Kinds]
  BY DEF SchemaInv, SchemaTyped, SchemaStored
<1>3. r \in Rows
  BY <1>2 DEF M!Unindexed, SchemaStored
<1>4. UNCHANGED <<dialect, version, columns, readable, document, named, raced>> /\ objects \subseteq objects' /\ objects' \subseteq Rows
  BY <1>1, <1>2 DEF M!schemaVars, SchemaStored
<1>5. recorded' \in [Rows -> Kinds]
  <2> HIDE DEF Kinds
  <2>1. "recorded" \in Kinds /\ "underivable" \in Kinds
    BY DEF Kinds
  <2>2. QED
    BY <1>1, <1>2, <2>1
<1>6. \E w \in OpenerType : M!Becomes(o, w) /\ w.at \in {"index", "open"} /\ (w.at = "index" => w.inARow < MaxInARow)
  <2>1. r \in Afters /\ old.inARow \in InARow
    BY <1>2, <1>3, OpenerPlaces, OpenerParts
  <2>2. CASE M!Becomes(o, [old EXCEPT !.after = r, !.inARow = 0])
    <3>1. PICK w : w = [old EXCEPT !.after = r, !.inARow = 0]
      OBVIOUS
    <3>2. w \in OpenerType
      BY <1>2, <2>1, <3>1, Zero DEF OpenerType
    <3>3. w.at = "index" /\ w.inARow < MaxInARow
      BY <1>1, <1>2, <3>1, OpenerParts, Zero
    <3>4. QED
      BY <2>2, <3>1, <3>2, <3>3
  <2>3. CASE /\ UNCHANGED recorded
             /\ M!Becomes(o, [old EXCEPT !.after = r, !.inARow = refusals,
                                         !.at = IF refusals >= MaxInARow THEN "open" ELSE "index"])
    <3>1. PICK w : w = [old EXCEPT !.after = r, !.inARow = refusals,
                                   !.at = IF refusals >= MaxInARow THEN "open" ELSE "index"]
      OBVIOUS
    <3>2. refusals \in InARow
      <4>1. old.inARow < MaxInARow /\ MaxInARow \in Nat
        BY <1>1, <1>2, Zero DEF Serves, Full
      <4>2. QED
        BY <2>1, <4>1 DEF InARow
    <3>3. w \in OpenerType
      BY <1>2, <2>1, <3>1, <3>2, OpenerPlaces DEF OpenerType
    <3>4. w.at \in {"index", "open"} /\ (w.at = "index" => w.inARow < MaxInARow)
      <4>1. w.at = (IF refusals >= MaxInARow THEN "open" ELSE "index") /\ w.inARow = refusals
        BY <1>2, <3>1, OpenerParts
      <4>2. QED
        BY <3>2, <4>1, Zero DEF InARow
    <3>5. QED
      BY <2>3, <3>1, <3>3, <3>4
  <2>4. QED
    BY <1>1, <2>2, <2>3
<1>7. PICK w \in OpenerType : M!Becomes(o, w) /\ w.at \in {"index", "open"} /\ (w.at = "index" => w.inARow < MaxInARow)
  BY <1>6
<1>8. Serves(w) /\ OpenerWalks(w) /\ OpenerGoesOn(o, w)
  BY <1>1, <1>2, <1>7, StaysCurrent
<1>9. QED
  BY <1>4, <1>5, <1>7, <1>8, Quiet

-----------------------------------------------------------------------------
(* The theorems.                                                             *)

LEMMA SchemaRests == ASSUME SchemaInv, UNCHANGED M!vars PROVE SchemaInv' /\ M!KeepsDocuments
<1>1. /\ UNCHANGED <<dialect, version, columns, document, named, objects, readable, recorded, opener, raced>>
  BY DEF M!vars
<1>2. SchemaTyped' /\ Records' /\ OneMigrates'
  BY <1>1 DEF SchemaInv, SchemaTyped, SchemaStored, Records, Earned, OneMigrates
<1>3. \A p \in Openers : OpenerWalks(opener[p])' /\ Serves(opener[p])'
  BY <1>1 DEF SchemaInv, OpenerWalks, Walked, InPage, Written, Emptied, Serves, Climbs, Stated, Full,
              Earned
<1>4. M!KeepsDocuments
  BY <1>1 DEF M!KeepsDocuments
<1>5. QED
  BY <1>2, <1>3, <1>4 DEF SchemaInv

LEMMA StepKeeps ==
    ASSUME SchemaInv, M!SchemaAssumption, [M!Next]_M!vars
    PROVE  SchemaInv' /\ M!KeepsDocuments
<1>1. CASE UNCHANGED M!vars
  BY <1>1, SchemaRests
<1>2. ASSUME NEW o \in Openers, M!Step(o) PROVE SchemaInv' /\ M!KeepsDocuments
  <2>1. CASE M!RefuseNewer(o)
    BY <2>1, SchemaRests DEF M!RefuseNewer
  <2>2. CASE M!Open(o)
    BY <2>2, OpenKeeps
  <2>3. CASE M!OpenForInspection(o)
    BY <2>3, OpensCurrent DEF M!OpenForInspection
  <2>4. CASE M!Stop(o)
    BY <2>4, FailsQuietly DEF M!Stop
  <2>5. CASE M!Prepare(o)
    BY <2>5, PrepareKeeps
  <2>6. CASE M!NextPage(o)
    BY <2>6, NextPageKeeps
  <2>7. CASE M!MoveDocument(o)
    BY <2>7, MoveDocumentKeeps
  <2>8. CASE M!RecordMoved(o)
    BY <2>8, RecordMovedKeeps
  <2>9. CASE M!ApplyMigration(o)
    BY <2>9, ApplyMigrationKeeps
  <2>10. CASE M!ApplyStatement(o)
    BY <2>10, ApplyStatementKeeps
  <2>11. CASE M!SetSchemaVersion(o)
    BY <2>11, SetSchemaVersionKeeps
  <2>12. CASE M!CountUnindexed(o)
    BY <2>12, CountUnindexedKeeps
  <2>13. CASE M!IndexResult(o)
    BY <2>13, IndexResultKeeps
  <2>14. CASE M!EndIndex(o)
    BY <2>14, EndIndexKeeps
  <2>15. QED
    BY <1>2, <2>1, <2>2, <2>3, <2>4, <2>5, <2>6, <2>7, <2>8, <2>9, <2>10, <2>11, <2>12, <2>13,
       <2>14 DEF M!Step
<1>3. QED
  BY <1>1, <1>2 DEF M!Next

\* The columns of the schemas that a store may be found with.
LEMMA Schemas ==
    /\ M!After(0) = {} /\ M!After(1) = {"results", "document"} /\ M!After(2) = {"results", "document", "summary"}
    /\ M!After(4) = {"results", "summary", "references", "refs_indexed"}
<1>1. 1..0 = {} /\ 1..1 = {1} /\ 1..2 = {1, 2} /\ 1..4 = {1, 2, 3, 4}
  OBVIOUS
<1>2. /\ UNION {M!Migrations[u] : u \in {}} = {} /\ UNION {M!Migrations[u] : u \in {1}} = M!Migrations[1]
      /\ UNION {M!Migrations[u] : u \in {1, 2}} = M!Migrations[1] \cup M!Migrations[2]
      /\ UNION {M!Migrations[u] : u \in {1, 2, 3, 4}}
           = M!Migrations[1] \cup M!Migrations[2] \cup M!Migrations[3] \cup M!Migrations[4]
  OBVIOUS
<1>3. 0 \notin 1..(M!Documents - 1) /\ 1 \in 1..(M!Documents - 1) /\ 2 \in 1..(M!Documents - 1) /\ 4 \notin 1..(M!Documents - 1)
  BY DEF M!Documents
<1>4. M!After(0) = {}
  BY <1>1, <1>2, <1>3 DEF M!After
<1>5. M!After(1) = {"results", "document"}
  <2>1. UNION {M!Migrations[u] : u \in 1..1} = {"results"}
    BY <1>1, <1>2, Versions
  <2>2. M!After(1) = ({"results"} \ {"document"}) \cup {"document"}
    BY <1>3, <2>1 DEF M!After
  <2>3. QED
    BY <2>2
<1>6. M!After(2) = {"results", "document", "summary"}
  <2>1. UNION {M!Migrations[u] : u \in 1..2} = {"results", "summary"}
    BY <1>1, <1>2, Versions
  <2>2. M!After(2) = ({"results", "summary"} \ {"document"}) \cup {"document"}
    BY <1>3, <2>1 DEF M!After
  <2>3. QED
    BY <2>2
<1>7. M!After(4) = {"results", "summary", "references", "refs_indexed"}
  <2>1. UNION {M!Migrations[u] : u \in 1..4} = {"results", "summary", "document", "references", "refs_indexed"}
    BY <1>1, <1>2, Versions
  <2>2. M!After(4) = ({"results", "summary", "document", "references", "refs_indexed"} \ {"document"}) \cup {}
    BY <1>3, <2>1 DEF M!After
  <2>3. QED
    BY <2>2
<1>8. QED
  BY <1>4, <1>5, <1>6, <1>7

LEMMA SchemaStarts == ASSUME M!Init, M!SchemaAssumption PROVE SchemaInv
<1>1. /\ version \in {0, 1, 2, 5} /\ columns = M!After(IF version > 4 THEN 4 ELSE version)
      /\ dialect \in {"sqlite", "postgres", "mysql"} /\ raced = FALSE /\ opener = [o \in Openers |-> M!Closed]
      /\ named \subseteq Rows /\ objects \subseteq Rows
      /\ recorded = [r \in Rows |-> IF r \in named THEN "recorded" ELSE "unknown"]
  BY DEF M!Init, M!Target
<1>2. /\ version = 0 => columns = {}
      /\ version = 1 => columns = {"results", "document"}
      /\ version = 2 => columns = {"results", "document", "summary"}
      /\ version = 5 => columns = {"results", "summary", "references", "refs_indexed"}
  BY <1>1, Schemas
<1>3. /\ document \in [Rows -> {"row", "none"}] /\ readable \subseteq Rows
      /\ \A r \in Rows : document[r] = "row" => version \in {1, 2}
  BY DEF M!Init
<1>4. SchemaStored
  <2>1. recorded \in [Rows -> {"unknown", "recorded", "underivable"}]
    BY <1>1
  <2>2. columns \subseteq Columns
    BY <1>1, <1>2 DEF Columns
  <2>3. version \in 0..(M!Target + 1) /\ raced \in BOOLEAN
    <3>1. version \in 0..(M!Target + 1)
      BY <1>1 DEF M!Target
    <3>2. raced \in BOOLEAN
      BY <1>1
    <3>3. QED
      BY <3>1, <3>2
  <2>4. \A r \in Rows : document[r] = "row" => "document" \in columns
    BY <1>2, <1>3
  <2>5. QED
    BY <1>1, <1>3, <2>1, <2>2, <2>3, <2>4 DEF SchemaStored
<1>5. M!Closed \in OpenerType /\ M!Closed.at = "closed"
  <2>1. <<>> \in Pages
    BY PagesAre
  <2>2. M!Closed \in OpenerType
    BY <2>1, OpenerPlaces, Zero DEF M!Closed, OpenerType
  <2>3. QED
    BY <2>2 DEF M!Closed
<1>6. opener \in [Openers -> OpenerType] /\ \A o \in Openers : opener[o] = M!Closed
  BY <1>1, <1>5
<1>7. Records
  BY <1>1, <1>2 DEF Records, Earned, M!Target
<1>8. OneMigrates
  BY <1>1, <1>2, <1>5, <1>6 DEF OneMigrates, M!Migrating
<1>9. OpenerWalks(M!Closed) /\ Serves(M!Closed)
  BY <1>5, Rest DEF Serves, Climbs, Stated, Full, M!Migrating
<1>10. QED
  BY <1>4, <1>6, <1>7, <1>8, <1>9 DEF SchemaInv, SchemaTyped

\* Every variable keeps its type; what a row holds is in a column that is there.
LEMMA SchemaTypes == SchemaInv => M!TypeOK
<1> SUFFICES ASSUME SchemaInv PROVE M!TypeOK
  OBVIOUS
<1>2. SchemaStored /\ opener \in [Openers -> OpenerType]
  BY DEF SchemaInv, SchemaTyped
<1>3. columns \subseteq UNION {M!Migrations[v] : v \in 1..M!Target}
  BY <1>2, Versions DEF SchemaStored
<1>4. opener \in [Openers -> [at : M!At, to : 0..M!Target, stmt : 1..3,
                              page : UNION {[1..n -> Rows] : n \in 0..Batch},
                              after : {0} \cup Rows, failed : BOOLEAN, inARow : 0..MaxInARow]]
  BY <1>2 DEF OpenerType, Tos, Stmts, Pages, Afters, InARow
<1>5. QED
  BY <1>2, <1>3, <1>4 DEF M!TypeOK, SchemaStored

\* The record of the version stays true and replayable: no stop between two statements,
\* and no race of two migrations on a server, leaves a store that no build can open, and
\* who has it open finds the whole schema (migrate, applyMigration, alreadyApplied).
\* SQLite is left out once two migrations met.
LEMMA OpensAgain == SchemaInv => M!StoreStaysOpenable
<1>1. ASSUME SchemaInv, ~(dialect = "sqlite" /\ raced) PROVE M!ReplayApplies /\ M!RecordIsEarned /\ M!OpenedIsCurrent
  <2>1. SchemaStored /\ Records /\ OneMigrates /\ \A o \in Openers : Serves(opener[o])
    BY <1>1 DEF SchemaInv, SchemaTyped
  <2>2. version \in Nat /\ dialect \in {"sqlite", "postgres", "mysql"}
    BY <2>1 DEF SchemaStored, M!Target
  <2>3. M!RecordIsEarned
    <3>1. SUFFICES ASSUME version <= 4, NEW v \in 1..version, NEW c \in M!Migrations[v] PROVE M!Done(v, c)
      BY DEF M!RecordIsEarned, M!Target
    <3>2. v \in {1, 2, 3, 4} /\ v <= version
      BY <2>2, <3>1
    <3>3. Earned(version)
      BY <2>1, <3>1 DEF Records, M!Target
    <3>4. /\ v = 1 => c = "results"
          /\ v = 2 => c = "summary"
          /\ v = 3 => c = "document"
          /\ v = 4 => c \in {"references", "refs_indexed"}
      BY <3>1, Versions
    <3>5. QED
      BY <2>2, <3>2, <3>3, <3>4 DEF M!Done, M!Drops, M!Documents, Earned
  <2>4. M!OpenedIsCurrent
    <3>1. SUFFICES ASSUME NEW o \in Openers, opener[o].at \in {"count", "index", "open"}
                   PROVE  columns = M!After(4)
      BY DEF M!OpenedIsCurrent, M!Target
    <3>2. Earned(4)
      BY <2>1, <3>1 DEF Serves, Full, M!Target
    <3>3. columns = {"results", "summary", "references", "refs_indexed"}
      <4>1. columns \subseteq {"results", "document", "summary", "references", "refs_indexed"}
        BY <2>1 DEF SchemaStored, Columns
      <4>2. /\ "results" \in columns /\ "summary" \in columns /\ "document" \notin columns
            /\ "references" \in columns /\ "refs_indexed" \in columns
        BY <3>2 DEF Earned
      <4>3. QED
        BY <4>1, <4>2
    <3>4. QED
      BY <3>3, Schemas
  <2>5. M!ReplayApplies
    <3>1. SUFFICES ASSUME NEW v \in 1..4, v > version, NEW c \in M!Migrations[v]
                   PROVE  M!Runs(v, c) \/ (M!Drops(v) /\ "results" \notin columns)
      BY DEF M!ReplayApplies, M!Target
    <3>2. CASE v # 3 \/ dialect # "sqlite"
      BY <2>2, <3>2 DEF M!Runs, M!Tolerant, M!Drops, M!Documents
    <3>3. CASE v = 3 /\ dialect = "sqlite"
      <4>1. ~raced /\ version \in {0, 1, 2} /\ c = "document"
        BY <1>1, <2>2, <3>1, <3>3, Versions
      <4>2. CASE version = 0
        BY <2>1, <3>3, <4>1, <4>2 DEF OneMigrates, M!Drops, M!Documents
      <4>3. CASE version \in {1, 2}
        BY <2>1, <3>3, <4>1, <4>3 DEF OneMigrates, M!Runs, M!Done, M!Drops, M!Documents
      <4>4. QED
        BY <4>1, <4>2, <4>3
    <3>4. QED
      BY <3>2, <3>3
  <2>6. QED
    BY <2>3, <2>4, <2>5
<1>2. QED
  BY <1>1 DEF M!StoreStaysOpenable

-----------------------------------------------------------------------------
(* BrowserImages: the image in service.                                      *)

RefreshAt == {"off", "start", "rest", "make", "check", "plan", "prune", "record"}
DaemonType == [up : BOOLEAN, image : 0..MaxImages, idle : B!MaybeImage]
RefreshType == [at : RefreshAt, todo : SUBSET B!Refreshed]
CliAt == {"off", "plan", "prune", "record"}
CliType == [at : CliAt, service : B!MaybeImage, todo : SUBSET B!Refreshed,
            calm : BOOLEAN, misled : BOOLEAN]
ScanType == [at : B!ScanAt, image : B!MaybeImage]

ScanHolds(s) == /\ scans[s].image = None <=> scans[s].at = "new"
                /\ scans[s].at = "running" => daemon.up
ImagesTyped ==
    /\ images \subseteq 0..made /\ 0 \in images /\ made \in 0..MaxImages
    /\ daemon \in DaemonType /\ daemon.image \in 0..made
    /\ refresh \in RefreshType /\ cli \in CliType
    /\ inventory \in B!MaybeImage /\ spoiled \in BOOLEAN /\ struck \subseteq B!Refreshed
    /\ scans \in [Sites -> ScanType]
    /\ refresh.at = "off" <=> ~daemon.up
    /\ refresh.at = "make" => made < MaxImages
    /\ daemon.idle \in {daemon.image, None} /\ (daemon.idle # None => daemon.up)
    /\ \A s \in Sites : ScanHolds(s)

\* Outside a refresh, and until it switches, the inventory names the image in service,
\* unless it is spoiled.
Named == refresh.at \in {"rest", "make", "check"} /\ ~spoiled => inventory = daemon.image
\* An image that is checked is there, is not in service yet, and the command spares it.
Checked == refresh.at = "check" => made \in images /\ daemon.image # made /\ made \notin cli.todo
\* The refresh spares the image in service; a command finds only images that were made before.
Spares == /\ refresh.at = "prune" => daemon.image \notin refresh.todo
          /\ cli.todo \subseteq 1..made
\* A command is calm only until the refresh falls due.
Calm == cli.calm => refresh.at \in {"off", "start", "rest"}

\* The images the daemon or the one after it may serve.
Serveable == {daemon.image, inventory}
\* Another image may be made before a command ends.
MayMake == refresh.at = "make" \/ cli.calm
InService ==
    /\ daemon.image \in images \cup struck
    /\ ~spoiled => daemon.image \in {inventory, made, 0}
    /\ ~cli.misled =>
          /\ cli.at = "prune" => Serveable \cap cli.todo = {}
          /\ cli.at = "plan" => /\ Serveable \subseteq {cli.service, made, 0, None}
                                /\ MayMake => Serveable \subseteq {cli.service, 0, None}
ImagesInv == ImagesTyped /\ Named /\ Checked /\ Spares /\ Calm /\ InService

LEMMA Tags ==
    /\ MaxImages \in Nat /\ None \notin Nat /\ B!Configured = 0 /\ B!Refreshed = 1..MaxImages
    /\ B!Images = 0..MaxImages /\ B!MaybeImage = 0..MaxImages \cup {None}
BY StorageAssumption DEF B!ImagesAssumption, B!Configured, B!Refreshed, B!Images, B!MaybeImage

\* Newer finds the newest of a set of images.
LEMMA NewestIsIn == ASSUME NEW S, S \subseteq 1..MaxImages, S # {} PROVE B!Newer(S) \in S
<1> DEFINE D == {MaxImages - i : i \in S}
<1>1. MaxImages \in Nat
  BY Tags
<1>2. D \subseteq Nat /\ D # {}
  BY <1>1
<1>3. PICK m \in D : \A l \in D : m <= l
  BY <1>2, Least
<1>4. PICK i \in S : m = MaxImages - i
  OBVIOUS
<1>5. \A j \in S : j <= i
  BY <1>1, <1>3, <1>4
<1>6. QED
  BY <1>4, <1>5 DEF B!Newer

LEMMA RefreshGoes ==
    ASSUME refresh \in RefreshType, NEW place \in RefreshAt, refresh' = [refresh EXCEPT !.at = place]
    PROVE  refresh' \in RefreshType /\ refresh'.at = place /\ refresh'.todo = refresh.todo
BY DEF RefreshType

LEMMA ScanFacts == ASSUME ImagesInv, NEW s \in Sites PROVE scans[s] \in ScanType /\ ScanHolds(s)
BY DEF ImagesInv, ImagesTyped

\* A step that changes neither the images nor who serves, makes, prunes or records one.
LEMMA ImagesRest ==
    ASSUME ImagesInv, UNCHANGED <<images, made, refresh, cli, inventory, spoiled, struck>>,
           daemon' \in DaemonType, daemon'.image = daemon.image, daemon'.up = daemon.up,
           daemon'.idle \in {daemon.image, None}, daemon'.idle # None => daemon.up,
           scans' \in [Sites -> ScanType],
           \A s \in Sites : ScanHolds(s)'
    PROVE  ImagesInv'
<1>1. ImagesTyped'
  BY DEF ImagesInv, ImagesTyped
<1>2. Named' /\ Checked' /\ Spares' /\ Calm' /\ InService'
  BY DEF ImagesInv, Named, Checked, Spares, Calm, InService, Serveable, MayMake
<1>3. QED
  BY <1>1, <1>2 DEF ImagesInv

\* The place of the refresh, and the command: what none of its steps with the images changes.
LEMMA RecordsKeep ==
    ASSUME ImagesInv, refresh.at \in {"start", "record"}, B!Record(daemon.image),
           refresh' = [refresh EXCEPT !.at = "rest"], UNCHANGED <<images, made, daemon, cli, scans, struck>>
    PROVE  ImagesInv'
<1>1. refresh' \in RefreshType /\ refresh'.at = "rest" /\ refresh'.todo = refresh.todo
  BY RefreshGoes DEF RefreshAt, ImagesInv, ImagesTyped
<1>2. /\ inventory' \in {daemon.image, None, inventory} /\ spoiled' \in BOOLEAN
      /\ ~spoiled' => inventory' = daemon.image
  BY DEF B!Record
<1>3. ImagesTyped'
  BY <1>1, <1>2, Tags DEF ImagesInv, ImagesTyped, ScanHolds
<1>4. Named' /\ Checked' /\ Spares' /\ Calm'
  BY <1>1, <1>2 DEF ImagesInv, Named, Checked, Spares, Calm
<1>5. daemon.image \in images \cup struck /\ (~spoiled' => daemon.image \in {inventory', made, 0})
  BY <1>2 DEF ImagesInv, InService
<1>6. ASSUME ~cli.misled, cli.at = "prune" PROVE {daemon.image, inventory'} \cap cli.todo = {}
  <2>1. {daemon.image, inventory} \cap cli.todo = {}
    BY <1>6 DEF ImagesInv, InService, Serveable
  <2>2. cli.todo \subseteq 1..made /\ None \notin cli.todo
    BY Tags DEF ImagesInv, Spares, ImagesTyped
  <2>3. QED
    BY <1>2, <2>1, <2>2
<1>7. ASSUME ~cli.misled, cli.at = "plan"
      PROVE  /\ {daemon.image, inventory'} \subseteq {cli.service, made, 0, None}
             /\ cli.calm => {daemon.image, inventory'} \subseteq {cli.service, 0, None}
  <2>1. /\ {daemon.image, inventory} \subseteq {cli.service, made, 0, None}
        /\ cli.calm => {daemon.image, inventory} \subseteq {cli.service, 0, None}
    BY <1>7 DEF ImagesInv, InService, Serveable, MayMake
  <2>2. QED
    BY <1>2, <2>1
<1>8. InService'
  BY <1>1, <1>5, <1>6, <1>7 DEF InService, Serveable, MayMake
<1>9. QED
  BY <1>3, <1>4, <1>8 DEF ImagesInv

LEMMA StartKeeps == ASSUME ImagesInv, B!Start PROVE ImagesInv'
<1>1. /\ ~daemon.up /\ daemon' = [up |-> TRUE, image |-> B!Resume, idle |-> None]
      /\ refresh' = [at |-> "start", todo |-> {}] /\ UNCHANGED <<images, made, cli, inventory, scans, spoiled, struck>>
  BY DEF B!Start
<1>2. B!Resume \in images /\ B!Resume \in {inventory, 0} /\ B!Resume \in 0..made
  BY Tags DEF B!Resume, ImagesInv, ImagesTyped
<1>3. daemon' \in DaemonType /\ daemon'.image = B!Resume /\ daemon'.up /\ daemon'.idle = None
  BY <1>1, <1>2, Tags DEF DaemonType, ImagesInv, ImagesTyped
<1>4. refresh' \in RefreshType /\ refresh'.at = "start"
  BY <1>1 DEF RefreshType, RefreshAt
<1>5. ImagesTyped'
  BY <1>1, <1>2, <1>3, <1>4 DEF ImagesInv, ImagesTyped, ScanHolds
<1>6. Named' /\ Checked' /\ Spares' /\ Calm'
  BY <1>1, <1>4 DEF ImagesInv, Named, Checked, Spares, Calm
<1>7. 0 \notin cli.todo
  BY DEF ImagesInv, Spares, ImagesTyped
<1>8. InService'
  BY <1>1, <1>2, <1>3, <1>4, <1>7 DEF ImagesInv, InService, Serveable, MayMake
<1>9. QED
  BY <1>5, <1>6, <1>8 DEF ImagesInv

LEMMA DueKeeps == ASSUME ImagesInv, B!Due PROVE ImagesInv'
<1>1. /\ refresh.at = "rest" /\ refresh' = [refresh EXCEPT !.at = "make"] /\ cli' = [cli EXCEPT !.calm = FALSE]
      /\ UNCHANGED <<images, made, daemon, inventory, scans, spoiled, struck>>
      /\ cli.at # "off" => cli.calm
      /\ made < MaxImages
  BY DEF B!Due
<1>2. refresh' \in RefreshType /\ refresh'.at = "make"
  BY <1>1, RefreshGoes DEF RefreshAt, ImagesInv, ImagesTyped
<1>3. cli' \in CliType /\ ~cli'.calm /\ cli'.at = cli.at /\ cli'.service = cli.service /\ cli'.todo = cli.todo
      /\ cli'.misled = cli.misled
  BY <1>1 DEF CliType, ImagesInv, ImagesTyped
<1>4. ImagesTyped'
  BY <1>1, <1>2, <1>3 DEF ImagesInv, ImagesTyped, ScanHolds
<1>5. Named' /\ Checked' /\ Spares' /\ Calm'
  BY <1>1, <1>2, <1>3 DEF ImagesInv, Named, Checked, Spares, Calm
<1>6. InService'
  BY <1>1, <1>2, <1>3 DEF ImagesInv, InService, Serveable, MayMake
<1>7. QED
  BY <1>4, <1>5, <1>6 DEF ImagesInv

LEMMA MakeKeeps == ASSUME ImagesInv, B!Make PROVE ImagesInv'
<1>1. /\ refresh.at = "make" /\ made' = made + 1 /\ images' = images \cup {made + 1}
      /\ refresh' = [refresh EXCEPT !.at = "check"] /\ UNCHANGED <<daemon, cli, inventory, scans, spoiled, struck>>
  BY DEF B!Make
<1>2. refresh' \in RefreshType /\ refresh'.at = "check"
  BY <1>1, RefreshGoes DEF RefreshAt, ImagesInv, ImagesTyped
<1>3. /\ made \in Nat /\ made' \in 0..MaxImages /\ images' \subseteq 0..made' /\ 0 \in images'
      /\ daemon.image \in 0..made /\ cli.todo \subseteq 1..made
  BY <1>1, Tags DEF ImagesInv, ImagesTyped, Spares
<1>4. daemon.image \in 0..made' /\ daemon.image # made' /\ made' \in images' /\ made' \notin cli.todo
      /\ cli.todo \subseteq 1..made'
  BY <1>1, <1>3
<1>5. ImagesTyped'
  BY <1>1, <1>2, <1>3, <1>4 DEF ImagesInv, ImagesTyped, ScanHolds
<1>6. Named' /\ Checked' /\ Spares' /\ Calm'
  BY <1>1, <1>2, <1>4 DEF ImagesInv, Named, Checked, Spares, Calm
<1>7. InService'
  BY <1>1, <1>2 DEF ImagesInv, Named, Calm, InService, Serveable, MayMake
<1>8. QED
  BY <1>5, <1>6, <1>7 DEF ImagesInv

LEMMA MakeFailsKeeps == ASSUME ImagesInv, B!MakeFails PROVE ImagesInv'
<1>1. refresh.at = "make" /\ UNCHANGED <<images, made, daemon, cli, inventory, scans, spoiled, struck>>
  BY DEF B!MakeFails
<1>2. PICK place \in {"record", "rest"} : refresh' = [refresh EXCEPT !.at = place]
  BY DEF B!MakeFails
<1>3. refresh' \in RefreshType /\ refresh'.at = place
  BY <1>2, RefreshGoes DEF RefreshAt, ImagesInv, ImagesTyped
<1>4. ImagesTyped'
  BY <1>1, <1>2, <1>3 DEF ImagesInv, ImagesTyped, ScanHolds
<1>5. Named' /\ Checked' /\ Spares' /\ Calm' /\ InService'
  BY <1>1, <1>2, <1>3 DEF ImagesInv, Named, Checked, Spares, Calm, InService, Serveable, MayMake
<1>6. QED
  BY <1>4, <1>5 DEF ImagesInv

LEMMA DiscardKeeps == ASSUME ImagesInv, B!Discard PROVE ImagesInv'
<1>1. /\ refresh.at = "check" /\ images' \in {images, images \ {made}}
      /\ UNCHANGED <<made, daemon, cli, inventory, scans, spoiled, struck>>
  BY DEF B!Discard
<1>2. PICK place \in {"record", "rest"} : refresh' = [refresh EXCEPT !.at = place]
  BY DEF B!Discard
<1>3. refresh' \in RefreshType /\ refresh'.at = place
  BY <1>2, RefreshGoes DEF RefreshAt, ImagesInv, ImagesTyped
<1>4. daemon.image # made /\ made # 0 /\ images' \subseteq 0..made /\ 0 \in images'
  <2>1. daemon.image # made /\ daemon.image \in 0..made /\ made \in 0..MaxImages
    BY <1>1 DEF ImagesInv, ImagesTyped, Checked
  <2>2. made # 0
    BY <2>1
  <2>3. images \subseteq 0..made /\ 0 \in images
    BY DEF ImagesInv, ImagesTyped
  <2>4. QED
    BY <1>1, <2>1, <2>2, <2>3
<1>5. ImagesTyped'
  BY <1>1, <1>2, <1>3, <1>4 DEF ImagesInv, ImagesTyped, ScanHolds
<1>6. Named' /\ Checked' /\ Spares' /\ Calm'
  BY <1>1, <1>2, <1>3 DEF ImagesInv, Named, Checked, Spares, Calm
<1>7. InService'
  BY <1>1, <1>2, <1>3, <1>4 DEF ImagesInv, Calm, InService, Serveable, MayMake
<1>8. QED
  BY <1>5, <1>6, <1>7 DEF ImagesInv

LEMMA SwitchKeeps == ASSUME ImagesInv, B!Switch PROVE ImagesInv'
<1>1. /\ refresh.at = "check" /\ daemon' = [daemon EXCEPT !.image = made, !.idle = None]
      /\ refresh' = [refresh EXCEPT !.at = "plan"] /\ UNCHANGED <<images, made, cli, inventory, scans, spoiled, struck>>
  BY DEF B!Switch
<1>2. refresh' \in RefreshType /\ refresh'.at = "plan"
  BY <1>1, RefreshGoes DEF RefreshAt, ImagesInv, ImagesTyped
<1>3. daemon' \in DaemonType /\ daemon'.image = made /\ daemon'.idle = None /\ daemon'.up = daemon.up
  BY <1>1, Tags DEF DaemonType, ImagesInv, ImagesTyped
<1>4. made \in images /\ made \notin cli.todo /\ ~cli.calm
  BY <1>1 DEF ImagesInv, Checked, Calm
<1>5. ImagesTyped'
  BY <1>1, <1>2, <1>3 DEF ImagesInv, ImagesTyped, ScanHolds
<1>6. Named' /\ Checked' /\ Spares' /\ Calm'
  BY <1>1, <1>2, <1>4 DEF ImagesInv, Named, Checked, Spares, Calm
<1>7. InService'
  BY <1>1, <1>2, <1>3, <1>4 DEF ImagesInv, InService, Serveable, MayMake
<1>8. QED
  BY <1>5, <1>6, <1>7 DEF ImagesInv

\* A plan spares the image it takes for in service, the newest and the configured one.
LEMMA PlanSpares ==
    ASSUME ImagesInv, NEW service, NEW rule
    PROVE  /\ B!Prunable(service, rule) \subseteq 1..made /\ B!Prunable(service, rule) \subseteq B!Refreshed
           /\ service \notin B!Prunable(service, rule) /\ made \notin B!Prunable(service, rule)
           /\ {0, None} \cap B!Prunable(service, rule) = {}
<1>1. images \subseteq 0..made /\ made \in 0..MaxImages /\ MaxImages \in Nat /\ None \notin Nat
  BY Tags DEF ImagesInv, ImagesTyped
<1>2. B!Prunable(service, rule) \subseteq images \cap 1..MaxImages /\ service \notin B!Prunable(service, rule)
  BY Tags DEF B!Prunable
<1>3. made \notin B!Prunable(service, rule)
  <2>1. \A j \in images \cap 1..MaxImages : ~(j > made)
    BY <1>1
  <2>2. made \in images => B!Newest(made)
    BY <2>1, Tags DEF B!Newest, B!NewerThan
  <2>3. QED
    BY <1>2, <2>2 DEF B!Prunable
<1>4. \A i \in B!Prunable(service, rule) : i \in 1..made
  BY <1>1, <1>2
<1>5. QED
  BY <1>1, <1>2, <1>3, <1>4, Tags

LEMMA PlanKeeps == ASSUME ImagesInv, B!Plan PROVE ImagesInv'
<1>1. refresh.at = "plan" /\ UNCHANGED <<images, made, daemon, cli, inventory, scans, spoiled, struck>>
  BY DEF B!Plan
<1>2. /\ refresh' \in RefreshType /\ refresh'.at \in {"prune", "record"}
      /\ refresh'.at = "prune" => daemon.image \notin refresh'.todo
  <2>1. CASE \E rule \in B!Rules : refresh' = [at |-> "prune", todo |-> B!Prunable(daemon.image, rule)]
    BY <2>1, PlanSpares DEF RefreshType, RefreshAt
  <2>2. CASE refresh' = [refresh EXCEPT !.at = "record"]
    BY <2>2, RefreshGoes DEF RefreshAt, ImagesInv, ImagesTyped
  <2>3. QED
    BY <2>1, <2>2 DEF B!Plan
<1>3. ImagesTyped'
  BY <1>1, <1>2 DEF ImagesInv, ImagesTyped, ScanHolds
<1>4. Named' /\ Checked' /\ Spares' /\ Calm' /\ InService'
  BY <1>1, <1>2 DEF ImagesInv, Named, Checked, Spares, Calm, InService, Serveable, MayMake
<1>5. QED
  BY <1>3, <1>4 DEF ImagesInv

\* What a prune removes: the newest of what it has still to remove, if the runtime lets it.
LEMMA PruneOneKeeps == ASSUME ImagesInv, B!PruneOne PROVE ImagesInv'
<1> DEFINE i == B!Newer(refresh.todo)
<1>1. /\ refresh.at = "prune" /\ refresh.todo # {} /\ images' \in {images, images \ {i}}
      /\ refresh' = [refresh EXCEPT !.todo = @ \ {i}]
      /\ UNCHANGED <<made, daemon, cli, inventory, scans, spoiled, struck>>
  BY DEF B!PruneOne, B!Remove
<1>2. i \in refresh.todo /\ refresh.todo \subseteq 1..MaxImages
  BY <1>1, NewestIsIn, Tags DEF ImagesInv, ImagesTyped, RefreshType
<1> HIDE DEF i
<1>3. daemon.image # i /\ 0 # i
  BY <1>1, <1>2, Tags DEF ImagesInv, Spares
<1>4. refresh' \in RefreshType /\ refresh'.at = "prune" /\ refresh'.todo \subseteq refresh.todo
  BY <1>1 DEF ImagesInv, ImagesTyped, RefreshType
<1>5. ImagesTyped'
  BY <1>1, <1>3, <1>4 DEF ImagesInv, ImagesTyped, ScanHolds
<1>6. Named' /\ Checked' /\ Spares' /\ Calm'
  BY <1>1, <1>4 DEF ImagesInv, Named, Checked, Spares, Calm
<1>7. InService'
  BY <1>1, <1>3, <1>4 DEF ImagesInv, InService, Serveable, MayMake
<1>8. QED
  BY <1>5, <1>6, <1>7 DEF ImagesInv

LEMMA PruneEndsKeeps == ASSUME ImagesInv, B!PruneEnds PROVE ImagesInv'
<1>1. /\ refresh.at = "prune" /\ refresh' = [refresh EXCEPT !.at = "record"]
      /\ UNCHANGED <<images, made, daemon, cli, inventory, scans, spoiled, struck>>
  BY DEF B!PruneEnds
<1>2. refresh' \in RefreshType /\ refresh'.at = "record"
  BY <1>1, RefreshGoes DEF RefreshAt, ImagesInv, ImagesTyped
<1>3. ImagesTyped'
  BY <1>1, <1>2 DEF ImagesInv, ImagesTyped, ScanHolds
<1>4. Named' /\ Checked' /\ Spares' /\ Calm' /\ InService'
  BY <1>1, <1>2 DEF ImagesInv, Named, Checked, Spares, Calm, InService, Serveable, MayMake
<1>5. QED
  BY <1>3, <1>4 DEF ImagesInv

\* The prune command.
LEMMA NoCommandTyped == B!NoCommand \in CliType /\ B!NoCommand.at = "off" /\ ~B!NoCommand.calm /\ ~B!NoCommand.misled /\ B!NoCommand.todo = {}
BY Tags DEF B!NoCommand, CliType, CliAt

LEMMA CommandReadsKeeps == ASSUME ImagesInv, B!CommandReads PROVE ImagesInv'
<1>1. /\ cli' = [at |-> "plan", service |-> inventory, todo |-> {}, calm |-> refresh.at = "rest",
                misled |-> spoiled]
      /\ UNCHANGED <<images, made, daemon, refresh, inventory, scans, spoiled, struck>>
  BY DEF B!CommandReads
<1>2. cli' \in CliType /\ cli'.at = "plan" /\ cli'.service = inventory /\ cli'.todo = {} /\ cli'.misled = spoiled
  BY <1>1 DEF ImagesInv, ImagesTyped, CliType, CliAt
<1>3. cli'.calm => refresh.at = "rest"
  BY <1>1
<1>4. ImagesTyped'
  BY <1>1, <1>2 DEF ImagesInv, ImagesTyped, ScanHolds
<1>5. Named' /\ Checked' /\ Spares' /\ Calm'
  BY <1>1, <1>2, <1>3 DEF ImagesInv, Named, Checked, Spares, Calm
<1>6. InService'
  BY <1>1, <1>2, <1>3 DEF ImagesInv, Named, InService, Serveable, MayMake
<1>7. QED
  BY <1>4, <1>5, <1>6 DEF ImagesInv

LEMMA CommandPlansKeeps == ASSUME ImagesInv, B!CommandPlans PROVE ImagesInv'
<1>1. cli.at = "plan" /\ UNCHANGED <<images, made, daemon, refresh, inventory, scans, spoiled, struck>>
  BY DEF B!CommandPlans
<1>2. PICK rule \in B!Rules : cli' = [cli EXCEPT !.at = "prune", !.todo = B!Prunable(cli.service, rule)]
  BY DEF B!CommandPlans
<1>3. PICK S : S = B!Prunable(cli.service, rule)
  OBVIOUS
<1>4. S \subseteq 1..made /\ S \subseteq B!Refreshed /\ cli.service \notin S /\ made \notin S /\ {0, None} \cap S = {}
  BY <1>3, PlanSpares
<1>5. /\ cli' \in CliType /\ cli'.at = "prune" /\ cli'.todo = S
      /\ cli'.service = cli.service /\ cli'.calm = cli.calm /\ cli'.misled = cli.misled
  BY <1>2, <1>3, <1>4 DEF ImagesInv, ImagesTyped, CliType, CliAt
<1>6. ImagesTyped'
  BY <1>1, <1>5 DEF ImagesInv, ImagesTyped, ScanHolds
<1>7. Named' /\ Checked' /\ Spares' /\ Calm'
  BY <1>1, <1>4, <1>5 DEF ImagesInv, Named, Checked, Spares, Calm
<1>8. InService'
  BY <1>1, <1>4, <1>5 DEF ImagesInv, InService, Serveable, MayMake
<1>9. QED
  BY <1>6, <1>7, <1>8 DEF ImagesInv

LEMMA CommandPrunesKeeps == ASSUME ImagesInv, B!CommandPrunes PROVE ImagesInv'
<1> DEFINE i == B!Newer(cli.todo)
<1>1. /\ cli.at = "prune" /\ cli.todo # {} /\ images' \in {images, images \ {i}}
      /\ cli' = [cli EXCEPT !.todo = @ \ {i}]
      /\ struck' = IF cli.misled THEN struck \cup ({daemon.image} \cap (images \ images')) ELSE struck
      /\ UNCHANGED <<made, daemon, refresh, inventory, scans, spoiled>>
  BY DEF B!CommandPrunes, B!Remove
<1>2. i \in cli.todo /\ cli.todo \subseteq 1..MaxImages
  BY <1>1, NewestIsIn, Tags DEF ImagesInv, ImagesTyped, CliType
<1> HIDE DEF i
<1>3. 0 # i
  BY <1>2, Tags
<1>4. /\ cli' \in CliType /\ cli'.at = "prune" /\ cli'.todo \subseteq cli.todo
      /\ cli'.service = cli.service /\ cli'.calm = cli.calm /\ cli'.misled = cli.misled
  BY <1>1 DEF ImagesInv, ImagesTyped, CliType
<1>5. struck' \subseteq B!Refreshed
  BY <1>1, <1>2, Tags DEF ImagesInv, ImagesTyped
<1>6. ImagesTyped'
  BY <1>1, <1>3, <1>4, <1>5 DEF ImagesInv, ImagesTyped, ScanHolds
<1>7. Named' /\ Checked' /\ Spares' /\ Calm'
  BY <1>1, <1>2, <1>4 DEF ImagesInv, Named, Checked, Spares, Calm
<1>8. daemon.image \in images' \cup struck'
  <2>1. daemon.image \in images \cup struck
    BY DEF ImagesInv, InService
  <2>2. CASE cli.misled
    BY <1>1, <2>1, <2>2
  <2>3. CASE ~cli.misled
    <3>1. daemon.image # i
      BY <1>1, <1>2, <2>3 DEF ImagesInv, InService, Serveable
    <3>2. QED
      BY <1>1, <2>1, <2>3, <3>1
  <2>4. QED
    BY <2>2, <2>3
<1>9. InService'
  BY <1>1, <1>4, <1>8 DEF ImagesInv, InService, Serveable, MayMake
<1>10. QED
  BY <1>6, <1>7, <1>9 DEF ImagesInv

LEMMA CommandRecordsKeeps == ASSUME ImagesInv, B!CommandRecords PROVE ImagesInv'
<1>1. cli.at = "prune" /\ cli' = B!NoCommand /\ UNCHANGED <<images, made, daemon, refresh, scans, struck>>
  BY DEF B!CommandRecords
<1>2. \/ inventory' = cli.service /\ spoiled' = (cli.service # daemon.image)
      \/ UNCHANGED <<inventory, spoiled>>
  BY DEF B!CommandRecords
<1>3. cli'.at = "off" /\ ~cli'.calm /\ ~cli'.misled /\ cli'.todo = {} /\ cli' \in CliType
  BY <1>1, NoCommandTyped
<1>4. inventory' \in B!MaybeImage /\ spoiled' \in BOOLEAN
  BY <1>2 DEF ImagesInv, ImagesTyped, CliType
<1>5. ~spoiled' => inventory' = daemon.image \/ (~spoiled /\ inventory' = inventory)
  BY <1>2
<1>6. ImagesTyped'
  BY <1>1, <1>3, <1>4 DEF ImagesInv, ImagesTyped, ScanHolds
<1>7. Named' /\ Checked' /\ Spares' /\ Calm'
  BY <1>1, <1>3, <1>5 DEF ImagesInv, Named, Checked, Spares, Calm
<1>8. InService'
  <2>1. ~spoiled' => daemon.image \in {inventory', made, 0}
    BY <1>5 DEF ImagesInv, InService
  <2>2. QED
    BY <1>1, <1>3, <2>1 DEF ImagesInv, InService
<1>9. QED
  BY <1>6, <1>7, <1>8 DEF ImagesInv

LEMMA CommandEndsKeeps == ASSUME ImagesInv, B!CommandEnds PROVE ImagesInv'
<1>1. cli' = B!NoCommand /\ UNCHANGED <<images, made, daemon, refresh, inventory, scans, spoiled, struck>>
  BY DEF B!CommandEnds
<1>2. cli'.at = "off" /\ ~cli'.calm /\ ~cli'.misled /\ cli'.todo = {} /\ cli' \in CliType
  BY <1>1, NoCommandTyped
<1>3. ImagesTyped'
  BY <1>1, <1>2 DEF ImagesInv, ImagesTyped, ScanHolds
<1>4. Named' /\ Checked' /\ Spares' /\ Calm' /\ InService'
  BY <1>1, <1>2 DEF ImagesInv, Named, Checked, Spares, Calm, InService, Serveable, MayMake
<1>5. QED
  BY <1>3, <1>4 DEF ImagesInv

\* The scans, and the browsers that are idle after them.
LEMMA OneScan ==
    ASSUME ImagesInv, UNCHANGED <<images, made, refresh, cli, inventory, spoiled, struck>>,
           daemon' \in DaemonType, daemon'.image = daemon.image, daemon'.up = daemon.up,
           daemon'.idle \in {daemon.image, None}, daemon'.idle # None => daemon.up,
           NEW s \in Sites, NEW w \in ScanType, scans' = [scans EXCEPT ![s] = w],
           w.image = None <=> w.at = "new", w.at = "running" => daemon.up
    PROVE  ImagesInv'
<1>1. scans \in [Sites -> ScanType]
  BY DEF ImagesInv, ImagesTyped
<1>2. scans' \in [Sites -> ScanType]
  BY <1>1
<1>3. \A t \in Sites : scans'[t] = IF t = s THEN w ELSE scans[t]
  BY <1>1
<1>4. \A t \in Sites : ScanHolds(t)'
  <2> TAKE t \in Sites
  <2>1. CASE t = s
    BY <1>3, <2>1 DEF ScanHolds
  <2>2. CASE t # s
    BY <1>3, <2>2, ScanFacts DEF ScanHolds
  <2>3. QED
    BY <2>1, <2>2
<1>5. QED
  BY <1>2, <1>4, ImagesRest

LEMMA StartScanKeeps == ASSUME ImagesInv, NEW s \in Sites, B!StartScan(s) PROVE ImagesInv'
<1>1. /\ scans' = [scans EXCEPT ![s] = [at |-> "running", image |-> daemon.image]]
      /\ daemon' = [daemon EXCEPT !.idle = None] /\ UNCHANGED <<images, made, refresh, cli, inventory, spoiled, struck>>
  BY DEF B!StartScan
<1>2. daemon \in DaemonType /\ scans \in [Sites -> ScanType] /\ daemon.image \in 0..MaxImages
  BY DEF ImagesInv, ImagesTyped, DaemonType
<1>3. [at |-> "running", image |-> daemon.image] \in ScanType
  BY <1>2, Tags DEF ScanType, B!ScanAt
<1>4. /\ daemon' \in DaemonType /\ daemon'.image = daemon.image /\ daemon'.up = daemon.up
      /\ daemon'.idle = None
  BY <1>1, <1>2, Tags DEF DaemonType
<1>5. daemon.up /\ daemon.image # None
  BY <1>2, Tags DEF B!StartScan
<1>6. QED
  BY <1>1, <1>3, <1>4, <1>5, OneScan

LEMMA EndScanKeeps == ASSUME ImagesInv, NEW s \in Sites, B!EndScan(s) PROVE ImagesInv'
<1>1. /\ scans[s].at = "running" /\ scans' = [scans EXCEPT ![s].at = "ended"]
      /\ daemon' = [daemon EXCEPT !.idle = IF scans[s].image = daemon.image THEN daemon.image ELSE @]
      /\ UNCHANGED <<images, made, refresh, cli, inventory, spoiled, struck>>
  BY DEF B!EndScan
<1>2. daemon \in DaemonType /\ scans \in [Sites -> ScanType] /\ daemon.image \in B!MaybeImage
  BY Tags DEF ImagesInv, ImagesTyped, DaemonType
<1>3. daemon.up /\ daemon.idle \in {daemon.image, None} /\ scans[s].image # None
  BY <1>1, ScanFacts DEF ImagesInv, ImagesTyped, ScanHolds
<1>4. /\ daemon' \in DaemonType /\ daemon'.image = daemon.image /\ daemon'.up = daemon.up
      /\ daemon'.idle \in {daemon.image, None}
  BY <1>1, <1>2, <1>3 DEF DaemonType
<1>5. PICK w : w = [scans[s] EXCEPT !.at = "ended"]
  OBVIOUS
<1>6. w \in ScanType /\ w.at = "ended" /\ w.image = scans[s].image
  BY <1>2, <1>5 DEF ScanType, B!ScanAt
<1>7. scans' = [scans EXCEPT ![s] = w]
  BY <1>1, <1>5
<1>8. QED
  BY <1>1, <1>2, <1>3, <1>4, <1>6, <1>7, OneScan

LEMMA StoreScanKeeps == ASSUME ImagesInv, NEW s \in Sites, B!StoreScan(s) PROVE ImagesInv'
<1>1. /\ scans[s].at = "ended" /\ scans' = [scans EXCEPT ![s].at = "stored"]
      /\ UNCHANGED <<images, made, daemon, refresh, cli, inventory, spoiled, struck>>
  BY DEF B!StoreScan
<1>2. scans \in [Sites -> ScanType] /\ scans[s].image # None
  BY <1>1, ScanFacts DEF ImagesInv, ImagesTyped, ScanHolds
<1>3. PICK w : w = [scans[s] EXCEPT !.at = "stored"]
  OBVIOUS
<1>4. w \in ScanType /\ w.at = "stored" /\ w.image = scans[s].image
  BY <1>2, <1>3 DEF ScanType, B!ScanAt
<1>5. scans' = [scans EXCEPT ![s] = w]
  BY <1>1, <1>3
<1>6. QED
  BY <1>1, <1>2, <1>4, <1>5, OneScan DEF ImagesInv, ImagesTyped

LEMMA ForgetKeeps == ASSUME ImagesInv, NEW s \in Sites, B!Forget(s) PROVE ImagesInv'
<1>1. /\ scans' = [scans EXCEPT ![s] = [at |-> "new", image |-> None]]
      /\ UNCHANGED <<images, made, daemon, refresh, cli, inventory, spoiled, struck>>
  BY DEF B!Forget
<1>2. [at |-> "new", image |-> None] \in ScanType
  BY Tags DEF ScanType, B!ScanAt
<1>3. QED
  BY <1>1, <1>2, OneScan DEF ImagesInv, ImagesTyped

\* A process ends, with the scans and the refresh it was at.
LEMMA DaemonEndKeeps == ASSUME ImagesInv, B!End PROVE ImagesInv'
<1>1. /\ daemon' = [daemon EXCEPT !.up = FALSE, !.idle = None] /\ refresh' = B!Off
      /\ scans' = [s \in Sites |-> IF scans[s].at \in {"running", "ended"}
                                   THEN [at |-> "new", image |-> None] ELSE scans[s]]
      /\ UNCHANGED <<images, made, cli, inventory, spoiled, struck>>
  BY DEF B!End
<1>2. daemon \in DaemonType /\ scans \in [Sites -> ScanType]
  BY DEF ImagesInv, ImagesTyped
<1>3. refresh' \in RefreshType /\ refresh'.at = "off"
  BY <1>1 DEF B!Off, RefreshType, RefreshAt
<1>4. daemon' \in DaemonType /\ daemon'.image = daemon.image /\ ~daemon'.up /\ daemon'.idle = None
  BY <1>1, <1>2, Tags DEF DaemonType
<1>5. [at |-> "new", image |-> None] \in ScanType
  BY Tags DEF ScanType, B!ScanAt
<1>6. scans' \in [Sites -> ScanType]
  BY <1>1, <1>2, <1>5
<1>7. \A s \in Sites : ScanHolds(s)'
  <2> TAKE s \in Sites
  <2>1. CASE scans[s].at \in {"running", "ended"}
    BY <1>1, <2>1 DEF ScanHolds
  <2>2. CASE scans[s].at \notin {"running", "ended"}
    BY <1>1, <2>2, ScanFacts DEF ScanHolds
  <2>3. QED
    BY <2>1, <2>2
<1>8. ImagesTyped'
  BY <1>1, <1>3, <1>4, <1>6, <1>7 DEF ImagesInv, ImagesTyped, ScanHolds
<1>9. Named' /\ Checked' /\ Spares' /\ Calm' /\ InService'
  BY <1>1, <1>3, <1>4 DEF ImagesInv, Named, Checked, Spares, Calm, InService, Serveable, MayMake
<1>10. QED
  BY <1>8, <1>9 DEF ImagesInv

-----------------------------------------------------------------------------
LEMMA ImagesStart == B!Init => ImagesInv
<1> SUFFICES ASSUME B!Init PROVE ImagesInv
  OBVIOUS
<1>1. /\ images = {0} /\ made = 0 /\ daemon = [up |-> FALSE, image |-> 0, idle |-> None]
      /\ refresh = B!Off /\ cli = B!NoCommand /\ inventory = None /\ spoiled = FALSE /\ struck = {}
      /\ scans = [s \in Sites |-> [at |-> "new", image |-> None]]
  BY Tags DEF B!Init
<1>2. refresh \in RefreshType /\ refresh.at = "off"
  BY <1>1 DEF B!Off, RefreshType, RefreshAt
<1>3. daemon \in DaemonType
  BY <1>1, Tags DEF DaemonType
<1>4. [at |-> "new", image |-> None] \in ScanType
  BY Tags DEF ScanType, B!ScanAt
<1>5. ImagesTyped
  <2>1. /\ images \subseteq 0..made /\ 0 \in images /\ made \in 0..MaxImages /\ daemon.image \in 0..made
        /\ inventory \in B!MaybeImage /\ struck \subseteq B!Refreshed
    BY <1>1, Tags
  <2>2. spoiled \in BOOLEAN
    BY <1>1
  <2>3. scans \in [Sites -> ScanType] /\ \A s \in Sites : ScanHolds(s)
    BY <1>1, <1>4, Tags DEF ScanHolds
  <2>4. cli \in CliType
    BY <1>1, NoCommandTyped
  <2>5. ~daemon.up /\ daemon.idle = None
    BY <1>1
  <2>6. QED
    BY <1>2, <1>3, <2>1, <2>2, <2>3, <2>4, <2>5 DEF ImagesTyped
<1>6. Named /\ Checked /\ Spares /\ Calm
  <2>1. cli.todo = {} /\ ~cli.calm
    BY <1>1, NoCommandTyped
  <2>2. QED
    BY <1>2, <2>1 DEF Named, Checked, Spares, Calm
<1>7. InService
  <2>1. daemon.image = 0 /\ images = {0} /\ cli.at = "off" /\ ~spoiled
    BY <1>1, NoCommandTyped
  <2>2. QED
    BY <2>1 DEF InService
<1>8. QED
  BY <1>5, <1>6, <1>7 DEF ImagesInv

LEMMA ImagesStep == ASSUME ImagesInv, [B!Next]_B!vars PROVE ImagesInv'
<1>1. CASE B!Start \/ B!RecordStart \/ B!Due \/ B!Make \/ B!MakeFails \/ B!Discard \/ B!Switch
  BY <1>1, StartKeeps, RecordsKeep, DueKeeps, MakeKeeps, MakeFailsKeeps, DiscardKeeps,
     SwitchKeeps DEF B!RecordStart
<1>2. CASE B!Plan \/ B!PruneOne \/ B!PruneEnds \/ B!RecordRefresh \/ B!End
  BY <1>2, PlanKeeps, PruneOneKeeps, PruneEndsKeeps, RecordsKeep, DaemonEndKeeps DEF B!RecordRefresh
<1>3. CASE B!CommandReads \/ B!CommandPlans \/ B!CommandPrunes \/ B!CommandRecords \/ B!CommandEnds
  BY <1>3, CommandReadsKeeps, CommandPlansKeeps, CommandPrunesKeeps, CommandRecordsKeeps,
     CommandEndsKeeps
<1>4. CASE \E s \in Sites : B!StartScan(s) \/ B!EndScan(s) \/ B!StoreScan(s) \/ B!Forget(s)
  BY <1>4, StartScanKeeps, EndScanKeeps, StoreScanKeeps, ForgetKeeps
<1>5. CASE UNCHANGED B!vars
  BY <1>5 DEF B!vars, ImagesInv, ImagesTyped, ScanHolds, Named, Checked, Spares, Calm, InService,
              Serveable, MayMake
<1>6. QED
  BY <1>1, <1>2, <1>3, <1>4, <1>5 DEF B!Next

\* What the run checks follows.
LEMMA ImagesHold == ImagesInv => B!TypeOK /\ B!ServiceImageExists /\ B!InventoryIsTrue
<1> SUFFICES ASSUME ImagesInv PROVE B!TypeOK /\ B!ServiceImageExists /\ B!InventoryIsTrue
  OBVIOUS
<1>1. daemon \in [up : BOOLEAN, image : 0..made, idle : B!MaybeImage]
  BY DEF ImagesInv, ImagesTyped, DaemonType
<1>2. \A s \in Sites : scans[s].image = None <=> scans[s].at = "new"
  BY ScanFacts DEF ScanHolds
<1>3. B!TypeOK
  BY <1>1, <1>2, Tags DEF ImagesInv, ImagesTyped, B!TypeOK, RefreshType, RefreshAt, CliType, CliAt,
                          ScanType
<1>4. QED
  BY <1>3 DEF ImagesInv, Named, InService, B!ServiceImageExists, B!InventoryIsTrue

-----------------------------------------------------------------------------
(* KeepRules: the results of a series.                                       *)

LEMMA KeepTypes == K!KeepAssumption
BY StorageAssumption

\* Results of one series: no two start at once, and none in the future.
Series(S) ==
    /\ S \subseteq K!Result /\ IsFiniteSet(S)
    /\ \A r, s \in S : r.at = s.at => r = s
    /\ \A r \in S : r.at <= now

RulesInv ==
    /\ now \in Moments /\ policy \in Policies \cup Bounds
    /\ stored \subseteq ever /\ Series(ever)
    /\ K!PeriodsKeepTheirBest

LEMMA ResultFields ==
    ASSUME NEW r \in K!Result, NEW u \in Units
    PROVE  r.at \in Moments /\ r.at \in Nat /\ r.tier \in Nat /\ Period[u][r.at] \in Nat
<1>1. r.at \in Moments /\ r.tier \in Tiers
  BY DEF K!Result
<1>2. QED
  BY <1>1, KeepTypes DEF K!KeepAssumption

LEMMA SubSeries == ASSUME NEW T, Series(T), NEW S, S \subseteq T PROVE Series(S)
<1>1. IsFiniteSet(S)
  BY FS_Subset DEF Series
<1>2. QED
  BY <1>1 DEF Series

LEMMA NewestThere ==
    ASSUME now \in Moments, NEW S, Series(S), S # {} PROVE \E m \in S : \A r \in S : r.at <= m.at
<1> DEFINE D == {now - r.at : r \in S}
<1>1. now \in Nat /\ \A r \in S : r.at \in Nat /\ r.at <= now
  BY KeepTypes DEF K!KeepAssumption, Series, K!Result
<1>2. D \subseteq Nat /\ D # {}
  BY <1>1
<1>3. PICK d \in D : \A e \in D : d <= e
  BY <1>2, Least
<1>4. PICK m \in S : d = now - m.at
  OBVIOUS
<1>5. \A r \in S : now - m.at <= now - r.at
  BY <1>3, <1>4
<1>6. \A r \in S : r.at <= m.at
  BY <1>1, <1>5
<1>7. QED
  BY <1>6

\* The newest of its period is among the newest, and the best of it ended no worse than any.
LEMMA PeriodNewest ==
    ASSUME now \in Moments, NEW S, Series(S), NEW u \in Units, NEW r \in S
    PROVE  \E m \in K!NewestOf(S, u) : Period[u][m.at] = Period[u][r.at]
<1> DEFINE P == {s \in S : Period[u][s.at] = Period[u][r.at]}
<1>1. Series(P) /\ P # {}
  BY SubSeries
<1>2. PICK m \in P : \A s \in P : s.at <= m.at
  BY <1>1, NewestThere
<1>3. m \in K!NewestOf(S, u)
  BY <1>2 DEF K!NewestOf
<1>4. QED
  BY <1>2, <1>3

LEMMA PeriodBest ==
    ASSUME now \in Moments, NEW S, Series(S), NEW u \in Units, NEW r \in S
    PROVE  \E b \in K!BestOf(S, u, Period[u][r.at]) :
             b \in S /\ Period[u][b.at] = Period[u][r.at] /\ b.tier <= r.tier
<1> DEFINE P == {s \in S : Period[u][s.at] = Period[u][r.at]}
           D == {s.tier : s \in P}
<1>1. \A s \in S : s.at \in Nat /\ s.tier \in Nat
  BY ResultFields DEF Series
<1>2. D \subseteq Nat /\ D # {}
  BY <1>1
<1>3. PICK t \in D : \A e \in D : t <= e
  BY <1>2, Least
<1> DEFINE L == {s \in P : s.tier = t}
<1>4. Series(L) /\ L # {}
  BY SubSeries
<1>5. PICK b \in L : \A s \in L : s.at <= b.at
  BY <1>4, NewestThere
<1>6. b \in S /\ Period[u][b.at] = Period[u][r.at] /\ b.tier = t /\ t \in Nat
  BY <1>2, <1>5
<1>7. \A s \in S \ {b} : Period[u][s.at] = Period[u][r.at] => K!Better(b, s)
  <2>1. SUFFICES ASSUME NEW s \in S, s # b, Period[u][s.at] = Period[u][r.at] PROVE K!Better(b, s)
    OBVIOUS
  <2>2. t <= s.tier /\ s.at # b.at /\ s.tier \in Nat /\ s.at \in Nat /\ b.at \in Nat
    BY <1>1, <1>3, <1>6, <2>1 DEF Series
  <2>3. s.tier = t => s.at <= b.at
    BY <1>5, <2>1
  <2>4. QED
    BY <1>6, <2>2, <2>3 DEF K!Better
<1>8. b \in K!BestOf(S, u, Period[u][r.at])
  BY <1>6, <1>7 DEF K!BestOf
<1>9. t <= r.tier
  BY <1>3
<1>10. QED
  BY <1>6, <1>8, <1>9

\* A rule that reaches a period among all results reaches it among fewer of them, as long
\* as one of that period is left: every newer period that is left was there before.
LEMMA ReachedStill ==
    ASSUME now \in Moments, NEW T, Series(T), NEW S, S \subseteq T, NEW u \in Units, NEW n \in Nat,
           NEW q \in K!Reached(T, u, n), NEW r \in S, Period[u][r.at] = q
    PROVE  q \in K!Reached(S, u, n)
<1> DEFINE G == K!NewestOf(S, u)
           H == K!NewestOf(T, u)
<1>1. Series(S)
  BY SubSeries
<1>2. PICK t \in K!Last(H, n) : q = Period[u][t.at]
  BY DEF K!Reached
<1>3. PICK m \in G : Period[u][m.at] = q
  BY <1>1, PeriodNewest
<1> DEFINE X == {s \in G : s.at > m.at}
           Y == {s \in H : s.at > t.at}
<1>4. t \in T /\ m \in S /\ G \subseteq S /\ H \subseteq T
  BY <1>2 DEF K!Last, K!NewestOf
<1>5. \A s \in X : \E y \in Y : Period[u][y.at] = Period[u][s.at]
  <2> TAKE s \in X
  <2>1. PICK y \in H : Period[u][y.at] = Period[u][s.at]
    BY <1>4, PeriodNewest
  <2>2. /\ s.at \in Moments /\ m.at \in Moments /\ t.at \in Moments /\ y.at \in Moments
        /\ s.at \in Nat /\ m.at \in Nat /\ t.at \in Nat /\ y.at \in Nat
        /\ Period[u][s.at] \in Nat /\ q \in Nat
    BY <1>1, <1>3, <1>4, ResultFields DEF Series
  <2>3. Period[u][s.at] # q
    BY <1>3, <1>4, <2>2 DEF K!NewestOf
  <2>4. q < Period[u][s.at]
    <3>1. Period[u][m.at] <= Period[u][s.at]
      BY <2>2, KeepTypes DEF K!KeepAssumption
    <3>2. QED
      BY <1>3, <2>2, <2>3, <3>1
  <2>5. ~(y.at <= t.at)
    <3>1. y.at <= t.at => Period[u][y.at] <= Period[u][t.at]
      BY <2>2, KeepTypes DEF K!KeepAssumption
    <3>2. QED
      BY <1>2, <2>1, <2>2, <2>4, <3>1
  <2>6. QED
    BY <2>1, <2>2, <2>5
<1> DEFINE f == [s \in X |-> CHOOSE y \in Y : Period[u][y.at] = Period[u][s.at]]
<1>6. f \in [X -> Y] /\ \A s \in X : f[s] \in Y /\ Period[u][f[s].at] = Period[u][s.at]
  BY <1>5
<1> HIDE DEF f
<1>7. \A s, z \in X : f[s] = f[z] => s = z
  <2> SUFFICES ASSUME NEW s \in X, NEW z \in X, f[s] = f[z] PROVE s = z
    OBVIOUS
  <2>1. Period[u][s.at] = Period[u][z.at]
    BY <1>6
  <2>2. s.at <= z.at /\ z.at <= s.at /\ s \in S /\ z \in S
    BY <1>4, <2>1 DEF K!NewestOf
  <2>3. s.at \in Nat /\ z.at \in Nat
    BY <1>1, <2>2, ResultFields DEF Series
  <2>4. QED
    BY <1>1, <2>2, <2>3 DEF Series
<1>8. f \in Injection(X, Y)
  BY <1>6, <1>7 DEF Injection, IsInjective
<1>9. IsFiniteSet(Y)
  BY <1>4, FS_Subset DEF Series
<1>10. Cardinality(X) <= Cardinality(Y) /\ Cardinality(X) \in Nat /\ Cardinality(Y) \in Nat
  <2> HIDE DEF X, Y
  <2>1. IsFiniteSet(X) /\ Cardinality(X) <= Cardinality(Y)
    BY <1>8, <1>9, FS_Injection
  <2>2. QED
    BY <1>9, <2>1, FS_CardinalityType
<1>11. Cardinality(Y) < n
  BY <1>2, Counting DEF K!Last
<1>12. Cardinality(X) < n
  BY <1>10, <1>11
<1>13. m \in K!Last(G, n)
  BY <1>3, <1>12, Counting DEF K!Last
<1>14. QED
  BY <1>3, <1>13 DEF K!Reached

\* The newest of all is always among the last, and of a period that is reached.
LEMMA LastOne ==
    ASSUME now \in Moments, NEW S, Series(S), S # {}, NEW n \in Nat, n # 0
    PROVE  K!Last(S, n) # {}
<1>1. PICK m \in S : \A r \in S : r.at <= m.at
  BY NewestThere
<1>2. {r \in S : r.at > m.at} = {}
  <2>1. \A r \in S : r.at \in Nat
    BY KeepTypes DEF K!KeepAssumption, Series, K!Result
  <2>2. QED
    BY <1>1, <2>1
<1>3. Cardinality({r \in S : r.at > m.at}) = 0
  BY <1>2, FS_EmptySet
<1>4. QED
  BY <1>1, <1>3, Counting DEF K!Last

LEMMA BucketKept ==
    ASSUME now \in Moments, NEW S, Series(S), NEW u \in Units, NEW n \in Nat, NEW q \in K!Reached(S, u, n)
    PROVE  \E r \in S : q = Period[u][r.at]
BY DEF K!Reached, K!Last, K!NewestOf

\* A rule that asks for more keeps more.
LEMMA MoreIsKept ==
    ASSUME NEW S, Series(S), NEW n \in Nat, NEW l \in Nat, n <= l
    PROVE  /\ K!Last(S, n) \subseteq K!Last(S, l)
           /\ \A u \in Units : K!BucketKeepers(S, u, n) \subseteq K!BucketKeepers(S, u, l)
<1>1. \A X : X \subseteq S => K!Last(X, n) \subseteq K!Last(X, l)
  <2> SUFFICES ASSUME NEW X, X \subseteq S, NEW r \in K!Last(X, n) PROVE r \in K!Last(X, l)
    OBVIOUS
  <2> DEFINE Y == {s \in X : s.at > r.at}
  <2>1. Y \subseteq S
    OBVIOUS
  <2> HIDE DEF Y
  <2>2. Cardinality(Y) \in Nat
    BY <2>1, FS_Subset, FS_CardinalityType DEF Series
  <2>3. r \in X /\ Cardinality(Y) < n
    BY Counting DEF K!Last, Y
  <2>4. Cardinality(Y) < l
    BY <2>2, <2>3
  <2>5. QED
    BY <2>3, <2>4, Counting DEF K!Last, Y
<1>2. \A u \in Units : K!Reached(S, u, n) \subseteq K!Reached(S, u, l)
  <2> TAKE u \in Units
  <2>1. K!NewestOf(S, u) \subseteq S
    BY DEF K!NewestOf
  <2>2. K!Last(K!NewestOf(S, u), n) \subseteq K!Last(K!NewestOf(S, u), l)
    BY <1>1, <2>1
  <2>3. QED
    BY <2>2 DEF K!Reached
<1>3. QED
  BY <1>1, <1>2 DEF K!BucketKeepers

\* What applyKeep keeps of its own, before the newest result it falls back to.
KeptBy(S, p) == K!Last(S, p.last) \cup (IF K!Bounded(p) THEN K!Since(S, p.within) ELSE {})
                \cup UNION {K!BucketKeepers(S, u, p.count[u]) : u \in Units}

LEMMA RulesKeep ==
    ASSUME NEW S, NEW p
    PROVE  K!KeptByRules(S, p) = IF KeptBy(S, p) = {} /\ ~K!Bounded(p) THEN K!Last(S, 1) ELSE KeptBy(S, p)
BY DEF K!KeptByRules, KeptBy

LEMMA PolicyTypes == ASSUME NEW p \in Policies PROVE p.last \in Nat /\ p.within \in Nat /\ p.count \in [Units -> Nat]
BY KeepTypes DEF K!KeepAssumption

LEMMA OnlyStored == ASSUME NEW S, NEW p PROVE K!SelectKeep(S, p) \subseteq S
<1>1. \A n : K!Last(S, n) \subseteq S
  BY DEF K!Last
<1>2. \A n : K!Since(S, n) \subseteq S
  BY DEF K!Since
<1>3. \A u, n : K!BucketKeepers(S, u, n) \subseteq S
  BY DEF K!BucketKeepers, K!BestOf
<1>4. KeptBy(S, p) \subseteq S
  BY <1>1, <1>2, <1>3 DEF KeptBy
<1>5. K!KeptByBounds(S, p) \subseteq S
  BY <1>1, <1>2 DEF K!KeptByBounds
<1>6. QED
  BY <1>1, <1>4, <1>5, RulesKeep DEF K!SelectKeep

\* A policy that asks for something keeps something of its own, or bounds the age.
LEMMA ActiveKeeps ==
    ASSUME now \in Moments, NEW S, Series(S), S # {}, NEW p \in Policies, K!Active(p), ~K!Bounded(p)
    PROVE  KeptBy(S, p) # {}
<1>1. p.last \in Nat /\ p.count \in [Units -> Nat]
  BY PolicyTypes
<1>2. CASE p.last # 0
  BY <1>1, <1>2, LastOne DEF KeptBy
<1>3. CASE \E u \in Units : p.count[u] # 0
  <2>1. PICK u \in Units : p.count[u] # 0
    BY <1>3
  <2>2. PICK r \in S : TRUE
    OBVIOUS
  <2>3. K!NewestOf(S, u) # {} /\ K!NewestOf(S, u) \subseteq S
    BY <2>2, PeriodNewest DEF K!NewestOf
  <2>4. Series(K!NewestOf(S, u))
    BY <2>3, SubSeries
  <2>5. K!Last(K!NewestOf(S, u), p.count[u]) # {}
    BY <1>1, <2>1, <2>3, <2>4, LastOne
  <2>6. PICK q : q \in K!Reached(S, u, p.count[u])
    BY <2>5 DEF K!Reached
  <2>7. PICK s \in S : q = Period[u][s.at]
    BY <1>1, <2>6, BucketKept
  <2>8. K!BestOf(S, u, q) # {}
    BY <2>7, PeriodBest
  <2>9. K!BucketKeepers(S, u, p.count[u]) # {}
    BY <2>6, <2>8 DEF K!BucketKeepers
  <2>10. QED
    BY <2>1, <2>9 DEF KeptBy
<1>4. QED
  BY <1>2, <1>3 DEF K!Active, K!IsKeep, K!Bounded, K!Off

LEMMA RulesAdd == RulesInv => K!RulesOnlyAdd
<1> SUFFICES ASSUME RulesInv, policy \in Policies, K!Active(policy), NEW p \in Policies, K!Within(policy, p)
             PROVE  K!KeptByRules(stored, policy) \subseteq K!KeptByRules(stored, p)
  BY DEF K!RulesOnlyAdd, K!SelectKeep, K!IsKeep
<1>1. now \in Moments /\ Series(stored)
  BY SubSeries DEF RulesInv
<1>2. /\ policy.last \in Nat /\ policy.within \in Nat /\ policy.count \in [Units -> Nat]
      /\ p.last \in Nat /\ p.within \in Nat /\ p.count \in [Units -> Nat]
  BY PolicyTypes
<1>3. policy.last <= p.last /\ policy.within <= p.within /\ \A u \in Units : policy.count[u] <= p.count[u]
  BY DEF K!Within
<1>4. KeptBy(stored, policy) \subseteq KeptBy(stored, p)
  <2>1. K!Last(stored, policy.last) \subseteq K!Last(stored, p.last)
    BY <1>1, <1>2, <1>3, MoreIsKept
  <2>2. \A u \in Units : K!BucketKeepers(stored, u, policy.count[u]) \subseteq K!BucketKeepers(stored, u, p.count[u])
    BY <1>1, <1>2, <1>3, MoreIsKept
  <2>3. K!Bounded(policy) => K!Bounded(p) /\ K!Since(stored, policy.within) \subseteq K!Since(stored, p.within)
    <3>1. K!Bounded(policy) => K!Bounded(p)
      BY <1>2, <1>3 DEF K!Bounded, K!Off
    <3>2. now \in Nat /\ \A r \in stored : r.at \in Nat
      BY <1>1, KeepTypes DEF K!KeepAssumption, Series, K!Result
    <3>3. QED
      BY <1>2, <1>3, <3>1, <3>2 DEF K!Since
  <2>4. QED
    BY <2>1, <2>2, <2>3 DEF KeptBy
<1>5. CASE KeptBy(stored, policy) # {}
  BY <1>4, <1>5, RulesKeep
<1>6. CASE KeptBy(stored, policy) = {} /\ K!Bounded(policy)
  BY <1>6, RulesKeep
<1>7. CASE KeptBy(stored, policy) = {} /\ ~K!Bounded(policy)
  <2>1. stored = {}
    BY <1>1, <1>7, ActiveKeeps
  <2>2. K!KeptByRules(stored, policy) \subseteq stored
    BY OnlyStored DEF K!SelectKeep, K!IsKeep
  <2>3. QED
    BY <2>1, <2>2
<1>8. QED
  BY <1>5, <1>6, <1>7

\* A result is stored: what the periods before it held is still there.
LEMMA StoreKeeps == ASSUME RulesInv, K!Store PROVE RulesInv'
<1>1. PICK r \in K!Result : /\ r.at <= now /\ \A s \in ever : s.at # r.at
                            /\ stored' = stored \cup {r} /\ ever' = ever \cup {r} /\ UNCHANGED <<now, policy>>
  BY DEF K!Store
<1>2. now \in Moments /\ policy \in Policies \cup Bounds /\ stored \subseteq ever /\ Series(ever)
  BY DEF RulesInv
<1>3. IsFiniteSet(ever')
  BY <1>1, <1>2, FS_AddElement DEF Series
<1>4. Series(ever') /\ Series(ever)'
  BY <1>1, <1>2, <1>3 DEF Series
<1>5. K!PeriodsKeepTheirBest'
  <2>1. SUFFICES ASSUME policy \in Policies, NEW u \in Units, NEW q \in K!Reached(ever', u, policy.count[u]),
                        NEW s \in ever', Period[u][s.at] = q
                 PROVE  \E t \in stored' : Period[u][t.at] = q /\ t.tier <= s.tier
    BY <1>1 DEF K!PeriodsKeepTheirBest, K!IsKeep
  <2>2. CASE s = r
    <3>1. r.tier \in Nat
      BY ResultFields
    <3>2. r \in stored' /\ r.tier <= s.tier
      BY <1>1, <2>2, <3>1
    <3>3. QED
      BY <2>1, <2>2, <3>2
  <2>3. CASE s \in ever
    <3>1. policy.count[u] \in Nat
      BY <2>1, PolicyTypes
    <3>2. q \in K!Reached(ever, u, policy.count[u])
      BY <1>1, <1>2, <1>4, <2>1, <2>3, <3>1, ReachedStill
    <3>3. PICK t \in stored : Period[u][t.at] = q /\ t.tier <= s.tier
      BY <2>1, <2>3, <3>2 DEF RulesInv, K!PeriodsKeepTheirBest, K!IsKeep
    <3>4. QED
      BY <1>1, <3>3
  <2>4. QED
    BY <1>1, <2>2, <2>3
<1>6. QED
  BY <1>1, <1>2, <1>4, <1>5 DEF RulesInv

\* A prune decides from what the ones before it have left, and keeps the best of it.
LEMMA PruneKeeps == ASSUME RulesInv, K!Prune PROVE RulesInv'
<1>1. stored' = K!SelectKeep(stored, policy) /\ UNCHANGED <<now, policy, ever>>
  BY DEF K!Prune
<1>2. /\ now \in Moments /\ policy \in Policies \cup Bounds /\ stored \subseteq ever
      /\ Series(ever) /\ Series(stored)
  BY SubSeries DEF RulesInv
<1>3. stored' \subseteq stored
  BY <1>1, OnlyStored
<1>4. K!PeriodsKeepTheirBest'
  <2>1. SUFFICES ASSUME policy \in Policies, NEW u \in Units, NEW q \in K!Reached(ever, u, policy.count[u]),
                        NEW s \in ever, Period[u][s.at] = q
                 PROVE  \E t \in stored' : Period[u][t.at] = q /\ t.tier <= s.tier
    BY <1>1 DEF K!PeriodsKeepTheirBest, K!IsKeep
  <2>2. PICK r \in stored : Period[u][r.at] = q /\ r.tier <= s.tier
    BY <2>1 DEF RulesInv, K!PeriodsKeepTheirBest, K!IsKeep
  <2>3. policy.count[u] \in Nat
    BY <2>1, PolicyTypes
  <2>4. q \in K!Reached(stored, u, policy.count[u])
    BY <1>2, <2>2, <2>3, ReachedStill
  <2>5. PICK b \in K!BestOf(stored, u, q) : b \in stored /\ Period[u][b.at] = q /\ b.tier <= r.tier
    BY <1>2, <2>2, PeriodBest
  <2>6. b \in KeptBy(stored, policy)
    BY <2>4, <2>5 DEF KeptBy, K!BucketKeepers
  <2>7. b \in stored'
    BY <1>1, <2>1, <2>6, RulesKeep DEF K!SelectKeep, K!IsKeep
  <2>8. b.tier \in Nat /\ r.tier \in Nat /\ s.tier \in Nat
    BY <1>2, <2>5, ResultFields DEF Series
  <2>9. QED
    BY <2>2, <2>5, <2>7, <2>8
<1>5. Series(ever)'
  BY <1>1, <1>2 DEF Series
<1>6. QED
  BY <1>1, <1>2, <1>3, <1>4, <1>5 DEF RulesInv

LEMMA TickKeeps == ASSUME RulesInv, K!Tick PROVE RulesInv'
<1>1. PICK t \in Moments : now < t /\ now' = t /\ UNCHANGED <<policy, stored, ever>>
  BY DEF K!Tick
<1>2. now \in Moments /\ policy \in Policies \cup Bounds /\ stored \subseteq ever /\ Series(ever)
  BY DEF RulesInv
<1>3. now \in Nat /\ t \in Nat /\ \A r \in ever : r.at \in Nat
  BY <1>2, KeepTypes DEF K!KeepAssumption, Series, K!Result
<1>4. Series(ever)'
  BY <1>1, <1>2, <1>3 DEF Series
<1>5. K!PeriodsKeepTheirBest'
  BY <1>1 DEF RulesInv, K!PeriodsKeepTheirBest
<1>6. QED
  BY <1>1, <1>2, <1>4, <1>5 DEF RulesInv

LEMMA RulesStart == K!Init => RulesInv
<1> SUFFICES ASSUME K!Init PROVE RulesInv
  OBVIOUS
<1>1. now = 0 /\ 0 \in Moments /\ policy \in Policies \cup Bounds /\ stored = {} /\ ever = {}
  BY KeepTypes DEF K!Init, K!KeepAssumption
<1>2. Series(ever)
  BY <1>1, FS_EmptySet DEF Series
<1>3. K!PeriodsKeepTheirBest
  BY <1>1 DEF K!PeriodsKeepTheirBest
<1>4. QED
  BY <1>1, <1>2, <1>3 DEF RulesInv

LEMMA RulesStep == ASSUME RulesInv, [K!Next]_K!vars PROVE RulesInv'
<1>1. CASE UNCHANGED K!vars
  <2>1. UNCHANGED <<now, policy, stored, ever>>
    BY <1>1 DEF K!vars
  <2>2. Series(ever)' /\ K!PeriodsKeepTheirBest'
    BY <2>1 DEF RulesInv, Series, K!PeriodsKeepTheirBest
  <2>3. QED
    BY <2>1, <2>2 DEF RulesInv
<1>2. QED
  BY <1>1, TickKeeps, StoreKeeps, PruneKeeps DEF K!Next

LEMMA RulesHold == RulesInv => K!TypeOK /\ K!PeriodsKeepTheirBest /\ K!RulesOnlyAdd
BY RulesAdd DEF RulesInv, Series, K!TypeOK

-----------------------------------------------------------------------------
(* The five machines together: a behaviour is of one of them.                *)

StorageInv == /\ part = "images" => ImagesInv
              /\ part = "forms" => FormsInv
              /\ part = "rebuild" => RebuildInv
              /\ part = "upgrade" => SchemaInv
              /\ part = "rules" => RulesInv

LEMMA StorageStart == Init => StorageInv
BY ImagesStart, FormsStart, RebuildStarts, SchemaStarts, RulesStart, StorageAssumption DEF Init,
   StorageInv

\* A step is of the machine of its behaviour, which takes it or stutters.
LEMMA StorageStep ==
    ASSUME [Next]_vars
    PROVE  /\ part' = part
           /\ part = "images" => [B!Next]_B!vars
           /\ part = "forms" => [F!Next]_F!vars
           /\ part = "rebuild" => [R!Next]_R!vars
           /\ part = "upgrade" => [M!Next]_M!vars
           /\ part = "rules" => [K!Next]_K!vars
<1>1. CASE Next
  BY <1>1 DEF Next
<1>2. CASE UNCHANGED vars
  BY <1>2 DEF vars, imageVars, formVars, indexVars, schemaVars, ruleVars, B!vars, F!vars, R!vars,
              M!vars, K!vars
<1>3. QED
  BY <1>1, <1>2

LEMMA StorageKeeps == ASSUME StorageInv, [Next]_vars PROVE StorageInv'
<1>1. part' = part
  BY StorageStep
<1>2. (part = "images" => ImagesInv)'
  BY <1>1, StorageStep, ImagesStep DEF StorageInv
<1>3. (part = "forms" => FormsInv)'
  BY <1>1, StorageStep, FormsStep DEF StorageInv
<1>4. (part = "rebuild" => RebuildInv)'
  BY <1>1, StorageStep, RebuildStep DEF StorageInv
<1>5. (part = "upgrade" => SchemaInv)'
  BY <1>1, StorageStep, StepKeeps, StorageAssumption DEF StorageInv
<1>6. (part = "rules" => RulesInv)'
  BY <1>1, StorageStep, RulesStep DEF StorageInv
<1>7. QED
  BY <1>2, <1>3, <1>4, <1>5, <1>6 DEF StorageInv

LEMMA StorageHolds == Spec => []StorageInv
BY StorageStart, StorageKeeps, PTL DEF Spec

\* The image in service is never removed under the browsers to come, and the newest
\* inventory names it, however refreshes, prune commands, scans and the ends of processes
\* interleave (refresh.go, browserimages.go).
THEOREM ServiceIsSpared == Spec => []ImagesAreTrue
<1>1. StorageInv => ImagesAreTrue
  BY ImagesHold DEF StorageInv, ImagesAreTrue
<1>2. QED
  BY <1>1, StorageHolds, PTL

\* The last good form of an artifact a result names is never destroyed, by any number of
\* scans, readers, prunes and compactions that fail or are stopped at any request, unless
\* two compactions overlapped, or one and a removal (putMeasured, replaceWithCompressed).
THEOREM EvidenceIsKept == Spec => EvidenceSurvives
<1>1. StorageInv /\ [Next]_vars => [part = "forms" => F!TypeOK' /\ F!KeepsEvidence]_vars
  <2> SUFFICES ASSUME StorageInv, [Next]_vars, part = "forms", vars' # vars PROVE F!TypeOK' /\ F!KeepsEvidence
    OBVIOUS
  <2>1. FormsInv /\ [F!Next]_F!vars
    BY StorageStep DEF StorageInv
  <2>2. FormsInv'
    BY <2>1, FormsStep
  <2>3. F!TypeOK'
    BY <2>2, FormsTypes, PTL
  <2>4. F!KeepsEvidence
    BY <2>1, FormsStep
  <2>5. QED
    BY <2>3, <2>4
<1>2. QED
  BY <1>1, StorageHolds, PTL DEF Spec, EvidenceSurvives

\* A rebuild does not put back what retention deleted, nothing is swept while the index is
\* half built, and a run that ends has settled or reported every scan nothing else touched,
\* for any number of scans that are stored, expire and are collected beside it.
THEOREM RebuildsAreSafe == Spec => RebuildIsSafe
<1>1. StorageInv /\ [Next]_vars =>
        [part = "rebuild" => R!TypeOK' /\ R!LeavesPruned /\ R!SparesHalfBuilt /\ R!RunIsThorough]_vars
  <2> SUFFICES ASSUME StorageInv, [Next]_vars, part = "rebuild", vars' # vars
               PROVE  R!TypeOK' /\ R!LeavesPruned /\ R!SparesHalfBuilt /\ R!RunIsThorough
    OBVIOUS
  <2>1. RebuildInv /\ [R!Next]_R!vars
    BY StorageStep DEF StorageInv
  <2>2. RebuildInv'
    BY <2>1, RebuildStep
  <2>3. R!TypeOK'
    BY <2>2, RebuildTypes, PTL
  <2>4. R!LeavesPruned /\ R!SparesHalfBuilt /\ R!RunIsThorough
    BY <2>1, PrunedIsLeft, HalfBuiltIsSpared, NothingIsMissed
  <2>5. QED
    BY <2>3, <2>4
<1>2. QED
  BY <1>1, StorageHolds, PTL DEF Spec, RebuildIsSafe

\* No interrupted upgrade loses a document or leaves a store that no build can open, for
\* every order of the steps of any number of processes and every place at which one of
\* them stops or fails (moveDocument, recordMovedDocument, migrate, alreadyApplied).
THEOREM UpgradesKeep == Spec => UpgradesAreSafe
<1>1. StorageInv /\ [Next]_vars =>
        [part = "upgrade" => M!TypeOK' /\ M!KeepsDocuments /\ M!StoreStaysOpenable]_vars
  <2> SUFFICES ASSUME StorageInv, [Next]_vars, part = "upgrade", vars' # vars
               PROVE  M!TypeOK' /\ M!KeepsDocuments /\ M!StoreStaysOpenable
    OBVIOUS
  <2>1. SchemaInv /\ [M!Next]_M!vars /\ M!SchemaAssumption
    BY StorageStep, StorageAssumption DEF StorageInv
  <2>2. SchemaInv' /\ M!KeepsDocuments
    BY <2>1, StepKeeps
  <2>3. M!TypeOK'
    BY <2>2, SchemaTypes, PTL
  <2>4. M!StoreStaysOpenable
    BY <2>1, OpensAgain
  <2>5. QED
    BY <2>2, <2>3, <2>4
<1>2. QED
  BY <1>1, StorageHolds, PTL DEF Spec, UpgradesAreSafe

\* However often prunes run, each period a rule reaches is remembered by a result that
\* ended as well as the best it ever held, and a rule added never shrinks what is kept
\* (selectKeep, bucketKeepers, applyKeep).
THEOREM RetentionKeeps == Spec => []RetentionHolds
<1>1. StorageInv => RetentionHolds
  BY RulesHold DEF StorageInv, RetentionHolds
<1>2. QED
  BY <1>1, StorageHolds, PTL
==================================================================================
