----------------------------- MODULE ArtifactForms -----------------------------
(***************************************************************************)
(* The two spellings of one artifact (internal/store: bucket.go,           *)
(* bucketcompress.go, compact.go).  A reference names the evidence; the    *)
(* bucket holds it plain, packed, or both.  Scans store it, readers fetch  *)
(* it, prunes remove it and wsaw compact turns the one form into the       *)
(* other, each by several requests to a bucket that no lock covers.  Any   *)
(* request may fail, with or without its effect, and any of them may be    *)
(* stopped between two requests.                                           *)
(***************************************************************************)
EXTENDS Naturals, FiniteSets

CONSTANTS Clients, Compactors

Forms == {"plain", "packed"}
Other(f) == CHOOSE g \in Forms : g # f

VARIABLES
    held,       \* [Forms -> {"good", "bad", "absent"}]: the bucket
    worth,      \* the artifact shrinks when it is packed
    wanted,     \* a stored result names it
    client,     \* [Clients -> [op, at, form, compress, answer]]
    compactor,  \* [Compactors -> place]
    overlapped  \* history: two compactions, or one and a removal, had it in hand at once

vars == <<held, worth, wanted, client, compactor, overlapped>>

Ops == {"get", "put", "remove", "redirect"}
ClientAt == {"rest", "first", "second", "act", "write"}
CompactorAt == {"rest", "read", "write", "verify", "unlink", "undo"}

TypeOK ==
    /\ held \in [Forms -> {"good", "bad", "absent"}]
    /\ worth \in BOOLEAN /\ wanted \in BOOLEAN /\ overlapped \in BOOLEAN
    /\ client \in [Clients -> [op : Ops, at : ClientAt, form : Forms, compress : BOOLEAN,
                               answer : {"none", "found", "absent"}]]
    /\ \A c \in Clients : client[c].at = "write" => client[c].op = "put"
    /\ \A c \in Clients : client[c].op \in {"put", "remove"} => client[c].answer = "none"
    /\ compactor \in [Compactors -> CompactorAt]

Evidence == \E f \in Forms : held[f] = "good"
Held(f) == held[f] # "absent"

Idle == [op |-> "get", at |-> "rest", form |-> "plain", compress |-> FALSE, answer |-> "none"]
Init ==
    /\ held \in [Forms -> {"good", "bad", "absent"}] /\ worth \in BOOLEAN
    /\ wanted \in {Evidence, FALSE} /\ overlapped = FALSE
    /\ client = [c \in Clients |-> Idle] /\ compactor = [p \in Compactors |-> "rest"]

-----------------------------------------------------------------------------
(* A request of the bucket: what it leaves behind, an error included.        *)

Deletes(f) == {held, [held EXCEPT ![f] = "absent"]}
\* IfNotExist: the loser of a race, or a write over what is there, changes nothing.
Writes(f) == {held, IF Held(f) THEN held ELSE [held EXCEPT ![f] = "good"]}

Moves(c, place) == client' = [client EXCEPT ![c].at = place]
Answers(c, what) == client' = [client EXCEPT ![c].at = "rest", ![c].answer = what]
Rests(c) == Answers(c, "none")

-----------------------------------------------------------------------------
(* Storing, reading and removing by reference                                *)

\* A deployment that packs guesses, by the kind of the artifact, that this is packed.
StoredFirst(compress) == IF compress THEN Forms ELSE {"plain"}

\* Claims and their grace keep a removal away from a put, and from what is wanted.
Excluded(op) ==
    CASE op = "remove" -> wanted \/ \E d \in Clients : client[d].at # "rest" /\ client[d].op = "put"
      [] op = "put" -> \E d \in Clients : client[d].at # "rest" /\ client[d].op = "remove"
      [] OTHER -> ~wanted

Begin(c) == \E op \in Ops, compress \in BOOLEAN : \E f \in StoredFirst(compress) :
    /\ client[c].at = "rest" /\ ~Excluded(op)
    /\ client' = [client EXCEPT ![c] = [op |-> op, at |-> "first", form |-> f,
                                        compress |-> compress, answer |-> "none"]]
    /\ overlapped' = (overlapped \/ (op = "remove" /\ \E p \in Compactors : compactor[p] # "rest"))
    /\ UNCHANGED <<held, worth, wanted, compactor>>

\* storedKey: two requests; what the first did not find may be there at the second.
ProbeFirst(c) ==
    /\ client[c].at = "first"
    /\ client' = [client EXCEPT ![c].at = IF Held(client[c].form) THEN "act" ELSE "second",
                                ![c].form = IF Held(@) THEN @ ELSE Other(@)]
    /\ UNCHANGED <<held, worth, wanted, compactor, overlapped>>

ProbeSecond(c) ==
    /\ client[c].at = "second"
    /\ CASE Held(client[c].form) -> Moves(c, "act")
         [] client[c].op = "put" -> Moves(c, "write")
         [] client[c].op = "remove" -> Rests(c)
         [] OTHER -> Answers(c, "absent")
    /\ UNCHANGED <<held, worth, wanted, compactor, overlapped>>

\* What is found may be damaged, which its reader reports as that and not as absent.
Get(c) ==
    /\ client[c].at = "act" /\ client[c].op = "get"
    /\ Answers(c, IF Held(client[c].form) THEN "found" ELSE "absent")
    /\ UNCHANGED <<held, worth, wanted, compactor, overlapped>>

\* redirectToBucket, after StatArtifact found the artifact: the URL names the plain form.
Signed == "plain"
Redirect(c) ==
    /\ client[c].at = "act" /\ client[c].op = "redirect"
    /\ Answers(c, IF Held(Signed) THEN "found" ELSE "absent")
    /\ UNCHANGED <<held, worth, wanted, compactor, overlapped>>

\* putMeasured: either spelling counts as stored, and nothing is written.
PutFound(c) ==
    /\ client[c].at = "act" /\ client[c].op = "put"
    /\ wanted' = TRUE /\ Rests(c)
    /\ UNCHANGED <<held, worth, compactor, overlapped>>

Pack(c) == IF client[c].compress /\ worth THEN "packed" ELSE "plain"
PutNew(c) ==
    /\ client[c].at = "write" /\ Rests(c)
    /\ held' \in Writes(Pack(c))
    /\ wanted' \in {wanted, wanted \/ held'[Pack(c)] # "absent"}
    /\ UNCHANGED <<worth, compactor, overlapped>>

\* remove: the one spelling storedKey found.
Remove(c) ==
    /\ client[c].at = "act" /\ client[c].op = "remove" /\ Rests(c)
    /\ held' \in Deletes(client[c].form)
    /\ UNCHANGED <<worth, wanted, compactor, overlapped>>

\* A failed request, a deadline or the end of the process.
GiveUp(c) ==
    /\ client[c].at # "rest" /\ Rests(c)
    /\ UNCHANGED <<held, worth, wanted, compactor, overlapped>>

\* The result that named the artifact expires.
Expire ==
    /\ wanted /\ wanted' = FALSE
    /\ \A c \in Clients : client[c].at = "rest"
    /\ UNCHANGED <<held, worth, client, compactor, overlapped>>

-----------------------------------------------------------------------------
(* wsaw compact                                                              *)

Goes(p, place) == compactor' = [compactor EXCEPT ![p] = place]

\* The walk lists a plain object and reads it by its key.
CompactArtifacts(p) ==
    /\ compactor[p] = "rest" /\ Held("plain")
    /\ Goes(p, "read")
    /\ overlapped' = \/ overlapped
                     \/ \E q \in Compactors : compactor[q] # "rest"
                     \/ \E c \in Clients : client[c].at # "rest" /\ client[c].op = "remove"
    /\ UNCHANGED <<held, worth, wanted, client>>

\* What is not what its key says, or does not shrink, is left as it is.
CompactOne(p) ==
    /\ compactor[p] = "read"
    /\ Goes(p, IF held["plain"] = "good" /\ worth THEN "write" ELSE "rest")
    /\ UNCHANGED <<held, worth, wanted, client, overlapped>>

WriteCompressed(p) ==
    /\ compactor[p] = "write" /\ held' \in Writes("packed")
    /\ compactor' \in {[compactor EXCEPT ![p] = place] : place \in
                         IF held'["packed"] = "absent" THEN {"rest"} ELSE {"verify", "rest"}}
    /\ UNCHANGED <<worth, wanted, client, overlapped>>

\* Mutant: what was written is taken for what is there.
TrustWrite(p) ==
    /\ compactor[p] = "verify" /\ Goes(p, "unlink")
    /\ UNCHANGED <<held, worth, wanted, client, overlapped>>

\* replaceWithCompressed reads the object back from the bucket; the read may be refused.
VerifyCompressed(p) ==
    /\ compactor[p] = "verify"
    /\ \/ held["packed"] = "good" /\ Goes(p, "unlink")
       \/ Goes(p, "undo")
    /\ UNCHANGED <<held, worth, wanted, client, overlapped>>

RemoveRaw(p) ==
    /\ compactor[p] = "unlink" /\ held' \in Deletes("plain")
    /\ Goes(p, "rest")
    /\ UNCHANGED <<worth, wanted, client, overlapped>>

AbandonCompressed(p) ==
    /\ compactor[p] = "undo" /\ held' \in Deletes("packed")
    /\ Goes(p, "rest")
    /\ UNCHANGED <<worth, wanted, client, overlapped>>

\* A refused read, a cancelled walk or a killed command.
StopCompacting(p) ==
    /\ compactor[p] # "rest" /\ Goes(p, "rest")
    /\ UNCHANGED <<held, worth, wanted, client, overlapped>>

-----------------------------------------------------------------------------
ClientStep(c) == \/ Begin(c) \/ ProbeFirst(c) \/ ProbeSecond(c) \/ Get(c) \/ Redirect(c)
                 \/ PutFound(c) \/ PutNew(c) \/ Remove(c) \/ GiveUp(c)
CompactorStep(p) == \/ CompactArtifacts(p) \/ CompactOne(p) \/ WriteCompressed(p)
                    \/ VerifyCompressed(p) \/ RemoveRaw(p) \/ AbandonCompressed(p)
                    \/ StopCompacting(p)
Next == Expire \/ (\E c \in Clients : ClientStep(c)) \/ \E p \in Compactors : CompactorStep(p)
Spec == Init /\ [][Next]_vars

-----------------------------------------------------------------------------
(* The last good form of an artifact a result names is never destroyed: not  *)
(* by a compaction that fails or is stopped at any request, finds a damaged  *)
(* object where it wrote, or runs beside scans that store and read the same  *)
(* evidence.  Two compactions at once, or one beside a removal, may.         *)
KeepsEvidence == wanted /\ Evidence /\ ~Evidence' => overlapped
EvidenceSurvives == [][KeepsEvidence]_vars
================================================================================
