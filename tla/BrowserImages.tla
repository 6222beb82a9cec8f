----------------------------- MODULE BrowserImages -----------------------------
(***************************************************************************)
(* The browser images of a containerised daemon (internal/app: refresh.go, *)
(* browserimages.go; wsaw browser prune; internal/container: refresh.go).  *)
(*                                                                         *)
(* The refresh loop makes a new image, checks it, switches the pool to it, *)
(* prunes the images before it and records an inventory that names the     *)
(* image in service.  A prune command, another process, asks the inventory *)
(* which image that is, and so does a daemon that starts.  The command, the *)
(* loop, the scans and the end of a process interleave at every call of    *)
(* the runtime and of the store.  Image 0 is the one the configuration     *)
(* names; the refresh numbers its own in the order it makes them.          *)
(***************************************************************************)
EXTENDS Naturals, FiniteSets

CONSTANTS
    Scans,
    MaxImages,      \* images the refresh makes in a behaviour
    MaxCount,       \* the largest number of images a keep rule names
    None            \* no image

ImagesAssumption == MaxImages \in Nat /\ MaxCount \in Nat \ {0} /\ None \notin Nat

Configured == 0
Refreshed == 1..MaxImages
Images == {Configured} \cup Refreshed

\* KeepRule: keep the newest so many, or all that a stored scan was rendered with.  A
\* reload changes the daemon's, flags the command's.
Rules == [count : 1..MaxCount, referenced : BOOLEAN]

VARIABLES
    images,     \* what the runtime holds
    made,       \* the newest image made
    daemon,     \* [up, image, idle]: the image in service, that of an idle browser
    refresh,    \* [at, todo]: where the refresh is, what its prune has still to remove
    cli,        \* [at, service, todo, calm, misled]: the prune command, what it takes for in
                \* service, whether no refresh has been under way since it read that, and
                \* history: whether the inventory it read was spoiled
    inventory,  \* the image in service in the newest inventory of the store
    scans,      \* [at, image] of each scan
    spoiled,    \* history: the newest inventory was lost, or names another image
    struck      \* history: images that a misled command removed while they were in service

vars == <<images, made, daemon, refresh, cli, inventory, scans, spoiled, struck>>

MaybeImage == Images \cup {None}
ScanAt == {"new", "running", "ended", "stored"}

TypeOK ==
    /\ images \subseteq 0..made /\ Configured \in images /\ made \in 0..MaxImages
    /\ daemon \in [up : BOOLEAN, image : 0..made, idle : MaybeImage]
    /\ refresh \in [at : {"off", "start", "rest", "make", "check", "plan", "prune", "record"},
                    todo : SUBSET Refreshed]
    /\ cli \in [at : {"off", "plan", "prune", "record"}, service : MaybeImage, todo : SUBSET Refreshed,
                calm : BOOLEAN, misled : BOOLEAN]
    /\ inventory \in MaybeImage /\ spoiled \in BOOLEAN /\ struck \subseteq Refreshed
    /\ scans \in [Scans -> [at : ScanAt, image : MaybeImage]]
    /\ refresh.at = "off" <=> ~daemon.up
    /\ daemon.idle \in {daemon.image, None} /\ (daemon.idle # None => daemon.up)
    /\ \A s \in Scans : scans[s].image = None <=> scans[s].at = "new"

-----------------------------------------------------------------------------
Off == [at |-> "off", todo |-> {}]
NoCommand == [at |-> "off", service |-> None, todo |-> {}, calm |-> FALSE, misled |-> FALSE]

Init ==
    /\ images = {Configured} /\ made = 0
    /\ daemon = [up |-> FALSE, image |-> Configured, idle |-> None]
    /\ refresh = Off /\ cli = NoCommand
    /\ inventory = None /\ spoiled = FALSE /\ struck = {}
    /\ scans = [s \in Scans |-> [at |-> "new", image |-> None]]

\* The runtime refuses to remove an image a container uses.
InUse == {scans[s].image : s \in {s \in Scans : scans[s].at = "running"}} \cup {daemon.idle}

References == {scans[s].image : s \in {s \in Scans : scans[s].at = "stored"}}

\* How many of the images newer than i the count rule has kept when it comes to i.
NewerThan(i) == {j \in images \cap Refreshed : j > i}
Newest(i) == i \in images /\ NewerThan(i) = {}

\* A mutant: the image in service is judged like any other.
PrunableByAge(service, rule) ==
    {i \in images \cap Refreshed :
        ~Newest(i) /\ IF rule.referenced THEN i \notin References
                      ELSE Cardinality(NewerThan(i)) >= rule.count}

\* planImages, imageState: the newest refresh images are kept up to the count, the image
\* in service counted when it is among them, or those stored scans name; the newest always.
Prunable(service, rule) ==
    {i \in images \cap Refreshed :
        /\ i # service /\ ~Newest(i)
        /\ IF rule.referenced THEN i \notin References
           ELSE Cardinality(NewerThan(i)) >= rule.count}

Remove(i) == images' = IF i \in InUse THEN images ELSE images \ {i}
Newer(S) == CHOOSE i \in S : \A j \in S : j <= i

-----------------------------------------------------------------------------
\* Record: the inventory names service; it is recorded empty when the images could not be
\* listed, and not at all when the store refuses it.
Record(service) ==
    \/ inventory' = service /\ spoiled' = FALSE
    \/ inventory' \in {None, inventory} /\ spoiled' = TRUE

\* resumeImage: what a refresh left in service, if it is still there.
Resume == IF inventory \in Refreshed \cap images THEN inventory ELSE Configured

Start ==
    /\ ~daemon.up
    /\ daemon' = [up |-> TRUE, image |-> Resume, idle |-> None]
    /\ refresh' = [at |-> "start", todo |-> {}]
    /\ UNCHANGED <<images, made, cli, inventory, scans, spoiled, struck>>

\* RefreshLoop: the inventory at the start.
RecordStart ==
    /\ refresh.at = "start"
    /\ Record(daemon.image)
    /\ refresh' = [refresh EXCEPT !.at = "rest"]
    /\ UNCHANGED <<images, made, daemon, cli, scans, struck>>

\* The refresh falls due, an interval after the last one and a delay after the start: no
\* prune command, which gives up after five minutes, is under way that long.
Due ==
    /\ refresh.at = "rest" /\ made < MaxImages
    /\ cli.at # "off" => cli.calm
    /\ refresh' = [refresh EXCEPT !.at = "make"]
    /\ cli' = [cli EXCEPT !.calm = FALSE]
    /\ UNCHANGED <<images, made, daemon, inventory, scans, spoiled, struck>>

\* make: a build or a pull under a new tag.
Make ==
    /\ refresh.at = "make"
    /\ made' = made + 1 /\ images' = images \cup {made + 1}
    /\ refresh' = [refresh EXCEPT !.at = "check"]
    /\ UNCHANGED <<daemon, cli, inventory, scans, spoiled, struck>>

\* It fails, finds nothing to do, or is cancelled: that records nothing.
MakeFails ==
    /\ refresh.at = "make"
    /\ \E next \in {"record", "rest"} : refresh' = [refresh EXCEPT !.at = next]
    /\ UNCHANGED <<images, made, daemon, cli, inventory, scans, spoiled, struck>>

\* check failed, or it is the browser in service: discard, which may fail too.
Discard ==
    /\ refresh.at = "check"
    /\ images' \in {images, images \ {made}}
    /\ \E next \in {"record", "rest"} : refresh' = [refresh EXCEPT !.at = next]
    /\ UNCHANGED <<made, daemon, cli, inventory, scans, spoiled, struck>>

\* switchBrowser: idle browsers of the image before are closed.
Switch ==
    /\ refresh.at = "check"
    /\ daemon' = [daemon EXCEPT !.image = made, !.idle = None]
    /\ refresh' = [refresh EXCEPT !.at = "plan"]
    /\ UNCHANGED <<images, made, cli, inventory, scans, spoiled, struck>>

\* Plan; without a listing, or the references it needs, nothing is pruned.
Plan ==
    /\ refresh.at = "plan"
    /\ \/ \E rule \in Rules : refresh' = [at |-> "prune", todo |-> Prunable(daemon.image, rule)]
       \/ refresh' = [refresh EXCEPT !.at = "record"]
    /\ UNCHANGED <<images, made, daemon, cli, inventory, scans, spoiled, struck>>

\* Prune: newest first; one that is refused is left.
PruneOne ==
    /\ refresh.at = "prune" /\ refresh.todo # {}
    /\ Remove(Newer(refresh.todo))
    /\ refresh' = [refresh EXCEPT !.todo = @ \ {Newer(refresh.todo)}]
    /\ UNCHANGED <<made, daemon, cli, inventory, scans, spoiled, struck>>

PruneEnds ==
    /\ refresh.at = "prune" /\ refresh.todo = {}
    /\ refresh' = [refresh EXCEPT !.at = "record"]
    /\ UNCHANGED <<images, made, daemon, cli, inventory, scans, spoiled, struck>>

RecordRefresh ==
    /\ refresh.at = "record"
    /\ Record(daemon.image)
    /\ refresh' = [refresh EXCEPT !.at = "rest"]
    /\ UNCHANGED <<images, made, daemon, cli, scans, struck>>

-----------------------------------------------------------------------------
\* wsaw browser prune: the image in service is read first.
CommandReads ==
    /\ cli.at = "off"
    /\ cli' = [at |-> "plan", service |-> inventory, todo |-> {}, calm |-> refresh.at = "rest",
              misled |-> spoiled]
    /\ UNCHANGED <<images, made, daemon, refresh, inventory, scans, spoiled, struck>>

CommandPlans ==
    /\ cli.at = "plan"
    /\ \E rule \in Rules : cli' = [cli EXCEPT !.at = "prune", !.todo = Prunable(cli.service, rule)]
    /\ UNCHANGED <<images, made, daemon, refresh, inventory, scans, spoiled, struck>>

CommandPrunes ==
    /\ cli.at = "prune" /\ cli.todo # {}
    /\ Remove(Newer(cli.todo))
    /\ struck' = IF cli.misled THEN struck \cup ({daemon.image} \cap (images \ images')) ELSE struck
    /\ cli' = [cli EXCEPT !.todo = @ \ {Newer(cli.todo)}]
    /\ UNCHANGED <<made, daemon, refresh, inventory, scans, spoiled>>

\* It records the image it took for in service, or the store refuses the record.
CommandRecords ==
    /\ cli.at = "prune" /\ cli.todo = {}
    /\ \/ inventory' = cli.service /\ spoiled' = (cli.service # daemon.image)
       \/ UNCHANGED <<inventory, spoiled>>
    /\ cli' = NoCommand
    /\ UNCHANGED <<images, made, daemon, refresh, scans, struck>>

\* A dry run, a failed plan, a timeout, a killed command.
CommandEnds ==
    /\ cli.at # "off" /\ cli' = NoCommand
    /\ UNCHANGED <<images, made, daemon, refresh, inventory, scans, spoiled, struck>>

-----------------------------------------------------------------------------
\* A scan runs in an idle browser, or in one launched from the image in service.
StartScan(s) ==
    /\ daemon.up /\ scans[s].at = "new"
    /\ daemon.idle # None \/ daemon.image \in images
    /\ scans' = [scans EXCEPT ![s] = [at |-> "running", image |-> daemon.image]]
    /\ daemon' = [daemon EXCEPT !.idle = None]
    /\ UNCHANGED <<images, made, refresh, cli, inventory, spoiled, struck>>

\* Its browser is kept if it is of the image in service.
EndScan(s) ==
    /\ scans[s].at = "running"
    /\ scans' = [scans EXCEPT ![s].at = "ended"]
    /\ daemon' = [daemon EXCEPT !.idle = IF scans[s].image = daemon.image THEN daemon.image ELSE @]
    /\ UNCHANGED <<images, made, refresh, cli, inventory, spoiled, struck>>

StoreScan(s) ==
    /\ daemon.up /\ scans[s].at = "ended"
    /\ scans' = [scans EXCEPT ![s].at = "stored"]
    /\ UNCHANGED <<images, made, daemon, refresh, cli, inventory, spoiled, struck>>

\* Retention forgets a stored scan; a scan that is over makes room for another.
Forget(s) ==
    /\ scans[s].at \in {"ended", "stored"}
    /\ scans' = [scans EXCEPT ![s] = [at |-> "new", image |-> None]]
    /\ UNCHANGED <<images, made, daemon, refresh, cli, inventory, spoiled, struck>>

\* The end of the process, at any point; its containers are reaped with it.
End ==
    /\ daemon.up
    /\ daemon' = [daemon EXCEPT !.up = FALSE, !.idle = None]
    /\ refresh' = Off
    /\ scans' = [s \in Scans |-> IF scans[s].at \in {"running", "ended"}
                                 THEN [at |-> "new", image |-> None] ELSE scans[s]]
    /\ UNCHANGED <<images, made, cli, inventory, spoiled, struck>>

Next ==
    \/ Start \/ RecordStart \/ Due \/ Make \/ MakeFails \/ Discard \/ Switch
    \/ Plan \/ PruneOne \/ PruneEnds \/ RecordRefresh \/ End
    \/ CommandReads \/ CommandPlans \/ CommandPrunes \/ CommandRecords \/ CommandEnds
    \/ \E s \in Scans : StartScan(s) \/ EndScan(s) \/ StoreScan(s) \/ Forget(s)

Spec == Init /\ [][Next]_vars

-----------------------------------------------------------------------------
(* New browsers find the image in service, whatever the refresh, scans, the  *)
(* end of processes and a prune command interleave to, unless that command   *)
(* found the newest inventory spoiled.  Then it removes the image in service *)
(* like any other, though browserimages.go:22 says "it never removes the     *)
(* image in service" and :326 that a prune command "must not remove it".     *)
ServiceImageExists == daemon.image \in images \cup struck

(* When no refresh is under way, the inventory names the image in service,   *)
(* also after a refresh that failed or a process that ended half way, unless *)
(* it is spoiled: the store refused the newest one, the images could not be  *)
(* listed for it, or a prune command that began before a switch recorded the *)
(* image that was in service then (browser_prune.go:153).                    *)
InventoryIsTrue == refresh.at = "rest" /\ ~spoiled => inventory = daemon.image
==============================================================================
