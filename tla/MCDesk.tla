--------------------------------- MODULE MCDesk ---------------------------------
(* A small instance of Desk for TLC.                                          *)
EXTENDS Desk

(* Drift: a tag asks for a second stage, which asks for a pixel, each on a    *)
(* domain of its own.  With 19 healthy requests a lost tag degrades a scan    *)
(* and a lost second stage does not.                                          *)
AskedBy == [tag |-> "page", second |-> "tag", pixel |-> "second"]
HostOf == [tag |-> "cmp", second |-> "ads", pixel |-> "stats"]

(* Reload: a certificate that ends within the run and one that outlasts it;   *)
(* files that are sound, that change what only a restart can, and that are    *)
(* not.                                                                       *)
File(sound, targets, fixed, path) == [sound |-> sound, targets |-> targets, fixed |-> fixed, path |-> path]
FewFiles == {File(TRUE, 1, 1, "a"), File(TRUE, 2, 1, "b"), File(TRUE, 3, 2, "b"), File(FALSE, 3, 1, "a")}
Lifetimes(old, new) == [c \in {"old", "new"} |-> IF c = "old" THEN old ELSE new]
Ends == Lifetimes(2, 3)
Late == Lifetimes(1, 3)

(* Shares: one link to one of two scans that share an artifact, and a key     *)
(* replaced.                                                                  *)
OneSeries == [s \in {"s1", "s2"} |-> {"s1", "s2"}]
Evidence == [s1 |-> {"a"}, s2 |-> {"a", "b"}]

(* Settings: files of up to four; some retries outlast some intervals, and    *)
(* some windows hold one scan only.                                           *)
Hashed == [2..4 -> {1, 5}]

(* AssetKeys: addresses that differ in what some configuration drops,         *)
(* collapses or keeps apart, and bodies that declare a version or do not.     *)
Q(name, value) == [name |-> name, value |-> value]
Queries == {<<>>, <<Q("id", 1)>>, <<Q("id", 2), Q("ts", 1)>>, <<Q("ts", 1), Q("id", 2)>>, <<Q("TS", 2), Q("id", 2)>>}
Url(sort, port, path, query, payload) ==
  [kind |-> sort, scheme |-> "https", port |-> port, user |-> FALSE, path |-> path, query |-> query, payload |-> payload]
FewUrls == {Url("web", "", path, query, "") : path \in {"/a", "/tag"}, query \in Queries}
  \cup {Url("web", "443", "/a/", <<>>, ""), Url("blob", "", "origin", <<>>, "n1"), Url("blob", "", "origin", <<>>, "n2"),
        Url("data", "", "text", <<>>, "p"), Url("data", "", "image", <<>>, "p"),
        Url("javascript", "", "", <<>>, "n1"), Url("javascript", "", "", <<>>, "n2")}
Body(version, bytes) == [version |-> version, build |-> version, bytes |-> bytes]
FewBodies == {Body("v1", "d1"), [Body("v1", "d2") EXCEPT !.build = "b1"], Body("v2", "d3"), Body(NoName, "d4")}
Plain == [dropAll |-> FALSE, drop |-> {}, keep |-> {}, shipped |-> FALSE, query |-> <<>>, collapse |-> <<>>,
          slash |-> FALSE, idents |-> <<>>, volatile |-> {}]
FewConfigs == {Plain, [Plain EXCEPT !.shipped = TRUE],
  [Plain EXCEPT !.shipped = TRUE,
     !.query = <<[paths |-> {"/tag"}, party |-> "third", policy |-> [dropAll |-> TRUE, drop |-> {}, keep |-> {}]]>>,
     !.idents = <<[paths |-> {"/tag"}, reads |-> "version"]>>],
  [Plain EXCEPT !.shipped = TRUE, !.idents = <<[paths |-> {"/tag"}, reads |-> "build"]>>],
  [Plain EXCEPT !.slash = TRUE, !.collapse = <<[p \in {"/tag"} |-> "/{hash}"]>>, !.volatile = {"/a"}]}
================================================================================
