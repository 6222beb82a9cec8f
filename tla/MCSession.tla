------------------------------- MODULE MCSession -------------------------------
(* A small instance of Session for TLC.                                       *)
EXTENDS Session

(* Consent: rules with optional steps, steps that only look for the           *)
(* necessary, and none at all, the second of a list being tried when the      *)
(* first did nothing.                                                         *)
Steps(steps, necessary, verify) == [steps |-> steps, necessary |-> necessary, verify |-> verify, hosted |-> verify]
Lists == {<<>>, <<Steps(<<"may", "must">>, <<>>, TRUE), Steps(<<"must">>, <<>>, FALSE)>>,
          <<Steps(<<"may">>, <<"must">>, TRUE), Steps(<<"may">>, <<>>, FALSE)>>,
          <<Steps(<<>>, <<>>, TRUE), Steps(<<>>, <<"may">>, FALSE)>>}

(* Robots: every file of up to four of these lines; and a site that takes its *)
(* file down or puts it up while two scans ask.                               *)
Line(field, agent, rule) == [field |-> field, agent |-> agent, rule |-> rule]
Pattern(parts, anchored) == [parts |-> parts, anchored |-> anchored]
For(agent) == Line("user-agent", agent, Pattern(<<<<>>>>, FALSE))
Disallow(parts, anchored) == Line("disallow", "", Pattern(parts, anchored))
Allow(parts, anchored) == Line("allow", "", Pattern(parts, anchored))
Lines == {For("wsaw"), For("*"), For("other"), Line("junk", "", Pattern(<<<<>>>>, FALSE)),
          Disallow(<<<<"/">>>>, FALSE), Disallow(<<<<>>>>, FALSE), Disallow(<<<<"/">>, <<"a">>>>, FALSE),
          Disallow(<<<<"/">>, <<"a">>>>, TRUE), Allow(<<<<"/", "b">>>>, TRUE), Allow(<<<<"/">>>>, FALSE),
          Allow(<<<<"/">>, <<"a">>>>, FALSE)}
FewLines == UNION {[1..n -> Lines] : n \in 0..4}
Answer(lines) == [ok |-> TRUE, file |-> lines]
TwoAnswers == {Answer(<<>>), Answer(<<For("*"), Disallow(<<<<"/">>>>, FALSE), Allow(<<<<"/">>, <<"a">>>>, FALSE)>>)}
FewPaths == {<<"/">>, <<"/", "a">>, <<"/", "b">>, <<"/", "a", "a">>, <<"/", "a", "b">>}
================================================================================
