---------------------------- MODULE MCRuleReload ----------------------------
(* Two requests, two rule files, contents 0..4: 0 and 3 are "no file" and   *)
(* 2 does not parse, so that a file may appear, break, recover or vanish.   *)
EXTENDS RuleReload
CONSTANTS r1, r2
MCRequests == {r1, r2}
=============================================================================
