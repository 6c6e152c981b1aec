----------------------------- MODULE MCUnitTest -----------------------------
(* Test programs for UnitTest: every sequence of at most MaxLength of the  *)
(* statements below that opens an oracle test before it checks it and      *)
(* starts no new suite in between.                                         *)
EXTENDS UnitTest

CONSTANTS
  MaxLength,   \* the longest test program
  MaxTraps     \* how many aborts and segfaults a run follows: a stray abort
               \* that the handlers catch can be jumped back to for ever

St(k, bs) == {[kind |-> k, behave |-> b] : b \in bs}

MCStatements ==
  St("assert", {"true", "false", "abort", "segv", "hang"})
    \cup St("abort", {"true", "abort", "hang"})
    \cup St("ostart", {"true", "false"}) \cup St("ocheck", {"true", "false"})
    \cup St("code", {"true", "abort", "hang"}) \cup St("suite", {"true"})
    \cup St("return", {"true"})

MCPlainStatements == {s \in MCStatements : s.kind \notin {"ostart", "ocheck"}}

OraclesPaired(s) ==
  \A q \in DOMAIN s : s[q].kind = "ocheck" =>
    \E p \in 1 .. q - 1 : /\ s[p].kind = "ostart"
                          /\ \A r \in p .. q - 1 :
                               s[r].kind \notin {"ocheck", "suite"}

ScriptsOf(statements) ==
  {s \in UNION {[1 .. n -> statements] : n \in 1 .. MaxLength} : OraclesPaired(s)}

MCScripts      == ScriptsOf(MCStatements)
MCPlainScripts == ScriptsOf(MCPlainStatements)

TrapsBounded == total.aborted + total.segfaulted <= MaxTraps
=============================================================================
