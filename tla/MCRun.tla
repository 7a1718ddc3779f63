------------------------------- MODULE MCRun -------------------------------
EXTENDS Run
Own(n) == [name |-> n, own |-> TRUE, includes |-> <<>>]
Includes(fs) == [name |-> "a", own |-> FALSE, includes |-> fs]
Both == [name |-> "a", own |-> TRUE, includes |-> <<"lib">>]
Cases == <<Own("a"), Includes(<<"lib", "sub">>), Own("b")>>
\* No configuration file; includes of a file that includes another; one that
\* is not there; cases of both kinds; a file that includes itself.
MCTrees == {
  [sub |-> <<Own("a")>>],
  [main |-> Cases, lib |-> <<Own("a"), Includes(<<"sub">>)>>, sub |-> <<Own("b")>>],
  [main |-> Cases, sub |-> <<>>],
  [main |-> <<Includes(<<"lib">>)>>, lib |-> <<Both>>],
  [main |-> <<Own("a"), Includes(<<"main">>)>>]}
=============================================================================
