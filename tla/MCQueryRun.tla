----------------------------- MODULE MCQueryRun -----------------------------
\* QueryRun for TLC: the right answer of two batches, the same rows in another
\* order, and answers that are too short, too long, and wrong from their first
\* batch with more to come than a pipe holds; a monitor that was
\* started with two more descriptors, or none.
EXTENDS QueryRun

MCFiles     == Ends \cup {Other}
MCInherited == {{}, {3, 6}}

MCExpected == <<"a", "b">>
MCAnswers  == 
  {MCExpected, <<"b", "a">>, <<"a">>, <<"a", "b", "b">>, <<"c", "b", "a", "b">>}
=============================================================================
