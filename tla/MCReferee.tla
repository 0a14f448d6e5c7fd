------------------------------ MODULE MCReferee ------------------------------
EXTENDS Referee

\* Overlapping webhooks, one of them lost, and webhooks handled one by one while
\* the pull request changes its state.
MCSettings ==
    {[comments |-> {"retest", "test", "unhold"}, states |-> {},
      maxHandlers |-> 2, maxFailures |-> 1],
     [comments |-> {"retest", "embedded", "hold"}, states |-> {},
      maxHandlers |-> 2, maxFailures |-> 0],
     [comments |-> {"retest"}, states |-> {"open", "draft", "closed"},
      maxHandlers |-> 1, maxFailures |-> 0]}
=============================================================================
