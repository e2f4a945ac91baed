------------------------ MODULE MCCompletionQueries ------------------------
EXTENDS CompletionQueries
=============================================================================
