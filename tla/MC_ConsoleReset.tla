---------------------------- MODULE MC_ConsoleReset ----------------------------
EXTENDS ConsoleReset

CONSTANTS r1, r2

\* Two callers asking for the console of the same node.
MCRequests == {r1, r2}

=============================================================================
