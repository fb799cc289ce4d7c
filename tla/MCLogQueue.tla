---------------------------- MODULE MCLogQueue ----------------------------
(* LogQueue with the threads of the logger: submitters push, the worker    *)
(* pops, and a submitter of a fatal record or a caller of Flush does both. *)
EXTENDS LogQueue

CONSTANTS p1, p2, c1, r1, r2, none

MCPushers == {p1, p2}
MCPoppers == {p2, c1}
MCRecords == {r1, r2}

=============================================================================
