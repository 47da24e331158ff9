---------------------------- MODULE MCPollServer ----------------------------
(***************************************************************************)
(* PollServer for TLC.  With a header of one unit and buffers of 4 and 3   *)
(* units, a text of length 0 (an empty line) or 1 fits at both ends, one of *)
(* length 2 has an answer that is too long for the client, and one of      *)
(* length 4 is too long for the server.                                    *)
(***************************************************************************)
EXTENDS PollServer

AllLengths == {0, 1, 2, 4}
=============================================================================
