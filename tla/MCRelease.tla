------------------------------ MODULE MCRelease ------------------------------
(* Two versions, one of them published again under another URL.            *)
EXTENDS Release

CONSTANTS v1, v2, u1, u2, u3

Published == {[version |-> v1, url |-> u1], [version |-> v2, url |-> u2],
              [version |-> v2, url |-> u3]}
=============================================================================
