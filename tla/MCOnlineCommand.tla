--------------------------- MODULE MCOnlineCommand ---------------------------
(***************************************************************************)
(* Instances of OnlineCommand for TLC.  One command that sends is enough:  *)
(* it writes its own staging file and its own ledger rows, and what others *)
(* do to it (the orphan cleanup, auth) are actions of their own.           *)
(***************************************************************************)
EXTENDS OnlineCommand, TLC

\* One status of each branch of map_http_error, a redirect that is not
\* followed, the bound of the statuses that are retried and one past 599.
MCStatuses == {200, 302, 401, 403, 404, 429, 500, 600}

\* No body, two bodies that fit, of different length, and one that does not.
MCSizes == {0, 1, 2, 3}
=============================================================================
