--------------------------- MODULE MCSqliteSession ---------------------------
(* SqliteSession with rows collected while threads use the connection.       *)
(* MCStorage has the instance in which they are collected at rest.            *)
EXTENDS SqliteSession
=============================================================================
