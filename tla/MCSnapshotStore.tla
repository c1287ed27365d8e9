--------------------------- MODULE MCSnapshotStore ---------------------------
(***************************************************************************)
(* Small instances of SnapshotStore for TLC.                               *)
(***************************************************************************)
EXTENDS SnapshotStore, TLC

Of(roles) == [p \in Procs |-> IF p \in DOMAIN roles THEN roles[p] ELSE {}]

\* Process 1 maintains the cache, 2 writes, 3 reads.
OneCollector ==
    [roles |-> Of(1 :> {"collect", "recover", "load"} @@ 2 :> {"write"} @@ 3 :> {"read"}),
     conversations |-> {1}, inodes |-> 4, moves |-> 3, crashes |-> 1]

\* Process 1 maintains the cache, 2 owns the conversation.
OneOwner ==
    [roles |-> Of(1 :> {"collect", "recover", "load"} @@ 2 :> {"write", "delete"}),
     conversations |-> {1, 2}, inodes |-> 3, moves |-> 2, crashes |-> 0]

\* The owner of the conversation alone; other processes come after it died.
OneProcess ==
    [roles |-> Of(1 :> {"collect", "recover", "load", "delete", "write", "invalidate"}),
     conversations |-> {1, 2}, inodes |-> 3, moves |-> 2, crashes |-> 1]

OneCollectorTeams == {OneCollector, OneOwner, OneProcess}

\* Two processes maintain the cache, a third writes.
TwoCollectors ==
    {[roles |-> Of(1 :> {"collect"} @@ 2 :> {"collect"} @@ 3 :> {"write"}),
      conversations |-> {1}, inodes |-> 3, moves |-> 3, crashes |-> 0]}
=============================================================================
