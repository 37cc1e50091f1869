---------------------------- MODULE MCSessionMgr ----------------------------
(* Instances of SessionMgr for TLC. *)
EXTENDS SessionMgr, TLC

\* All connections of one user, each verified once, and a shutdown; or one
\* connection that verifies three times, as any user, among messages from
\* the back end.
RegistryPlays ==
    {[who |-> Sessions, as |-> {u}, verifies |-> 1, events |-> {"reject", "shutdown"}] : u \in Uids}
    \cup
    {[who |-> {s}, as |-> Uids, verifies |-> 3,
      events |-> {"reject", "reply", "broadcast", "reroute"}] :
        s \in Sessions}

\* All connections of one user, each verified once, and replies; or one of
\* them that verifies four times, as any user, which is enough for it to entangle
\* the gate alone: one registration that fills out, one whose answer does not fit,
\* one that fills addChan and one that does not fit there.
LivePlays ==
    {[who |-> Sessions, as |-> {CHOOSE u \in Uids : TRUE}, verifies |-> 1, events |-> {"reject", "reply"}],
     [who |-> {CHOOSE s \in Sessions : TRUE}, as |-> Uids, verifies |-> 4, events |-> {"reply"}]}

\* Connections are interchangeable, and so are users.
Symmetric == Permutations(Sessions) \cup Permutations(Uids)
=============================================================================
