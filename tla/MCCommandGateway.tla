-------------------------- MODULE MCCommandGateway --------------------------
(* CommandGateway on small instances. *)
EXTENDS CommandGateway, TLC

CONSTANTS k1, k2, c1, c2, c3, user, other, agent, editor, t1

Asks(id, type, actor, client, t, epoch, target) ==
    [id |-> id, type |-> type, actor |-> actor, client |-> client, camp |-> t,
     epoch |-> epoch, target |-> target]

Publication == Asks(c1, "publish", user, None, t1, FALSE, None)

\* Publications of two users, a private draft and a withdrawal that meet in one receipt, a
\* command of an agent, one that names no Thread, and the deletion of the Thread.
Commands ==
    {Publication,
     [Publication EXCEPT !.actor = other],
     Asks(c1, "other", user, editor, t1, FALSE, None),
     Asks(c2, "withdraw", user, None, t1, FALSE, c1),
     Asks(c2, "other", agent, None, t1, TRUE, None),
     Asks(c2, "other", agent, None, t1, FALSE, None),
     Asks(c2, "other", user, None, None, FALSE, None),
     Asks(c3, "delete", user, None, t1, FALSE, None)}

Symmetric == Permutations(Caller)
=============================================================================
