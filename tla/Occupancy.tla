----------------------------- MODULE Occupancy -----------------------------
(***************************************************************************)
(* What the session table promises to everything that reads it: a machine   *)
(* is free, or occupied by one session that belongs to nobody yet or to one *)
(* user, and only these steps change that.  UsageSession implements it.     *)
(***************************************************************************)
CONSTANTS Machine, User, NoUser, Free

VARIABLES
    holder,   \* Free, NoUser (occupied, not registered) or a user
    deleted   \* machines that are gone

Start(m) ==
    /\ m \notin deleted
    /\ holder[m] = Free
    /\ holder' = [holder EXCEPT ![m] = NoUser]
    /\ UNCHANGED deleted

Finish(m) ==
    /\ m \notin deleted
    /\ holder[m] # Free
    /\ holder' = [holder EXCEPT ![m] = Free]
    /\ UNCHANGED deleted

\* A registration or an unlink that found the session before its machine was
\* deleted may take effect after that.
Register(m, u) ==
    /\ holder[m] = NoUser
    /\ holder' = [holder EXCEPT ![m] = u]
    /\ UNCHANGED deleted

Unlink(m, u) ==
    /\ holder[m] = u
    /\ holder' = [holder EXCEPT ![m] = NoUser]
    /\ UNCHANGED deleted

\* Another user confirms that the holder's laundry is done.
Takeover(m, u) ==
    /\ m \notin deleted
    /\ holder[m] \in User \ {u}
    /\ holder' = [holder EXCEPT ![m] = u]
    /\ UNCHANGED deleted

Delete(m) ==
    /\ m \notin deleted
    /\ deleted' = deleted \cup {m}
    /\ UNCHANGED holder

Init ==
    /\ holder = [m \in Machine |-> Free]
    /\ deleted = {}

Next ==
    \E m \in Machine :
        \/ Start(m) \/ Finish(m) \/ Delete(m)
        \/ \E u \in User : Register(m, u) \/ Unlink(m, u) \/ Takeover(m, u)

Spec == Init /\ [][Next]_<<holder, deleted>>
=============================================================================
