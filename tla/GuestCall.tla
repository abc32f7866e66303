----------------------------- MODULE GuestCall -----------------------------
(***************************************************************************)
(* What the world switch promises host and guest: the CPU is one side's    *)
(* at a time, and while it is, the other side's registers stay as that     *)
(* side left them.  Two things end a promise: once either side has gone    *)
(* over to the fast path, nothing is promised of kgs, the user's GS base;  *)
(* and nothing is promised at all once the host has refused INIT_LATE.     *)
(***************************************************************************)
CONSTANTS Regs,   \* the registers
          Values  \* and what they hold

VARIABLES side,     \* whose the CPU is
          regs,     \* either side's registers
          fast,     \* one of the sides uses the fast path
          refused   \* the host refused INIT_LATE

Sides == {"host", "guest"}
Other(s) == IF s = "host" THEN "guest" ELSE "host"
Promised(f) == IF f THEN Regs \ {"kgs"} ELSE Regs

Init == /\ side = "host"
        /\ regs \in [Sides -> [Regs -> Values]]
        /\ fast = FALSE
        /\ refused = FALSE

Keeps(s) == \A r \in Promised(fast') : regs'[s][r] = regs[s][r]

\* the side that has the CPU computes
Run == side' = side /\ Keeps(Other(side))

\* it gives the CPU to the other side
Switch == side' = Other(side) /\ Keeps("host") /\ Keeps("guest")

Next == /\ refused => refused'
        /\ fast => fast'
        /\ refused' \/ Run \/ Switch

Spec == Init /\ [][Next]_<<side, regs, fast, refused>>
=============================================================================
