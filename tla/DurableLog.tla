----------------------------- MODULE DurableLog -----------------------------
(***************************************************************************)
(* What the file storage promises, without saying how: memory is a log of  *)
(* updates, the file is always some state that memory has gone through, a  *)
(* restart continues from the file.  With Monotone the file also never     *)
(* goes back to an older state than the one it holds.                      *)
(***************************************************************************)
EXTENDS Naturals, Sequences

CONSTANTS Updates, Monotone

VARIABLES mem, file, alive

logVars == <<mem, file, alive>>

\* s is the state of memory after some of the updates that lead to t.
Prefix(s, t) == Len(s) <= Len(t) /\ \A i \in 1..Len(s) : s[i] = t[i]

LogInit == mem = <<>> /\ file = <<>> /\ alive = TRUE

Update ==
    /\ alive
    /\ \E u \in Updates : mem' = Append(mem, u)
    /\ UNCHANGED <<file, alive>>

Persist ==
    /\ alive
    /\ Prefix(file', mem)
    /\ Monotone => Prefix(file, file')
    /\ UNCHANGED <<mem, alive>>

Halt == alive /\ alive' = FALSE /\ UNCHANGED <<mem, file>>

Recover == ~alive /\ alive' = TRUE /\ mem' = file /\ UNCHANGED file

LogNext == Update \/ Persist \/ Halt \/ Recover

LogSpec == LogInit /\ [][LogNext]_logVars

=============================================================================
