----------------------------- MODULE SignalMask -----------------------------
(***************************************************************************)
(* operating-systems/process/ipc_sign.cpp: installs a handler for SIGINT,  *)
(* blocks the signal, sleeps, unblocks it and sleeps again. A user presses *)
(* Ctrl+C at any time.                                                     *)
(***************************************************************************)
EXTENDS Integers

CONSTANT MaxRaised   \* bound: how often SIGINT is raised

VARIABLES phase,    \* the call main does next, or is in
          masked, pending, raised,
          handled,  \* calls of sigint_handler
          lost      \* raised while one was pending

vars == <<phase, masked, pending, raised, handled, lost>>

Init == /\ phase = "sigaction"
        /\ masked = FALSE /\ pending = FALSE
        /\ raised = 0 /\ handled = 0 /\ lost = 0

\* Before sigaction SIGINT ends the process, a blocked one waits, together with
\* those that follow, and one that arrives in the second sleep ends it.
Raise == /\ phase \notin {"end", "killed"} /\ raised < MaxRaised
         /\ raised' = raised + 1
         /\ pending' = masked
         /\ lost' = IF masked /\ pending THEN lost + 1 ELSE lost
         /\ handled' = IF masked \/ phase = "sigaction" THEN handled ELSE handled + 1
         /\ phase' \in CASE phase = "sigaction" -> {"killed"}
                         [] phase = "second sleep" -> {phase, "end"}
                         [] OTHER -> {phase}
         /\ UNCHANGED masked

Advance(from, to) == phase = from /\ phase' = to

Install == /\ Advance("sigaction", "block")
           /\ UNCHANGED <<masked, pending, raised, handled, lost>>

Block == /\ Advance("block", "first sleep")
         /\ masked' = TRUE
         /\ UNCHANGED <<pending, raised, handled, lost>>

FirstSleep == /\ Advance("first sleep", "unblock")
              /\ UNCHANGED <<masked, pending, raised, handled, lost>>

\* The set of blocked signals that sigprocmask has stored: without SIGINT.
OldSet == FALSE

\* A pending signal is handled before sigprocmask returns.
Unblock == /\ Advance("unblock", "second sleep")
           /\ masked' = OldSet
           /\ pending' = (pending /\ OldSet)
           /\ handled' = IF pending /\ ~OldSet THEN handled + 1 ELSE handled
           /\ UNCHANGED <<raised, lost>>

SecondSleep == /\ Advance("second sleep", "end")
               /\ UNCHANGED <<masked, pending, raised, handled, lost>>

Main == Install \/ Block \/ FirstSleep \/ Unblock \/ SecondSleep

Next == Main \/ Raise

-----------------------------------------------------------------------------
TypeOK == /\ phase \in {"sigaction", "block", "first sleep", "unblock", "second sleep", "end", "killed"}
          /\ masked \in BOOLEAN /\ pending \in BOOLEAN
          /\ raised \in 0 .. MaxRaised /\ handled \in 0 .. raised /\ lost \in 0 .. raised

\* Once the handler is there, each SIGINT is handled, pending, or merged with a
\* pending one, and the program does not end with one pending.
SignalKept == phase # "killed" => /\ raised = handled + lost + (IF pending THEN 1 ELSE 0)
                                  /\ phase = "end" => ~pending
=============================================================================
