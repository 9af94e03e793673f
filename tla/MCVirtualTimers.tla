-------------------------- MODULE MCVirtualTimers --------------------------
(***************************************************************************)
(* VirtualTimers for TLC: threads are alike, and so are the hours of the   *)
(* clock.  No action and no property looks at a time but through Elapsed,  *)
(* After or an equality, so the same state at another hour behaves alike.  *)
(***************************************************************************)
EXTENDS VirtualTimers

Symmetry == Permutations(Thread)

\* A state without the hour: each time as how long ago it was or is to come.
\* NoAlarm has no base.
Clockless ==
    <<Elapsed(time, ccr), on, hit, Elapsed(lasttime, time), vtlist, delta, st, calls,
      owner, stage, IF al = NoAlarm THEN al ELSE [al EXCEPT !.base = Elapsed(@, time)],
      late>>
=============================================================================
