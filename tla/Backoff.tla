------------------------------- MODULE Backoff -------------------------------
(***************************************************************************)
(* Dispatcher.retryDelay: doubling from BaseDelay, cut at MaxDelay.        *)
(***************************************************************************)
EXTENDS Integers

(* The loop, from a given delay and loop counter on.                       *)
RECURSIVE Doubled(_, _, _, _)
Doubled(delay, current, attempt, max) ==
    IF current < attempt /\ delay < max
    THEN IF delay * 2 > max THEN max
         ELSE Doubled(delay * 2, current + 1, attempt, max)
    ELSE delay

(* Mutant of retryDelay: the counter starts at 0, one doubling too many.   *)
retryDelayFromZero(attempt, base, max) == Doubled(base, 0, attempt, max)

retryDelay(attempt, base, max) == Doubled(base, 1, attempt, max)

=============================================================================
