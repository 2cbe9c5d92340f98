--------------------------- MODULE DeadlineTimer ----------------------------
(***************************************************************************)
(* A deadlineTimer (src/netstack/deadline.go) as a record and operators on *)
(* it. Channels are numbered. A callback of time.AfterFunc runs on its own *)
(* goroutine: once the runtime has started it, Stop comes too late, and it *)
(* runs whenever it gets the mutex.                                        *)
(***************************************************************************)
EXTENDS Naturals, Sequences, SequencesExt

newDeadlineTimer ==
    [ch |-> 0,             \* d.ch
     closedChs |-> {},     \* the channels that have been closed
     expired |-> FALSE,
     timer |-> FALSE,      \* a timer is pending
     started |-> <<>>,     \* callbacks waiting for the mutex: their channels
     panicked |-> FALSE]   \* a closed channel was closed again

closeCh(d, ch) ==
    [d EXCEPT !.closedChs = @ \cup {ch}, !.panicked = @ \/ ch \in d.closedChs]

\* Mutant: every call makes a new channel.
renewAlways(d) ==
    [d EXCEPT !.timer = FALSE, !.ch = @ + 1, !.expired = FALSE]

\* The head of set: the timer is stopped, a fired deadline gets a new channel.
renew(d) ==
    [d EXCEPT !.timer = FALSE, !.ch = IF d.expired THEN @ + 1 ELSE @, !.expired = FALSE]

\* t is "zero", "past" or "future".
set(d, t) ==
    CASE t = "zero" -> renew(d)
      [] t = "past" -> closeCh([renew(d) EXCEPT !.expired = TRUE], renew(d).ch)
      [] t = "future" -> [renew(d) EXCEPT !.timer = TRUE]

stopTimer(d) == [d EXCEPT !.timer = FALSE]

\* The deadline passes: the runtime starts the callback.
passes(d) == [d EXCEPT !.timer = FALSE, !.started = Append(@, d.ch)]

\* The callback that was started i-th gets the mutex.
callback(d, i) ==
    LET e == [d EXCEPT !.started = RemoveAt(@, i)]
    IN IF d.expired THEN e ELSE closeCh([e EXCEPT !.expired = TRUE], d.started[i])
=============================================================================
