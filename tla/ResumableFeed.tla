---------------------------- MODULE ResumableFeed ----------------------------
(***************************************************************************)
(* What API-04 promises the readers of an operation's events, without      *)
(* connections, buffers or handlers: a reader has an unbroken run of the   *)
(* log, learns it event by event, keeps all of it when it resumes, and is  *)
(* told to start over only when the position it asked for could not be     *)
(* honored.                                                                *)
(***************************************************************************)
EXTENDS Naturals, Sequences

CONSTANTS Readers,   \* clients of the feed
          Cursors,   \* positions a reader may ask for
          Floor      \* events up to Floor are no longer retained

VARIABLES log,       \* number of events committed
          base,      \* the event after which what a reader holds begins
          known,     \* the events it holds, in the order it learned them
          honored    \* the position it last asked for could be honored

feedState == <<log, base, known, honored>>

\* The last event a reader accounts for: the id it would resume from.
Position(c) == base[c] + Len(known[c])

CanHonor(n) == Floor <= n /\ n <= log

Init ==
    /\ log \in Nat
    /\ base = [c \in Readers |-> 0]
    /\ known = [c \in Readers |-> <<>>]
    /\ honored = [c \in Readers |-> TRUE]

Grow ==
    /\ log' = log + 1
    /\ UNCHANGED <<base, known, honored>>

\* A reader asks again where it stands: nothing it holds is given up.
Resume(c) ==
    /\ honored' = [honored EXCEPT ![c] = CanHonor(Position(c))]
    /\ UNCHANGED <<log, base, known>>

\* A reader asks for another position of its own choice.
Begin(c, n) ==
    /\ base' = [base EXCEPT ![c] = n]
    /\ known' = [known EXCEPT ![c] = <<>>]
    /\ honored' = [honored EXCEPT ![c] = CanHonor(n)]
    /\ UNCHANGED log

\* The next event of the log, and no other: none is skipped or repeated.
Learn(c) ==
    /\ Floor <= Position(c) /\ Position(c) < log
    /\ known' = [known EXCEPT ![c] = Append(@, Position(c) + 1)]
    /\ UNCHANGED <<log, base, honored>>

\* The reader is told to start over, from what a fresh reading covers.
StartOver(c) ==
    /\ ~honored[c]
    /\ \E n \in Floor..log : base' = [base EXCEPT ![c] = n]
    /\ known' = [known EXCEPT ![c] = <<>>]
    /\ UNCHANGED <<log, honored>>

Next ==
    \/ Grow
    \/ \E c \in Readers : \/ Resume(c) \/ Learn(c) \/ StartOver(c)
                          \/ \E n \in Cursors : Begin(c, n)

Spec == Init /\ [][Next]_feedState
=============================================================================
