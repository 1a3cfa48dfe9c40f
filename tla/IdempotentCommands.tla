------------------------- MODULE IdempotentCommands -------------------------
(***************************************************************************)
(* What the command gateway promises its clients, without saying how: a    *)
(* command has at most one effect, with one content, that somebody asked   *)
(* for; a client is told once, and what it is told of success or conflict  *)
(* is true when it is told. An ask may be given up at any time, and may    *)
(* take effect after its client has left.                                  *)
(***************************************************************************)
CONSTANTS Slots,   \* clients being served
          Asks     \* what can be asked: a command's name and its content

VARIABLES asked,   \* what the client of a slot asked: nothing or one ask
          told,    \* what it was told
          open,    \* asks that may still take effect
          record   \* asks that took effect

vars == <<asked, told, open, record>>

Init ==
    /\ asked = [s \in Slots |-> {}]
    /\ told = [s \in Slots |-> "nothing"]
    /\ open = {}
    /\ record = {}

Ask(s, a) ==
    /\ asked[s] = {}
    /\ asked' = [asked EXCEPT ![s] = {a}]
    /\ open' \subseteq open \cup {a}
    /\ UNCHANGED <<told, record>>

TakeEffect(a) ==
    /\ a \in open
    /\ \A b \in record : b.name # a.name
    /\ record' = record \cup {a}
    /\ open' \subseteq open
    /\ UNCHANGED <<asked, told>>

GiveUp ==
    /\ open' \subseteq open
    /\ UNCHANGED <<asked, told, record>>

\* Success: this content took effect. Conflict: another content did.
True(verdict, a) ==
    /\ verdict = "success" => \E b \in record : b.name = a.name /\ b.content = a.content
    /\ verdict = "conflict" => \E b \in record : b.name = a.name /\ b.content # a.content

Tell(s, verdict) ==
    /\ told[s] = "nothing"
    /\ \E a \in Asks : asked[s] = {a} /\ True(verdict, a)
    /\ told' = [told EXCEPT ![s] = verdict]
    /\ open' \subseteq open
    /\ UNCHANGED <<asked, record>>

Leave(s) ==
    /\ told[s] # "nothing"
    /\ asked' = [asked EXCEPT ![s] = {}]
    /\ told' = [told EXCEPT ![s] = "nothing"]
    /\ open' \subseteq open
    /\ UNCHANGED record

Next ==
    \/ \E s \in Slots, a \in Asks : Ask(s, a)
    \/ \E s \in Slots, v \in {"success", "conflict", "failed"} : Tell(s, v)
    \/ \E s \in Slots : Leave(s)
    \/ \E a \in Asks : TakeEffect(a)
    \/ GiveUp

Spec == Init /\ [][Next]_vars
=============================================================================
