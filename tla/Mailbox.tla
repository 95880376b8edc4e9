------------------------------- MODULE Mailbox -------------------------------
(***************************************************************************)
(* What a process of casual relies on when it receives: a box of logical   *)
(* messages.  A message is put in the box whole, once; a receive asks for  *)
(* any message, for a type or for a correlation and takes one that fits;   *)
(* messages of one sender that fit are taken in the order they were sent;  *)
(* a message can be discarded before or after it is sent.                  *)
(***************************************************************************)
EXTENDS Naturals, Sequences, SequencesExt

CONSTANTS
    Message,      \* logical messages
    From,         \* [Message -> sender]
    Wish,         \* what a receive can ask for
    Fits(_, _)    \* Fits(w, m): message m is what w asks for

VARIABLES
    posted,       \* messages put in the box, in that order
    gone,         \* messages received or discarded
    late,         \* messages whose send was once given up half way
    wanted,       \* what the receiver waits for: a set of at most one wish
    got           \* what was asked for and received last: a set of at most one

vars == <<posted, gone, late, wanted, got>>

Init ==
    /\ posted = <<>>
    /\ gone = {}
    /\ late = {}
    /\ wanted = {}
    /\ got = {}

\* What is in the box: the places of the messages that can be received.
Box == {n \in DOMAIN posted : posted[n] \notin gone}

\* m arrives. If it has been discarded nobody will get it.
Send(m) ==
    /\ ~ Contains(posted, m)
    /\ posted' = Append(posted, m)
    /\ UNCHANGED <<gone, late, wanted, got>>

\* A sender gives m up half way and may begin again later.
Abort(m) ==
    /\ late' = late \cup {m}
    /\ UNCHANGED <<posted, gone, wanted, got>>

Ask(w) ==
    /\ wanted = {}
    /\ wanted' = {w}
    /\ UNCHANGED <<posted, gone, late, got>>

\* The message at n is handed over. Only a message whose send was resumed may pass an
\* earlier one of its sender.
Take(n, w) ==
    /\ got' = {<<w, posted[n]>>}
    /\ gone' = gone \cup {posted[n]}
    /\ wanted' = {}
    /\ Fits(w, posted[n])
    /\ \A k \in Box :
          k < n /\ Fits(w, posted[k]) /\ From[posted[k]] = From[posted[n]]
              => {posted[k], posted[n]} \cap late # {}
    /\ UNCHANGED <<posted, late>>

Receive == \E n \in Box, w \in wanted : Take(n, w)

\* A receive that finds its message at once.
AskAndReceive == wanted = {} /\ \E n \in Box, w \in Wish : Take(n, w)

\* Nothing to receive, or a signal.
GiveUp ==
    /\ wanted' = {}
    /\ UNCHANGED <<posted, gone, late, got>>

Discard(m) ==
    /\ wanted = {}
    /\ gone' = gone \cup {m}
    /\ UNCHANGED <<posted, late, wanted, got>>

Next ==
    \/ \E m \in Message : Send(m) \/ Abort(m) \/ Discard(m)
    \/ \E w \in Wish : Ask(w)
    \/ Receive \/ AskAndReceive \/ GiveUp

Spec == Init /\ [][Next]_vars
=============================================================================
