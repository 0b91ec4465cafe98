-------------------------------- MODULE Inbox --------------------------------
(***************************************************************************)
(* What the steering inbox of a run promises to those who write to it,     *)
(* with no sequence numbers, cursors, locks or sessions: messages have one *)
(* order, the order in which they were accepted; a reader takes messages   *)
(* from the front, without leaving one out; and a message is taken once,   *)
(* however many readers there are.                                         *)
(***************************************************************************)
CONSTANTS Messages, Readers

VARIABLES
  sent,    \* the messages that were accepted
  before,  \* pairs of them: the first was accepted before the second
  takenBy  \* message -> the readers that have taken it

vars == <<sent, before, takenBy>>

Init ==
  /\ sent = {}
  /\ before = {}
  /\ takenBy = [m \in Messages |-> {}]

Send(m) ==
  /\ m \notin sent
  /\ sent' = sent \cup {m}
  /\ before' = before \cup (sent \X {m})
  /\ UNCHANGED takenBy

(* A non-empty batch from the front of what nobody has taken. *)
Take(w, batch) ==
  /\ batch # {}
  /\ \A m \in batch : m \in sent /\ takenBy[m] = {}
  /\ \A m \in batch, k \in sent :
       <<k, m>> \in before /\ takenBy[k] = {} => k \in batch
  /\ takenBy' = [m \in Messages |-> IF m \in batch THEN {w} ELSE takenBy[m]]
  /\ UNCHANGED <<sent, before>>

Next ==
  \/ \E m \in Messages : Send(m)
  \/ \E w \in Readers, batch \in SUBSET Messages : Take(w, batch)

Spec == Init /\ [][Next]_vars
=============================================================================
