------------------------------- MODULE Frostd -------------------------------
(***************************************************************************)
(* The part of the frostd server that the clients of mina-frost-client     *)
(* rely on.  The server is not in the repository: what is stated here is   *)
(* read from the calls in src/mina-frost-client/src/client.rs, their types *)
(* and errors in api.rs, and the loops that make them.                     *)
(*                                                                         *)
(* A session is a status and one FIFO of messages per mailbox.  "send"     *)
(* appends to the mailbox of a recipient, "receive" hands over and forgets *)
(* everything a mailbox holds, "close_session" is granted to the creator   *)
(* of the session only and makes every later call fail (SessionNotFound).  *)
(***************************************************************************)
EXTENDS Sequences

\* The life of a session: it is created once and, once closed, stays closed.
SessionStatus == {"none", "open", "closed"}

\* "send" to one recipient: the message goes to the end of its mailbox.
Delivered(boxes, to, m) == [boxes EXCEPT ![to] = Append(@, m)]

\* "receive": the mailbox is emptied, its content is the answer.
Drained(boxes, who) == [boxes EXCEPT ![who] = <<>>]

\* "close_session": the server forgets the session and all its mailboxes.
Discarded(boxes) == [who \in DOMAIN boxes |-> <<>>]
=============================================================================
