------------------------------ MODULE Envelope ------------------------------
(***************************************************************************)
(* Messages, threads and acks of package envelope (src/envelope), as pure  *)
(* operators.  A signature is the content it was made over, so that a      *)
(* field changed after signing no longer verifies; the hash of a message   *)
(* is the message.  An absent signature or hash is the empty sequence, an  *)
(* absent thread 0.  A text is blank or not.                               *)
(***************************************************************************)
EXTENDS Naturals, Sequences

Texts == {"text", "blank"}

\* An unsigned message; to is the list of recipients, empty for the room.
Message(thread, id, room, to, prev, payload) ==
  [thread |-> thread, id |-> id, room |-> room, to |-> to, prev |-> prev,
   payload |-> payload, signer |-> "", signature |-> <<>>]

\* The signed bytes.
Content(m) == [m EXCEPT !.signature = <<>>]

\* validateSignature: both or neither.
ValidateSignature(m) == (m.signer = "") = (m.signature = <<>>)

ValidateMessage(m) ==
  /\ m.id # <<>> /\ m.thread # 0
  /\ \A i, j \in DOMAIN m.to : i # j => m.to[i] # m.to[j]
  /\ m.payload # "blank"
  /\ ValidateSignature(m)

Sign(m, signer) ==
  LET unsigned == [m EXCEPT !.signer = signer, !.signature = <<>>]
  IN [unsigned EXCEPT !.signature = <<Content(unsigned)>>]

VerifySignature(m) == m.signer # "" /\ m.signature = <<Content(m)>>

Hash(m) == <<m>>

\* VerifyThread: one thread, no ID twice, each message linked to the one
\* before it.
VerifyThread(msgs) ==
  /\ msgs # <<>>
  /\ \A i \in DOMAIN msgs :
       /\ ValidateMessage(msgs[i])
       /\ msgs[i].thread = msgs[1].thread
       /\ \A j \in DOMAIN msgs : i # j => msgs[i].id # msgs[j].id
       /\ msgs[i].prev = IF i = 1 THEN <<>> ELSE Hash(msgs[i - 1])

\* NewAck succeeds.
CanAck(m, from, restatement) ==
  m.id # <<>> /\ from # "" /\ restatement # "blank"

=============================================================================
