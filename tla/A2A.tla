-------------------------------- MODULE A2A --------------------------------
(***************************************************************************)
(* The remote round trip of package a2a (src/a2a): Wait sends a message to *)
(* a remote agent, polls the task it started until it is over and turns    *)
(* its result into an ack, all under one deadline.                         *)
(*                                                                         *)
(* The remote task goes on by itself, also when nobody polls it any more.  *)
(* Its result travels in a carrier whose context and message ID overwrite  *)
(* the thread and the ID of the message inside (FromPart).                 *)
(***************************************************************************)
EXTENDS Envelope

CONSTANTS
  Callers,       \* those that wait for a remote task
  Remotes,       \* identities that sign results
  ExpectSigner   \* the identity the caller has pinned, "" for none

VARIABLES
  task,     \* per caller, the remote task its last Send started
  exchange  \* per caller, where Wait is

a2aVars == <<task, exchange>>

NoRemoteTask == [state |-> "unspecified", of |-> <<>>, result |-> <<>>]
NoExchange == [at |-> "none"]

Settled == {"completed", "failed", "canceled", "rejected"}

\* States in which the task waits for an answer that Wait never gives.
Stuck == {"auth-required", "input-required"}

A2AInit ==
  /\ task = [c \in Callers |-> NoRemoteTask]
  /\ exchange = [c \in Callers |-> NoExchange]

ExchangeTold(c, what) == exchange' = [exchange EXCEPT ![c] = [at |-> "told", what |-> what]]

\* Wait begins; m is signed.
WaitStarts(c, m) ==
  /\ exchange' = [exchange EXCEPT ![c] = [at |-> "sending", msg |-> m]]
  /\ UNCHANGED task

\* Send: the message reaches the remote or not, and so does the task ID.
RemoteSend(c) ==
  /\ exchange[c].at = "sending"
  /\ \/ /\ task' = [task EXCEPT ![c] = [NoRemoteTask EXCEPT
                      !.state = "submitted", !.of = <<exchange[c].msg>>]]
        /\ \/ exchange' = [exchange EXCEPT ![c].at = "polling"]
           \/ ExchangeTold(c, "error")
     \/ ExchangeTold(c, "error") /\ UNCHANGED task

\* One tick of the poll: Status, and what its answer means.
RemotePoll(c) ==
  /\ exchange[c].at = "polling"
  /\ \/ ExchangeTold(c, "error")
     \/ task[c].state = "completed" /\ exchange' = [exchange EXCEPT ![c].at = "fetching"]
     \/ /\ task[c].state \in (Settled \ {"completed"}) \cup Stuck
        /\ ExchangeTold(c, "ErrRemoteFailed")
  /\ UNCHANGED task

\* FromPart.
Carried(result) == [result.msg EXCEPT !.thread = result.context, !.id = result.message]

\* Result and ackFromResult.
ResultVerdict(m, result) ==
  IF ~ValidateMessage(Carried(result)) \/ ~VerifySignature(Carried(result)) THEN "error"
  ELSE IF ExpectSigner # "" /\ result.msg.signer # ExpectSigner THEN "ErrSignerMismatch"
  ELSE IF CanAck(m, result.msg.signer, result.msg.payload) THEN "confirmed" ELSE "error"

RemoteFetch(c) ==
  /\ exchange[c].at = "fetching"
  /\ \/ ExchangeTold(c, "error")
     \/ ExchangeTold(c, ResultVerdict(exchange[c].msg, task[c].result[1]))
  /\ UNCHANGED task

\* The deadline of the whole exchange, or the caller's ctx.
RemoteTimeout(c) ==
  /\ exchange[c].at \in {"sending", "polling", "fetching"}
  /\ ExchangeTold(c, "ErrTimeout")
  /\ UNCHANGED task

\* The results a remote may give to m: signed by it, in a carrier that keeps
\* the message's IDs or has its own.
ResultsFor(m) ==
  {LET answer == Sign(Message(m.thread, <<"result">>, m.room, <<>>, <<>>, "text"), s)
   IN [msg |-> answer, context |-> answer.thread, message |-> id] :
     s \in Remotes, id \in {<<"result">>, <<"minted">>}}

RemoteProgress(c) ==
  /\ \/ task[c].state = "submitted" /\ task' = [task EXCEPT ![c].state = "working"]
     \/ /\ task[c].state = "working"
        /\ \E state \in (Settled \cup Stuck) \ {"completed"} :
             task' = [task EXCEPT ![c].state = state]
     \/ /\ task[c].state = "working"
        /\ \E result \in ResultsFor(task[c].of[1]) :
             task' = [task EXCEPT ![c].state = "completed", ![c].result = <<result>>]
  /\ UNCHANGED exchange

=============================================================================
