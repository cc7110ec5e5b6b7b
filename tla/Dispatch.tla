------------------------------ MODULE Dispatch ------------------------------
(***************************************************************************)
(* The dispatch endpoint and its client (src/dispatch): requests of several*)
(* messages, a line each, that pass the receive ladder one after the other *)
(* and are handled once per replay key, by ledger.Run over the endpoint's  *)
(* ledger (module TaskRun).  A worker is the goroutine that serves one     *)
(* request.                                                                *)
(*                                                                         *)
(* A client that has waited long enough gives up: the request's ctx is     *)
(* canceled, every later store call of the line fails, and nobody reads    *)
(* the reply.  The client may send the same messages again at any time.    *)
(* Two bounds of the endpoint are documented and left out: the replay      *)
(* window (Evicting is FALSE) and the panic of a handler.                  *)
(***************************************************************************)
EXTENDS TaskRun, Room

CONSTANTS
  Messages,     \* names of the messages clients send
  Mail,         \* the envelope of each
  Requests,     \* the bodies they send them in
  MaxLines,     \* Options.MaxBodyBytes, in lines
  IDs,          \* message IDs are <<1>> to <<IDs>>
  MaxRequests   \* bound: requests sent

ASSUME RequestsAssumption ==
  DOMAIN Mail = Messages /\ Requests \subseteq Seq(Messages) /\ MaxRequests \in Nat /\ IDs \in Nat \ {0}

VARIABLES
  request,   \* per worker, the request it serves
  posted,    \* requests sent so far
  taken,     \* messages claimed for handling
  handled,   \* per message, for each Run whose work succeeded: within its lease?
  acks,      \* per message, acks written
  told       \* per message, what clients have been told

dispatchVars == <<runVars, roomVars, request, posted, taken, handled, acks, told>>

NoRequest == [on |-> FALSE]

\* Mutant of ReplayKey: the thread is left out.
ReplayKeyByID(m) == m.id[1]

\* replayKey: one key per thread and ID.
ReplayKey(m) == (m.thread - 1) * IDs + m.id[1]

\* The keys of all messages are keys of the ledger, whose tasks need nothing;
\* and senders give the messages they sign in a thread different IDs.
ASSUME MailAssumption ==
  /\ MaxSeq > 0
  /\ \A m \in Messages :
       /\ Mail[m].thread \in Nat \ {0} /\ Mail[m].id \in {<<i>> : i \in 1..IDs}
       /\ ReplayKey(Mail[m]) \in Keys /\ <<>> \in NeedsOf[ReplayKey(Mail[m])]
  /\ \A m, n \in Messages :
       /\ VerifySignature(Mail[m]) /\ VerifySignature(Mail[n])
       /\ Mail[m].thread = Mail[n].thread /\ Mail[m].id = Mail[n].id
       => m = n

\* isReplay.
ReplaySentinels ==
  {"ErrTaskDone", "ErrTaskFailed", "ErrTaskBlocked", "ErrLeaseActive", "ErrNotClaimed"}

\* Mutant of Reply: a task that is done counts as a success.
ReplyDone(err) ==
  IF err \in {"nil", "ErrTaskDone"} THEN "ack"
  ELSE IF err \in ReplaySentinels THEN "replay" ELSE "error"

\* The reply line for what ledger.Run returned.
Reply(err) ==
  IF err = "nil" THEN "ack"
  ELSE IF err \in ReplaySentinels THEN "replay" ELSE "error"

Line(w) == Head(request[w].todo)

-----------------------------------------------------------------------------

\* Send posts a body; one beyond the limit is answered as a whole.
Post(w, msgs) ==
  /\ ~request[w].on /\ posted < MaxRequests
  /\ posted' = posted + 1
  /\ request' = [request EXCEPT ![w] =
       [on |-> TRUE, body |-> msgs, reply |-> <<>>, running |-> FALSE, gone |-> FALSE,
        todo |-> IF Len(msgs) > MaxLines THEN <<>> ELSE msgs]]
  /\ UNCHANGED <<runVars, roomVars, taken, handled, acks, told>>

\* The client gives up.
Disconnect(w) ==
  /\ request[w].on /\ ~request[w].gone
  /\ request' = [request EXCEPT ![w].gone = TRUE]
  /\ UNCHANGED <<runVars, roomVars, posted, taken, handled, acks, told>>

\* The line is answered, and the next one begins.
Answer(w, what) ==
  request' = [request EXCEPT ![w].reply = Append(@, what), ![w].todo = Tail(@),
                             ![w].running = FALSE]

\* processLine, up to ledger.Run: decode, verify, admit.
ProcessLine(w) ==
  LET m == Mail[Line(w)]
  IN /\ request[w].on /\ request[w].todo # <<>> /\ ~request[w].running
     /\ \/ /\ VerifySignature(m) /\ Accepts(m)
           /\ RunStart(w, ReplayKey(m), 1, <<>>)
           /\ request' = [request EXCEPT ![w].running = TRUE]
        \/ /\ ~(VerifySignature(m) /\ Accepts(m))
           /\ Answer(w, "error")
           /\ UNCHANGED runVars
     /\ UNCHANGED <<roomVars, posted, taken, handled, acks, told>>

\* The next step of ledger.Run does a store call.
StoreCall(w) ==
  pc[w] # "idle" \/ (run[w].at = "Admit" /\ ret[w] \in {"true", "false"})

\* A step of ledger.Run; store calls fail exactly when ctx is done.  The
\* work is resolve, handle and NewAck.
RunLine(w) ==
  /\ request[w].on /\ request[w].running /\ run[w].at # "none"
  /\ Proceed(w)
  /\ StoreCall(w) => (request[w].gone <=> "fault" \in {ret'[w], error'[w]})
  /\ LET begins == grants' # grants
         succeeds == /\ run[w].at = "Complete" /\ run'[w].at = "none"
                     /\ run[w].status = "completed"
     IN /\ taken' = IF begins THEN taken \cup {Line(w)} ELSE taken
        /\ handled' = IF succeeds
                      THEN [handled EXCEPT ![Line(w)] = Append(@, clock < run[w].until)]
                      ELSE handled
  /\ UNCHANGED <<roomVars, request, posted, acks, told>>

\* processLine, from where ledger.Run has returned.
LineDone(w) ==
  /\ request[w].on /\ request[w].running /\ run[w].at = "none"
  /\ Answer(w, Reply(error[w]))
  /\ acks' = IF Reply(error[w]) = "ack" THEN [acks EXCEPT ![Line(w)] = @ + 1] ELSE acks
  /\ UNCHANGED <<runVars, roomVars, posted, taken, handled, told>>

\* The reply goes out.  A client that is still there reads a line per
\* message (parseReply).
RequestDone(w) ==
  /\ request[w].on /\ request[w].todo = <<>>
  /\ LET r == request[w]
         Of(m) == {r.reply[i] : i \in {j \in DOMAIN r.reply : r.body[j] = m}}
     IN told' = IF r.gone THEN told ELSE [m \in Messages |-> told[m] \cup Of(m)]
  /\ request' = [request EXCEPT ![w] = NoRequest]
  /\ UNCHANGED <<runVars, roomVars, posted, taken, handled, acks>>

-----------------------------------------------------------------------------

DispatchInit ==
  /\ RunInit /\ RoomInit
  /\ request = [w \in Workers |-> NoRequest]
  /\ posted = 0 /\ taken = {}
  /\ handled = [m \in Messages |-> <<>>]
  /\ acks = [m \in Messages |-> 0]
  /\ told = [m \in Messages |-> {}]

Others == UNCHANGED <<request, posted, taken, handled, acks, told>>

Serve(w) == ProcessLine(w) \/ RunLine(w) \/ LineDone(w) \/ RequestDone(w)

DispatchNext ==
  \/ Passing /\ UNCHANGED <<run, runs, error, nils, roomVars>> /\ Others
  \/ RoomStep /\ UNCHANGED runVars /\ Others
  \/ \E w \in Workers :
       \/ \E msgs \in Requests : Post(w, msgs)
       \/ Disconnect(w) \/ Serve(w)

DispatchSpec == DispatchInit /\ [][DispatchNext]_dispatchVars

-----------------------------------------------------------------------------

\* However often a client repeats a message after it lost the answer, and
\* however the repetitions interleave with the first, one of them at most is
\* acknowledged, and only when the handler has accepted the message.
ConfirmedOnce ==
  ~Evicting => \A m \in Messages :
    acks[m] <= 1 /\ (acks[m] = 1 => handled[m] # <<>>)

\* A client is told "replay" only of a message that was claimed for handling: no
\* other message of the room takes its key, no refused line uses it up.
ReplayIsTruthful == \A m \in Messages : "replay" \in told[m] => m \in taken

\* The words of processLine, "Resolve, handle, and ack construction run once
\* per replay key": a message is not handled again when the handler has
\* accepted it and ledger.Run has returned, all within the lease.  A handler
\* that outlives its lease is a documented exception.
HandledOnce ==
  \A m \in Messages : Len(handled[m]) > 1 => \E i \in DOMAIN handled[m] : ~handled[m][i]

=============================================================================
