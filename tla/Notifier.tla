------------------------------ MODULE Notifier ------------------------------
(***************************************************************************)
(* The NDJSON notifier (src/channel/ndjson_notifier.go, channel.go): one   *)
(* closure over a reader and a writer that puts a question to a peer and   *)
(* waits for its answer.  A call that is canceled returns at once; its     *)
(* write and its scan go on in the background and keep the lock, so that   *)
(* the next call neither writes into the middle of a line nor reads the    *)
(* answer to the question before.                                          *)
(*                                                                         *)
(* At most one call owns the lock, alive or abandoned: pipe is where its   *)
(* write or scan is.  The scanner is new for every call and its buffer is  *)
(* thrown away with it, so a scan takes one line and may swallow lines     *)
(* that have come in behind it.  The peer answers a question at most once; *)
(* noise is what may bring the stream out of step: a line it sends of its  *)
(* own accord, and a read or a write that fails while an answer is still   *)
(* to come.                                                                *)
(***************************************************************************)
EXTENDS Naturals, SequencesExt

CONSTANTS
  Askers,   \* the callers
  MaxNoise  \* bound: lines sent unasked, and failures of a stream in use

ASSUME NoiseAssumption == MaxNoise \in Nat

VARIABLES
  pipe,   \* the call that holds the lock
  call,   \* what each caller is waiting for, or has been told
  asked,  \* questions the peer has read and not answered
  lines,  \* lines on the reader
  noise,  \* how often the stream may have come out of step
  closed  \* the peer has closed the stream

notifierVars == <<pipe, call, asked, lines, noise, closed>>

Free == [at |-> "free"]
NoCall == [at |-> "none"]
Told(what) == [at |-> "told", what |-> what]

\* An answer, with the question it is to.
Reply(what, of) == [at |-> "told", what |-> what, of |-> of]

\* A question, with who asks it: two threads may use the same ID.
Question(a, id) == [id |-> id, by |-> a]

NotifierInit ==
  /\ pipe = Free /\ call = [a \in Askers |-> NoCall]
  /\ asked = {} /\ lines = <<>> /\ noise = 0 /\ closed = FALSE

\* TryLock, and a question that is well formed.
Ask(a, id) ==
  /\ call[a] = NoCall
  /\ IF pipe = Free
       THEN /\ pipe' = [at |-> "writing", q |-> Question(a, id), live |-> TRUE]
            /\ call' = [call EXCEPT ![a] = [at |-> "waiting"]]
       ELSE /\ call' = [call EXCEPT ![a] = Told("busy")]
            /\ UNCHANGED pipe
  /\ UNCHANGED <<asked, lines, noise, closed>>

\* What the owner of the lock is told, if it is still there.
Answered(what) ==
  IF pipe.live THEN [call EXCEPT ![pipe.q.by] = Told(what)] ELSE call

\* encodeQuestionLine: the peer can read the question.
EncodeQuestionLine == asked' = asked \union {pipe.q}

\* One more line or failure that may bring the stream out of step.
Noisier == noise < MaxNoise /\ noise' = noise + 1

\* The write goroutine ends.  A failed write releases the lock, also when
\* the line has reached the peer all the same; a question that was written is
\* owed a scan, also when its caller has gone (continueAfterAbandonedWrite).
WriteQuestion ==
  /\ pipe.at = "writing"
  /\ \/ /\ EncodeQuestionLine
        /\ pipe' = [pipe EXCEPT !.at = "scanning"]
        /\ UNCHANGED <<call, noise>>
     \/ /\ call' = Answered("error")
        /\ pipe' = Free
        /\ \/ UNCHANGED <<asked, noise>>
           \/ EncodeQuestionLine /\ Noisier
  /\ UNCHANGED <<lines, closed>>

\* Mutant of CancelAsk: an abandoned call gives the lock back.
CancelAskReleases(a) ==
  /\ call[a].at = "waiting"
  /\ call' = [call EXCEPT ![a] = Told("canceled")]
  /\ pipe' = Free
  /\ UNCHANGED <<asked, lines, noise, closed>>

\* ctx.Done in either phase.
CancelAsk(a) ==
  /\ call[a].at = "waiting"
  /\ call' = [call EXCEPT ![a] = Told("canceled")]
  /\ pipe' = [pipe EXCEPT !.live = FALSE]
  /\ UNCHANGED <<asked, lines, noise, closed>>

\* The verdict of scanAnswerLine on a line.
AnswerVerdict(line, q) ==
  IF line.id # q.id THEN "error"
  ELSE IF line.approved THEN "approved" ELSE "declined"

\* The scan goroutine ends, with a line or at the end of the stream: release
\* first, then the result.
ScanAnswer ==
  /\ pipe.at = "scanning"
  /\ \/ /\ lines = <<>> /\ closed
        /\ call' = Answered("error")
        /\ UNCHANGED lines
     \/ \E n \in 1..Len(lines) :
          /\ lines' = SubSeq(lines, n + 1, Len(lines))
          /\ LET what == AnswerVerdict(Head(lines), pipe.q)
             IN  call' = IF pipe.live /\ what # "error"
                           THEN [call EXCEPT ![pipe.q.by] = Reply(what, Head(lines).of)]
                           ELSE Answered(what)
  /\ pipe' = Free
  /\ UNCHANGED <<asked, noise, closed>>

\* A line that is no answer to anything.
Stray == [id |-> <<>>, approved |-> FALSE, of |-> <<>>]

\* The scan goroutine ends with an error of a stream that goes on: what it
\* has buffered is lost, and of a line that is too long the rest is left.
ReadFails ==
  /\ pipe.at = "scanning" /\ Noisier
  /\ \E n \in 0..Len(lines), rest \in {<<>>, <<Stray>>} :
       lines' = rest \o SubSeq(lines, n + 1, Len(lines))
  /\ call' = Answered("error")
  /\ pipe' = Free
  /\ UNCHANGED <<asked, closed>>

\* The caller has read what its call returned.
Heard(a) == call' = [call EXCEPT ![a] = NoCall]

-----------------------------------------------------------------------------
(* The peer.                                                               *)

PeerAnswers ==
  /\ ~closed
  /\ \E q \in asked, approved \in BOOLEAN :
       /\ lines' = Append(lines, [id |-> q.id, approved |-> approved, of |-> q])
       /\ asked' = asked \ {q}
  /\ UNCHANGED <<pipe, call, noise, closed>>

\* A line nobody asked for.
PeerNoise ==
  /\ ~closed /\ Noisier
  /\ lines' = Append(lines, Stray)
  /\ UNCHANGED <<pipe, call, asked, closed>>

PeerCloses ==
  /\ ~closed
  /\ closed' = TRUE
  /\ UNCHANGED <<pipe, call, asked, lines, noise>>

=============================================================================
