---------------------------- MODULE NativeWorker ----------------------------
(* learning/native_worker.py: the process that makes one generation request.
   The native agent inside it is not this code and may ask for anything; every
   request it makes passes Guard.send.  The model server belongs to the
   environment: it loads its model on demand, works on a request after the
   worker is gone, and may break off. *)
EXTENDS NativeProgress, SequencesExt

CONSTANTS
  Requests,     \* 1 .. 2n, in the order of the schedule
  Answers,      \* what the server may answer: [content, finish]
  MaxMetadata   \* owner.metadata

VARIABLES
  server,       \* loaded, foreign: instances; work: the request in progress;
                \* received, answer: per request
  worker        \* the process of the current request

workerVars == <<server, worker>>

NoAnswer == [content |-> "none", finish |-> "none"]

ServerInit ==
  server = [loaded |-> FALSE, foreign |-> FALSE, work |-> 0,
            received |-> [q \in Requests |-> 0], answer |-> [q \in Requests |-> NoAnswer]]

NoWorker ==
  [at |-> "none", request |-> 0, posts |-> 0, denied |-> FALSE, metadata |-> 0,
   bytes |-> 0, refused |-> FALSE, delivered |-> FALSE, finished |-> FALSE,
   parsed |-> NoAnswer, completed |-> FALSE, matches |-> FALSE, channel |-> NoChannel]

WorkerInit == ServerInit /\ worker = NoWorker

Spawned(q, channel) ==
  [NoWorker EXCEPT !.at = "agent", !.request = q, !.channel = channel]

(* The next record of the worker, with report_progress called on it. *)
Reports(next) ==
  \E channel \in Emit(next.channel, next.posts, next.bytes) :
    worker' = [next EXCEPT !.channel = channel]

-----------------------------------------------------------------------------
(* A response is streamed: two parts of text,
   the reason it finished, and the end marker. *)

StreamOf(answer) ==
  LET text == [text |-> 1, finish |-> "none", done |-> FALSE]
  IN <<text, text, [text |-> 0, finish |-> answer.finish, done |-> FALSE],
       [text |-> 0, finish |-> "none", done |-> TRUE]>>

(* Faulty variant: the stream ends where the connection does. *)
CompleteWithoutFinish(stream) == stream # <<>>

(* parse_wire_response: one finish with no text after it, and the end marker,
   with nothing after it. *)
IsCompleteStream(stream) ==
  LET finishes == {i \in DOMAIN stream : stream[i].finish # "none"}
      ends == {i \in DOMAIN stream : stream[i].done}
  IN /\ ends = {Len(stream)}
     /\ \E i \in finishes :
          finishes = {i} /\ \A j \in DOMAIN stream : stream[j].text > 0 => j < i

(* What was read of the answer; a part of the text is another text. *)
ParsedResponse(stream, answer) ==
  IF IsPrefix(SubSeq(StreamOf(answer), 1, 2), stream) THEN answer
  ELSE [answer EXCEPT !.content = "cut"]

-----------------------------------------------------------------------------
(* Guard.send, for what the agent asks.  Only the request it was made for,
   under the policy and the credential, is a generation that may go out. *)

(* A metadata request within its budget; any other is refused. *)
SendMetadata ==
  /\ worker.at = "agent" /\ worker.metadata < MaxMetadata
  /\ Reports([worker EXCEPT !.metadata = @ + 1])
  /\ UNCHANGED server

(* A generation that is not the expected one is refused.  Its size, here two,
   is retained for diagnosis, unless one has been sent. *)
RefuseGeneration ==
  /\ worker.at = "agent" /\ ~worker.refused
  /\ worker' = [worker EXCEPT !.refused = TRUE,
                              !.bytes = IF worker.posts = 0 THEN 2 ELSE @]
  /\ UNCHANGED server

(* Faulty variant: a generation that failed may be repeated. *)
SendsUnlessFinished == worker.at = "agent" /\ ~worker.finished

(* The one generation request of this worker. *)
MaySend == worker.at = "agent" /\ worker.posts = 0

SendGeneration ==
  /\ MaySend
  /\ Reports([worker EXCEPT !.at = "sending", !.posts = 1, !.bytes = 1, !.delivered = FALSE])
  /\ UNCHANGED server

(* A second one, and a summary the agent would ask for at its iteration limit. *)
DenyContinuation ==
  /\ worker.at = "agent"
  /\ ~worker.denied
  /\ worker' = [worker EXCEPT !.denied = TRUE]
  /\ UNCHANGED server

(* A response with status 200 was read until the connection ended, was complete,
   and was closed. *)
ReturnResponse ==
  LET answer == server.answer[worker.request]
      stream == StreamOf(answer)
  IN
  /\ worker.at = "sending"
  /\ worker.delivered /\ server.work = 0
  /\ answer # NoAnswer
  /\ \E n \in 0 .. Len(stream) :
       /\ IsCompleteStream(SubSeq(stream, 1, n))
       /\ Reports([worker EXCEPT !.at = "agent", !.finished = TRUE,
                                 !.parsed = ParsedResponse(SubSeq(stream, 1, n), answer)])
  /\ UNCHANGED server

(* Anything else: no connection, a time limit, another status (redirects are
   not followed), an incomplete or foreign body, an error on closing.  The
   server may not even have received the request.  The failure is kept for the
   trace, and makes the trace no terminal whatever else it says. *)
FailGeneration ==
  /\ worker.at = "sending"
  /\ worker' = [worker EXCEPT !.at = "agent"]
  /\ UNCHANGED server

(* The agent returns or raises, and the trace is written.  What it made of the
   response can match only one that was read. *)
ReturnNative(completed, matches) ==
  /\ worker.at = "agent"
  /\ matches => worker.finished
  /\ Reports([worker EXCEPT !.at = "exited", !.completed = completed, !.matches = matches])
  /\ UNCHANGED server

WorkerStep ==
  \/ SendMetadata
  \/ RefuseGeneration
  \/ SendGeneration
  \/ DenyContinuation
  \/ ReturnResponse
  \/ FailGeneration
  \/ \E completed, matches \in BOOLEAN : ReturnNative(completed, matches)

-----------------------------------------------------------------------------
(* The server. *)

ServerReceives ==
  /\ worker.at = "sending" /\ ~worker.delivered
  /\ server.work = 0
  /\ server' = [server EXCEPT !.loaded = TRUE, !.work = worker.request,
                              !.received[worker.request] = @ + 1]
  /\ worker' = [worker EXCEPT !.delivered = TRUE]

ServerAnswers ==
  /\ server.work # 0
  /\ \E answer \in Answers :
       server' = [server EXCEPT !.work = 0, !.answer[server.work] = answer]
  /\ UNCHANGED worker

(* Another client loads or drops an instance of another model. *)
ForeignUse ==
  /\ worker.at \in {"none", "exited"}
  /\ server' = [server EXCEPT !.foreign = ~@]
  /\ UNCHANGED worker

HostReads ==
  /\ Readable(worker.channel)
  /\ worker' = [worker EXCEPT !.channel = Receive(@)]
  /\ UNCHANGED server
=============================================================================
