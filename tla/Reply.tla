------------------------------- MODULE Reply -------------------------------
(* What a client reads of one request the engine worker serves: worker.rs      *)
(* (worker_loop), mod.rs (handle_worker_request, complete_chat and the two     *)
(* chat streams), response_output.rs (complete_response, stream_response) and  *)
(* the writers of http.rs.  Any write may fail half-way or before its first    *)
(* byte (the 30 s write timeout) while the socket still takes the next one,    *)
(* and the request may be cancelled at any moment.                             *)
EXTENDS Naturals, Sequences

CONSTANT MaxDeltas    \* bound: the pieces of text a generation hands over

ASSUME DeltasAssumption == MaxDeltas \in Nat

VARIABLES request,    \* [api, mode]: which handler serves the request
          pc,         \* where that handler is
          todo,       \* events it is about to write, one after the other
          wire,       \* what reached the client: [what, whole]
          deltas,     \* pieces of text written so far
          status,     \* status of the ApiError that left the handler, or 0
          committed,  \* did store.commit take the response?
          cancelled,  \* the request's GenerationCancellation
          broken      \* has a write failed?  In no field of the code

vars == <<request, pc, todo, wire, deltas, status, committed, cancelled, broken>>

\* stream: text as it comes.  tools: a stream whose output is parsed first.
Requests == [api : {"chat", "responses"}, mode : {"json", "stream", "tools"}]
             \cup {[api |-> "other", mode |-> "json"]}

Chat == request.api = "chat"

-----------------------------------------------------------------------------
(* The writers. *)

Outcomes == {"whole", "part", "none"}

\* write_json_response and write_sse_*: what gets out of one item.
Put(item, outcome) ==
  /\ wire' = IF outcome = "none" THEN wire
             ELSE Append(wire, [what |-> item, whole |-> outcome = "whole"])
  /\ broken' = (broken \/ outcome # "whole")

-----------------------------------------------------------------------------
(* The handlers. *)

Init == /\ request \in Requests
        /\ pc = "queued" /\ todo = <<>> /\ wire = <<>> /\ deltas = 0
        /\ status = 0 /\ committed = FALSE /\ broken = FALSE
        /\ cancelled \in BOOLEAN

\* Work cancelled in the queue is dropped without a word.
Drop == /\ pc = "queued" /\ cancelled
        /\ pc' = "done"
        /\ UNCHANGED <<request, todo, wire, deltas, status, committed, cancelled, broken>>

Take == /\ pc = "queued" /\ ~cancelled
        /\ pc' = "route"
        /\ UNCHANGED <<request, todo, wire, deltas, status, committed, cancelled, broken>>

Fail(code) == pc' = "error" /\ status' = code

\* A bad body, an unknown route, a missing response: prepare, resolve, ....
Refuse == /\ pc = "route"
          /\ Fail(400)
          /\ UNCHANGED <<request, todo, wire, deltas, committed, cancelled, broken>>

Route == /\ pc = "route"
         /\ pc' = CASE request.api = "other" -> "body"
                    [] request.api # "other" /\ request.mode = "json" -> "generate"
                    [] OTHER -> "headers"
         /\ UNCHANGED <<request, todo, wire, deltas, status, committed, cancelled, broken>>

\* The events before the first token.
Opening == CASE Chat -> <<"role">>
             [] ~Chat /\ request.mode = "stream" ->
                  <<"created", "in_progress", "item.added", "part.added">>
             [] OTHER -> <<"created", "in_progress">>

Headers ==
  /\ pc = "headers"
  /\ \E outcome \in Outcomes :
       /\ Put("headers", outcome)
       /\ IF outcome = "whole"
          THEN pc' = "opening" /\ todo' = Opening /\ UNCHANGED status
          ELSE Fail(500) /\ UNCHANGED todo
  /\ UNCHANGED <<request, deltas, committed, cancelled>>

\* What the handler does when its list of events is written.
AfterEvents == CASE pc = "opening" -> "generate"
                 [] pc = "closing" -> "commit"
                 [] pc \in {"failing", "ending"} -> "done"

\* The error path of a chat stream ignores what its writes return.
Insists == Chat /\ pc = "failing"

WriteNext ==
  /\ pc \in {"opening", "closing", "failing", "ending"}
  /\ \E outcome \in Outcomes :
       /\ Put(Head(todo), outcome)
       /\ IF outcome = "whole" \/ Insists
          THEN /\ todo' = Tail(todo)
               /\ pc' = IF Tail(todo) = <<>> THEN AfterEvents ELSE pc
          ELSE pc' = "done" /\ todo' = <<>>
  /\ UNCHANGED <<request, deltas, status, committed, cancelled>>

\* The text callback of a stream; refused text stops the generation.
WriteDelta ==
  /\ pc = "generate" /\ request.mode = "stream" /\ deltas < MaxDeltas
  /\ deltas' = deltas + 1
  /\ \E outcome \in Outcomes :
       /\ Put("delta", outcome)
       /\ pc' = IF outcome = "whole" THEN "generate" ELSE "refused"
  /\ UNCHANGED <<request, todo, status, committed, cancelled>>

\* The error events of a stream (write_failure_events; error.body and [DONE]).
Failing == IF Chat THEN <<"error", "done">> ELSE <<"error", "failed">>

\* A generation the callback stopped ends the handler, with nothing committed;
\* one that turns the refusal into an error, or whose text does not parse,
\* tries to tell the client.
Refused ==
  /\ pc = "refused"
  /\ \/ pc' = "done" /\ UNCHANGED todo
     \/ pc' = "failing" /\ todo' = Failing
  /\ UNCHANGED <<request, wire, deltas, status, committed, cancelled, broken>>

\* A plausible slip: the stream of a failed generation has no last event.
FailsSilently ==
  /\ pc = "generate"
  /\ IF request.mode = "json"
     THEN UNCHANGED todo /\ \E code \in {499, 500} : (code = 499 => cancelled) /\ Fail(code)
     ELSE pc' = "failing" /\ todo' = <<"error">> /\ UNCHANGED status
  /\ UNCHANGED <<request, wire, deltas, committed, cancelled, broken>>

\* run_generation returned an error: an ApiError before the first byte, events
\* after it.
GenerationFails ==
  /\ pc = "generate"
  /\ IF request.mode = "json"
     THEN UNCHANGED todo /\ \E code \in {499, 500} : (code = 499 => cancelled) /\ Fail(code)
     ELSE pc' = "failing" /\ todo' = Failing /\ UNCHANGED status
  /\ UNCHANGED <<request, wire, deltas, committed, cancelled, broken>>

\* The events after the text; a chat stream has no store's verdict to wait for.
Closing == CASE Chat -> <<"final", "done">>
             [] ~Chat /\ request.mode = "stream" -> <<"text.done", "part.done", "item.done">>
             [] OTHER -> <<"item.added", "item.done">>

GenerationEnds ==
  /\ pc = "generate"
  /\ IF request.mode = "json"
     THEN pc' = (IF Chat THEN "body" ELSE "commit") /\ UNCHANGED todo
     ELSE pc' = (IF Chat THEN "ending" ELSE "closing") /\ todo' = Closing
  /\ UNCHANGED <<request, wire, deltas, status, committed, cancelled, broken>>

\* The token is tested once more, then the store decides, then the client is
\* told.
CommitCancelled ==
  /\ pc = "commit" /\ cancelled
  /\ Fail(499)
  /\ UNCHANGED <<request, todo, wire, deltas, committed, cancelled, broken>>

Commit ==
  /\ pc = "commit" /\ ~cancelled
  /\ committed' = TRUE
  /\ IF request.mode = "json" THEN pc' = "body" /\ UNCHANGED todo
     ELSE pc' = "ending" /\ todo' = <<"completed">>
  /\ UNCHANGED <<request, wire, deltas, status, cancelled, broken>>

\* A plausible slip: the verdict of the store is not looked at.
RefusalStillCompletes ==
  /\ pc = "commit" /\ ~cancelled
  /\ IF request.mode = "json" THEN Fail(400) /\ UNCHANGED todo
     ELSE pc' = "ending" /\ todo' = <<"completed">> /\ UNCHANGED status
  /\ UNCHANGED <<request, wire, deltas, committed, cancelled, broken>>

\* A plausible slip: an error after the events leaves through worker_loop.
CommitErrorReplies ==
  /\ pc = "commit" /\ ~cancelled
  /\ Fail(400) /\ UNCHANGED todo
  /\ UNCHANGED <<request, wire, deltas, committed, cancelled, broken>>

CommitRefused ==
  /\ pc = "commit" /\ ~cancelled
  /\ IF request.mode = "json" THEN Fail(400) /\ UNCHANGED todo
     ELSE pc' = "failing" /\ todo' = Failing /\ UNCHANGED status
  /\ UNCHANGED <<request, wire, deltas, committed, cancelled, broken>>

WriteBody ==
  /\ pc = "body"
  /\ \E outcome \in Outcomes :
       /\ Put("200", outcome)
       /\ IF outcome = "whole" THEN pc' = "done" /\ UNCHANGED status ELSE Fail(500)
  /\ UNCHANGED <<request, todo, deltas, committed, cancelled>>

\* worker_loop: whatever the handler had written, an error that is no
\* cancellation is answered with a status line of its own.
Answers == status # 499 /\ ~cancelled

WriteError ==
  /\ pc = "error"
  /\ IF Answers THEN \E outcome \in Outcomes : Put("error reply", outcome)
     ELSE UNCHANGED <<wire, broken>>
  /\ pc' = "done"
  /\ UNCHANGED <<request, todo, deltas, status, committed, cancelled>>

\* The monitor sees the client go, or the server stops.
Cancel == /\ ~cancelled /\ pc # "done"
          /\ cancelled' = TRUE
          /\ UNCHANGED <<request, pc, todo, wire, deltas, status, committed, broken>>

Terminated == pc = "done" /\ UNCHANGED vars

Next == \/ Drop \/ Take \/ Refuse \/ Route \/ Headers \/ WriteNext
        \/ WriteDelta \/ Refused \/ GenerationFails \/ GenerationEnds \/ CommitCancelled \/ Commit
        \/ CommitRefused \/ WriteBody \/ WriteError \/ Cancel \/ Terminated
Spec == Init /\ [][Next]_vars

-----------------------------------------------------------------------------
(* Properties. *)

Wrote(item) == \E i \in 1..Len(wire) : wire[i].what = item /\ wire[i].whole

StatusLines == {"headers", "200", "error reply"}
LastWords == {"200", "error reply", "completed", "failed", "done"}

\* A second status line comes only where the reply before it broke off: a
\* client that has a whole reply, or a stream it can still parse, never finds
\* another status line in it (worker_loop answers an error without looking at
\* what the handler has written).
NoReplyInsideAReply ==
  \A i \in 2..Len(wire) : wire[i].what \in StatusLines => ~wire[i - 1].whole

\* A Responses client reads of success only after the store took the response,
\* and of failure in its stream only when the store did not: the last event
\* follows the verdict of commit.
ToldWhatWasCommitted ==
  request.api = "responses" =>
    /\ Wrote("200") \/ Wrote("completed") => committed
    /\ Wrote("failed") => ~committed

\* Unless a write failed or the request was cancelled, the client hears how it
\* ended: the last thing it reads is a whole reply or its stream's last event.
EveryReplyEnds ==
  pc = "done" /\ ~broken /\ ~cancelled =>
    wire # <<>> /\ wire[Len(wire)].what \in LastWords
=============================================================================
