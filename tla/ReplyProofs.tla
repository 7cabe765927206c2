----------------------------- MODULE ReplyProofs -----------------------------
(* Proofs of Reply's properties, for any number of pieces of text.  Each rests *)
(* on what the place of the handler says of what it has written: nothing yet,  *)
(* an open stream, or a reply that broke off.                                  *)
EXTENDS Reply, TLAPS

EventNames == {"role", "created", "in_progress", "item.added", "part.added", "delta",
               "text.done", "part.done", "item.done", "final", "done", "completed",
               "error", "failed"}
Words == StatusLines \cup EventNames
Item == [what : Words, whole : BOOLEAN]

Places == {"queued", "route", "headers", "body", "generate", "commit", "refused",
           "opening", "closing", "failing", "ending", "error", "done"}

OneReply(w) == \A i \in 2..Len(w) : w[i].what \in StatusLines => ~w[i - 1].whole
Reads(w, x) == \E i \in 1..Len(w) : w[i].what = x /\ w[i].whole
Ended(w) == w # <<>> => ~w[Len(w)].whole

Types ==
  /\ request \in Requests
  /\ pc \in Places
  /\ wire \in Seq(Item)
  /\ todo \in Seq(EventNames)
  /\ committed \in BOOLEAN /\ cancelled \in BOOLEAN /\ broken \in BOOLEAN

\* Where a handler has events to write, and which.
Events ==
  /\ \A i \in 1..Len(todo) : todo[i] \notin StatusLines
  /\ pc \in {"opening", "closing", "failing", "ending"} => todo # <<>>
  /\ pc \in {"failing", "ending"} => todo[Len(todo)] \in LastWords
  /\ \A i \in 1..Len(todo) : todo[i] = "completed" => pc = "ending" /\ committed
  /\ \A i \in 1..Len(todo) : todo[i] = "failed" => pc = "failing" /\ ~committed

\* What has been written where a status line may still follow.
Fresh ==
  /\ pc \in {"queued", "route", "headers", "body"} => wire = <<>>
  /\ request.mode = "json" /\ pc \in {"generate", "commit"} => wire = <<>>
  /\ pc = "error" /\ status # 499 => Ended(wire)
  /\ pc \in {"headers", "opening", "closing"} => request.mode # "json"

\* What the store's verdict and the token have to do with the place.
Verdict ==
  /\ request.api = "responses" /\ pc = "body" => committed
  /\ committed => pc \in {"body", "ending", "error", "done"}
  /\ Reads(wire, "failed") => pc \in {"failing", "done"}
  /\ pc = "refused" => broken
  /\ pc = "error" /\ status = 499 => cancelled

Told == request.api = "responses" =>
          /\ Reads(wire, "200") \/ Reads(wire, "completed") => committed
          /\ Reads(wire, "failed") => ~committed

IInv == /\ Types /\ Events /\ Fresh /\ Verdict
        /\ OneReply(wire) /\ Told /\ EveryReplyEnds

-----------------------------------------------------------------------------

\* An event in an open stream, or anything after a reply that broke off, leaves
\* no status line behind a whole item (the writers of http.rs).
LEMMA AppendKeepsOneReply ==
  ASSUME NEW w \in Seq(Item), NEW it \in Item, OneReply(w),
         it.what \notin StatusLines \/ Ended(w)
  PROVE  OneReply(Append(w, it))
<1> DEFINE v == Append(w, it)
<1>1. /\ Len(v) = Len(w) + 1 /\ Len(w) \in Nat
      /\ \A i \in 1..Len(w) : v[i] = w[i]
      /\ v[Len(w) + 1] = it
  OBVIOUS
<1> HIDE DEF v
<1> SUFFICES ASSUME NEW i \in 2..Len(v), v[i].what \in StatusLines
             PROVE  ~v[i - 1].whole
  BY DEF OneReply, v
<1>2. CASE i <= Len(w)
  BY <1>1, <1>2 DEF OneReply
<1>3. CASE i = Len(w) + 1
  <2>1. Ended(w) /\ Len(w) >= 1
    BY <1>1, <1>3
  <2>2. w # <<>> /\ v[i - 1] = w[Len(w)]
    BY <1>1, <1>3, <2>1
  <2> QED BY <2>1, <2>2 DEF Ended
<1> QED BY <1>1, <1>2, <1>3

\* What was read stays read, and only the item being written is new.
LEMMA AppendReads ==
  ASSUME NEW w \in Seq(Item), NEW it \in Item, NEW x, Reads(Append(w, it), x)
  PROVE  Reads(w, x) \/ (it.what = x /\ it.whole)
<1> DEFINE v == Append(w, it)
<1>1. /\ Len(v) = Len(w) + 1 /\ Len(w) \in Nat
      /\ \A i \in 1..Len(w) : v[i] = w[i]
      /\ v[Len(w) + 1] = it
  OBVIOUS
<1> HIDE DEF v
<1>2. PICK i \in 1..Len(v) : v[i].what = x /\ v[i].whole
  BY DEF Reads, v
<1>3. CASE i \in 1..Len(w)
  BY <1>1, <1>2, <1>3 DEF Reads
<1>4. CASE i = Len(w) + 1
  BY <1>1, <1>2, <1>4
<1> QED BY <1>1, <1>2, <1>3, <1>4

\* An item cut short breaks its reply off.
LEMMA AppendEnds ==
  ASSUME NEW w \in Seq(Item), NEW it \in Item
  PROVE  /\ Append(w, it) \in Seq(Item) /\ Append(w, it) # <<>>
         /\ Append(w, it)[Len(Append(w, it))] = it
OBVIOUS

\* What a write does to the stream (Put), for each of its outcomes.
LEMMA PutOutcomes ==
  ASSUME NEW item \in Words, NEW outcome \in Outcomes, Put(item, outcome), Types
  PROVE  /\ wire' \in Seq(Item) /\ broken' \in BOOLEAN
         /\ broken => broken'
         /\ outcome # "whole" => broken' /\ (Ended(wire) => Ended(wire'))
         /\ outcome = "whole" => wire' # <<>> /\ wire'[Len(wire')].what = item
         /\ OneReply(wire) /\ (item \notin StatusLines \/ Ended(wire)) => OneReply(wire')
         /\ \A x : Reads(wire', x) => Reads(wire, x) \/ (item = x /\ outcome = "whole")
<1>1. broken' \in BOOLEAN /\ (broken => broken') /\ (outcome # "whole" => broken')
  BY Zenon DEF Put, Types
<1>2. CASE outcome = "none"
  BY <1>1, <1>2 DEF Put, Types
<1>3. CASE outcome # "none"
  <2> DEFINE it == [what |-> item, whole |-> outcome = "whole"]
  <2>1. it \in Item
    BY Zenon DEF Item
  <2>2. wire' = Append(wire, it) /\ wire \in Seq(Item)
    BY <1>3 DEF Put, Types
  <2>3. it.what = item /\ (it.whole <=> outcome = "whole")
    BY Zenon
  <2> HIDE DEF it
  <2>4. wire' \in Seq(Item) /\ wire' # <<>> /\ wire'[Len(wire')] = it
    BY <2>1, <2>2, AppendEnds
  <2>5. outcome # "whole" => Ended(wire')
    BY <2>3, <2>4 DEF Ended
  <2>6. OneReply(wire) /\ (item \notin StatusLines \/ Ended(wire)) => OneReply(wire')
    BY <2>1, <2>2, <2>3, AppendKeepsOneReply
  <2>7. \A x : Reads(wire', x) => Reads(wire, x) \/ (item = x /\ outcome = "whole")
    BY <2>1, <2>2, <2>3, AppendReads
  <2> QED BY <1>1, <2>3, <2>4, <2>5, <2>6, <2>7
<1> QED BY <1>2, <1>3

-----------------------------------------------------------------------------

\* The lists of events the handlers write, and the words they end with.
Listed(t, absent) ==
  /\ t \in Seq(EventNames) /\ t # <<>>
  /\ \A i \in 1..Len(t) : t[i] \notin StatusLines \cup absent

\* A list of one such event.
LEMMA ListOfOne ==
  ASSUME NEW absent, NEW a \in EventNames,
         {a} \cap (StatusLines \cup absent) = {}
  PROVE  Listed(<<a>>, absent) /\ <<a>>[Len(<<a>>)] = a
<1> DEFINE t == <<a>>
<1>1. t \in Seq(EventNames) /\ Len(t) = 1 /\ t[1] = a
  OBVIOUS
<1> HIDE DEF t
<1>2. \A i \in 1..1 : i = 1
  OBVIOUS
<1>3. \A i \in 1..Len(t) : t[i] \notin StatusLines \cup absent
  BY <1>1, <1>2
<1> QED BY <1>1, <1>3 DEF Listed, t

\* A list of two such events.
LEMMA ListOfTwo ==
  ASSUME NEW absent, NEW a \in EventNames, NEW b \in EventNames,
         {a, b} \cap (StatusLines \cup absent) = {}
  PROVE  Listed(<<a, b>>, absent) /\ <<a, b>>[Len(<<a, b>>)] = b
<1> DEFINE t == <<a, b>>
<1>1. t \in Seq(EventNames) /\ Len(t) = 2 /\ t[1] = a /\ t[2] = b
  OBVIOUS
<1> HIDE DEF t
<1>2. \A i \in 1..2 : i = 1 \/ i = 2
  OBVIOUS
<1>3. \A i \in 1..Len(t) : t[i] \notin StatusLines \cup absent
  BY <1>1, <1>2
<1> QED BY <1>1, <1>3 DEF Listed, t

\* A list of three such events.
LEMMA ListOfThree ==
  ASSUME NEW absent, NEW a \in EventNames, NEW b \in EventNames, NEW c \in EventNames,
         {a, b, c} \cap (StatusLines \cup absent) = {}
  PROVE  Listed(<<a, b, c>>, absent) /\ <<a, b, c>>[Len(<<a, b, c>>)] = c
<1> DEFINE t == <<a, b, c>>
<1>1. t \in Seq(EventNames) /\ Len(t) = 3 /\ t[1] = a /\ t[2] = b /\ t[3] = c
  OBVIOUS
<1> HIDE DEF t
<1>2. \A i \in 1..3 : i = 1 \/ i = 2 \/ i = 3
  OBVIOUS
<1>3. \A i \in 1..Len(t) : t[i] \notin StatusLines \cup absent
  BY <1>1, <1>2
<1> QED BY <1>1, <1>3 DEF Listed, t

\* A list of four such events.
LEMMA ListOfFour ==
  ASSUME NEW absent, NEW a \in EventNames, NEW b \in EventNames, NEW c \in EventNames, NEW d \in EventNames,
         {a, b, c, d} \cap (StatusLines \cup absent) = {}
  PROVE  Listed(<<a, b, c, d>>, absent) /\ <<a, b, c, d>>[Len(<<a, b, c, d>>)] = d
<1> DEFINE t == <<a, b, c, d>>
<1>1. t \in Seq(EventNames) /\ Len(t) = 4 /\ t[1] = a /\ t[2] = b /\ t[3] = c /\ t[4] = d
  OBVIOUS
<1> HIDE DEF t
<1>2. \A i \in 1..4 : i = 1 \/ i = 2 \/ i = 3 \/ i = 4
  OBVIOUS
<1>3. \A i \in 1..Len(t) : t[i] \notin StatusLines \cup absent
  BY <1>1, <1>2
<1> QED BY <1>1, <1>3 DEF Listed, t

\* What the error path of a stream writes ends it, and is no success.
LEMMA FailingEvents == Listed(Failing, {"completed"}) /\ Failing[Len(Failing)] \in LastWords
<1>1. /\ {"error", "done"} \cap (StatusLines \cup {"completed"}) = {}
      /\ {"error", "failed"} \cap (StatusLines \cup {"completed"}) = {}
  BY DEF StatusLines
<1>2. "done" \in LastWords /\ "failed" \in LastWords
  BY DEF LastWords
<1>3. CASE Chat
  <2>1. Failing = <<"error", "done">>
    BY <1>3, Zenon DEF Failing
  <2>2. {"error", "done"} \subseteq EventNames
    BY DEF EventNames
  <2> QED BY <1>3, <1>1, <1>2, <2>1, <2>2, ListOfTwo
<1>4. CASE ~Chat
  <2>1. Failing = <<"error", "failed">>
    BY <1>4, Zenon DEF Failing
  <2>2. {"error", "failed"} \subseteq EventNames
    BY DEF EventNames
  <2> QED BY <1>4, <1>1, <1>2, <2>1, <2>2, ListOfTwo
<1> QED BY <1>3, <1>4

\* The events before the first token say nothing of an outcome.
LEMMA OpeningEvents == Listed(Opening, {"completed", "failed"})
<1> DEFINE absent == {"completed", "failed"}
<1>1. /\ {"role"} \cap (StatusLines \cup absent) = {}
      /\ {"created", "in_progress"} \cap (StatusLines \cup absent) = {}
      /\ {"created", "in_progress", "item.added", "part.added"} \cap (StatusLines \cup absent) = {}
  BY DEF StatusLines
<1> HIDE DEF absent
<1>2. CASE Chat
  <2>1. Opening = <<"role">>
    BY <1>2, Zenon DEF Opening
  <2>2. {"role"} \subseteq EventNames
    BY DEF EventNames
  <2> QED BY <1>2, <1>1, <2>1, <2>2, ListOfOne DEF absent
<1>3. CASE ~Chat /\ request.mode = "stream"
  <2>1. Opening = <<"created", "in_progress", "item.added", "part.added">>
    BY <1>3, Zenon DEF Opening
  <2>2. {"created", "in_progress", "item.added", "part.added"} \subseteq EventNames
    BY DEF EventNames
  <2> QED BY <1>3, <1>1, <2>1, <2>2, ListOfFour DEF absent
<1>4. CASE ~Chat /\ request.mode # "stream"
  <2>1. Opening = <<"created", "in_progress">>
    BY <1>4, Zenon DEF Opening
  <2>2. {"created", "in_progress"} \subseteq EventNames
    BY DEF EventNames
  <2> QED BY <1>4, <1>1, <2>1, <2>2, ListOfTwo DEF absent
<1> QED BY <1>2, <1>3, <1>4

\* The events after the text end a chat stream, and only that.
LEMMA ClosingEvents == /\ Listed(Closing, {"completed", "failed"})
                       /\ Chat => Closing[Len(Closing)] \in LastWords
<1> DEFINE absent == {"completed", "failed"}
<1>1. /\ {"final", "done"} \cap (StatusLines \cup absent) = {}
      /\ {"item.added", "item.done"} \cap (StatusLines \cup absent) = {}
      /\ {"text.done", "part.done", "item.done"} \cap (StatusLines \cup absent) = {}
      /\ "done" \in LastWords
  BY DEF StatusLines, LastWords
<1> HIDE DEF absent
<1>2. CASE Chat
  <2>1. Closing = <<"final", "done">>
    BY <1>2, Zenon DEF Closing
  <2>2. {"final", "done"} \subseteq EventNames
    BY DEF EventNames
  <2> QED BY <1>2, <1>1, <2>1, <2>2, ListOfTwo DEF absent
<1>3. CASE ~Chat /\ request.mode = "stream"
  <2>1. Closing = <<"text.done", "part.done", "item.done">>
    BY <1>3, Zenon DEF Closing
  <2>2. {"text.done", "part.done", "item.done"} \subseteq EventNames
    BY DEF EventNames
  <2> QED BY <1>3, <1>1, <2>1, <2>2, ListOfThree DEF absent
<1>4. CASE ~Chat /\ request.mode # "stream"
  <2>1. Closing = <<"item.added", "item.done">>
    BY <1>4, Zenon DEF Closing
  <2>2. {"item.added", "item.done"} \subseteq EventNames
    BY DEF EventNames
  <2> QED BY <1>4, <1>1, <2>1, <2>2, ListOfTwo DEF absent
<1> QED BY <1>2, <1>3, <1>4

\* The verdict of the store is one event, the last.
LEMMA CompletedEvent == /\ Listed(<<"completed">>, {"failed"})
                        /\ <<"completed">>[Len(<<"completed">>)] \in LastWords
<1>1. {"completed"} \cap (StatusLines \cup {"failed"}) = {} /\ "completed" \in LastWords
  BY DEF StatusLines, LastWords
<1> QED BY <1>1, ListOfOne DEF EventNames

\* The invariant holds before the request is taken.
LEMMA ReplyStarts == Init => IInv
<1> SUFFICES ASSUME Init PROVE IInv
  OBVIOUS
<1>1. \A x : ~Reads(wire, x)
  BY DEF Init, Reads
<1>2. Types
  <2>1. wire \in Seq(Item) /\ todo \in Seq(EventNames)
    BY DEF Init
  <2>2. request \in Requests /\ pc \in Places
    BY DEF Init, Places
  <2>3. committed \in BOOLEAN /\ cancelled \in BOOLEAN /\ broken \in BOOLEAN
    BY DEF Init
  <2> QED BY <2>1, <2>2, <2>3 DEF Types
<1>3. Events
  BY DEF Init, Events
<1>4. Fresh
  BY DEF Init, Fresh
<1>5. Verdict
  BY <1>1 DEF Init, Verdict
<1>6. OneReply(wire)
  BY DEF Init, OneReply
<1>7. Told /\ EveryReplyEnds
  BY <1>1 DEF Init, Told, EveryReplyEnds
<1> QED BY <1>2, <1>3, <1>4, <1>5, <1>6, <1>7 DEF IInv

\* The steps that write nothing: routing, the generation's end, the store's
\* verdict and the cancellation.
LEMMA QuietSteps ==
  ASSUME IInv,
         \/ Drop \/ Take \/ Refuse \/ Route \/ Refused \/ GenerationFails
         \/ GenerationEnds \/ CommitCancelled \/ Commit \/ CommitRefused
         \/ Cancel \/ UNCHANGED vars
  PROVE  IInv'
<1> USE DEF IInv
<1>0. wire' = wire /\ request' = request
  BY DEF Drop, Take, Refuse, Route, Refused, GenerationFails, GenerationEnds,
         CommitCancelled, Commit, CommitRefused, Cancel, vars
<1>1. CASE Drop
  BY <1>0, <1>1 DEF Drop, Types, Places, Events, Fresh, Verdict, Told, EveryReplyEnds
<1>2. CASE Take
  BY <1>0, <1>2 DEF Take, Types, Places, Events, Fresh, Verdict, Told, EveryReplyEnds
<1>3. CASE Refuse
  BY <1>0, <1>3 DEF Refuse, Fail, Types, Places, Events, Fresh, Verdict, Told, EveryReplyEnds, Ended
<1>4. CASE Route
  BY <1>0, <1>4 DEF Route, Types, Requests, Places, Events, Fresh, Verdict, Told, EveryReplyEnds
<1>5. CASE Refused
  BY <1>0, <1>5, FailingEvents DEF Refused, Listed, Types, Places, Events, Fresh, Verdict, Told, EveryReplyEnds
<1>6. CASE GenerationFails
  BY <1>0, <1>6, FailingEvents DEF GenerationFails, Fail, Listed, Types, Places, Events, Fresh, Verdict, Told, EveryReplyEnds, Ended
<1>7. CASE GenerationEnds
  BY <1>0, <1>7, ClosingEvents DEF GenerationEnds, Listed, Chat, Types, Places, Events, Fresh, Verdict, Told, EveryReplyEnds
<1>8. CASE CommitCancelled
  BY <1>0, <1>8 DEF CommitCancelled, Fail, Types, Places, Events, Fresh, Verdict, Told, EveryReplyEnds
<1>9. CASE Commit
  BY <1>0, <1>9, CompletedEvent DEF Commit, Listed, Types, Places, Events, Fresh, Verdict, Told, EveryReplyEnds
<1>10. CASE CommitRefused
  BY <1>0, <1>10, FailingEvents DEF CommitRefused, Fail, Listed, Types, Places, Events, Fresh, Verdict, Told, EveryReplyEnds, Ended
<1>11. CASE Cancel
  BY <1>0, <1>11 DEF Cancel, Types, Places, Events, Fresh, Verdict, Told, EveryReplyEnds
<1>12. CASE UNCHANGED vars
  BY <1>0, <1>12 DEF vars, Types, Places, Events, Fresh, Verdict, Told, EveryReplyEnds
<1> QED BY <1>1, <1>2, <1>3, <1>4, <1>5, <1>6, <1>7, <1>8, <1>9, <1>10, <1>11, <1>12
\* What a write leaves of the invariant's parts about the stream, the item's
\* place given.
LEMMA WritesTell ==
  ASSUME IInv, NEW item \in Words, NEW outcome \in Outcomes, Put(item, outcome),
         request' = request, committed' = committed,
         request.api = "responses" /\ item \in {"200", "completed"} => committed,
         request.api = "responses" /\ item = "failed" => ~committed
  PROVE  Told'
<1>1. \A x : Reads(wire', x) => Reads(wire, x) \/ (item = x /\ outcome = "whole")
  BY PutOutcomes DEF IInv
<1> QED BY <1>1 DEF IInv, Told

\* The response's headers: the first thing written, or the reason for an error
\* reply.
LEMMA HeadersStep == ASSUME IInv, Headers PROVE IInv'
<1> USE DEF IInv
<1>1. PICK outcome \in Outcomes :
        /\ Put("headers", outcome)
        /\ IF outcome = "whole"
           THEN pc' = "opening" /\ todo' = Opening /\ UNCHANGED status
           ELSE Fail(500) /\ UNCHANGED todo
  BY DEF Headers
<1>2. /\ pc = "headers" /\ request' = request /\ committed' = committed
      /\ cancelled' = cancelled /\ wire = <<>> /\ Ended(wire)
  BY DEF Headers, Fresh, Ended
<1>3. "headers" \in Words
  BY DEF Words, StatusLines
<1>4. /\ wire' \in Seq(Item) /\ broken' \in BOOLEAN /\ OneReply(wire')
      /\ outcome # "whole" => broken' /\ Ended(wire')
      /\ \A x : Reads(wire', x) => Reads(wire, x) \/ (x = "headers" /\ outcome = "whole")
  BY <1>1, <1>2, <1>3, PutOutcomes
<1>5. Told'
  BY <1>1, <1>2, <1>3, WritesTell
<1>6. ~Reads(wire', "failed")
  BY <1>2, <1>4 DEF Verdict
<1>7. CASE outcome = "whole"
  <2>1. Types'
    BY <1>1, <1>2, <1>4, <1>7, OpeningEvents DEF Types, Places, Listed
  <2>2. Events'
    BY <1>1, <1>2, <1>7, OpeningEvents DEF Listed, Events
  <2>3. Fresh' /\ Verdict' /\ EveryReplyEnds'
    BY <1>1, <1>2, <1>6, <1>7 DEF Fresh, Verdict, EveryReplyEnds
  <2> QED BY <1>4, <1>5, <2>1, <2>2, <2>3
<1>8. CASE outcome # "whole"
  <2>1. Types'
    BY <1>1, <1>2, <1>4, <1>8 DEF Types, Places, Fail
  <2>2. Events'
    BY <1>1, <1>2, <1>8 DEF Events, Fail
  <2>3. Fresh' /\ Verdict' /\ EveryReplyEnds'
    BY <1>1, <1>2, <1>4, <1>6, <1>8 DEF Fresh, Verdict, EveryReplyEnds, Fail
  <2> QED BY <1>4, <1>5, <2>1, <2>2, <2>3
<1> QED BY <1>7, <1>8

\* A whole JSON reply, of a chat completion, a response or the store.
LEMMA BodyStep == ASSUME IInv, WriteBody PROVE IInv'
<1> USE DEF IInv
<1>1. PICK outcome \in Outcomes :
        /\ Put("200", outcome)
        /\ IF outcome = "whole" THEN pc' = "done" /\ UNCHANGED status ELSE Fail(500)
  BY DEF WriteBody
<1>2. /\ pc = "body" /\ request' = request /\ committed' = committed /\ todo' = todo
      /\ cancelled' = cancelled /\ wire = <<>> /\ Ended(wire)
  BY DEF WriteBody, Fresh, Ended
<1>3. "200" \in Words /\ "200" \in LastWords
  BY DEF Words, StatusLines, LastWords
<1>4. /\ wire' \in Seq(Item) /\ broken' \in BOOLEAN /\ OneReply(wire')
      /\ outcome # "whole" => broken' /\ Ended(wire')
      /\ outcome = "whole" => wire' # <<>> /\ wire'[Len(wire')].what = "200"
      /\ \A x : Reads(wire', x) => Reads(wire, x) \/ (x = "200" /\ outcome = "whole")
  BY <1>1, <1>2, <1>3, PutOutcomes
<1>5. Told'
  BY <1>1, <1>2, <1>3, WritesTell DEF Verdict
<1>6. ~Reads(wire', "failed")
  BY <1>2, <1>4 DEF Verdict
<1>7. Types'
  BY <1>1, <1>2, <1>4 DEF Types, Places, Fail
<1>8. Events'
  BY <1>1, <1>2 DEF Events, Fail
<1>9. Fresh' /\ Verdict' /\ EveryReplyEnds'
  BY <1>1, <1>2, <1>3, <1>4, <1>6 DEF Fresh, Verdict, EveryReplyEnds, Fail
<1> QED BY <1>4, <1>5, <1>7, <1>8, <1>9

\* A piece of text in an open stream.
LEMMA DeltaStep == ASSUME IInv, WriteDelta PROVE IInv'
<1> USE DEF IInv
<1>1. PICK outcome \in Outcomes :
        /\ Put("delta", outcome)
        /\ pc' = IF outcome = "whole" THEN "generate" ELSE "refused"
  BY DEF WriteDelta
<1>2. /\ pc = "generate" /\ request.mode = "stream" /\ request' = request
      /\ committed' = committed /\ todo' = todo /\ cancelled' = cancelled /\ status' = status
  BY DEF WriteDelta
<1>3. "delta" \in Words /\ "delta" \notin StatusLines
  BY DEF Words, StatusLines, EventNames
<1>4. /\ wire' \in Seq(Item) /\ broken' \in BOOLEAN /\ OneReply(wire')
      /\ outcome # "whole" => broken'
      /\ \A x : Reads(wire', x) => Reads(wire, x) \/ (x = "delta" /\ outcome = "whole")
  BY <1>1, <1>2, <1>3, PutOutcomes
<1>5. Told'
  BY <1>1, <1>2, <1>3, WritesTell
<1>6. ~Reads(wire', "failed")
  BY <1>2, <1>4 DEF Verdict
<1>7. Types'
  BY <1>1, <1>2, <1>4 DEF Types, Places
<1>8. Events'
  BY <1>1, <1>2 DEF Events
<1>9. Fresh' /\ Verdict' /\ EveryReplyEnds'
  BY <1>1, <1>2, <1>4, <1>6 DEF Fresh, Verdict, EveryReplyEnds
<1> QED BY <1>4, <1>5, <1>7, <1>8, <1>9

\* The error reply of worker_loop.
LEMMA ErrorStep == ASSUME IInv, WriteError PROVE IInv'
<1> USE DEF IInv
<1>1. /\ pc = "error" /\ pc' = "done" /\ request' = request /\ committed' = committed
      /\ todo' = todo /\ cancelled' = cancelled
  BY DEF WriteError
<1>2. CASE Answers
  <2>1. PICK outcome \in Outcomes : Put("error reply", outcome)
    BY <1>2 DEF WriteError
  <2>2. Ended(wire)
    BY <1>1, <1>2 DEF Answers, Fresh
  <2>3. "error reply" \in Words /\ "error reply" \in LastWords
    BY DEF Words, StatusLines, LastWords
  <2>4. /\ wire' \in Seq(Item) /\ broken' \in BOOLEAN /\ OneReply(wire')
        /\ outcome # "whole" => broken'
        /\ outcome = "whole" => wire' # <<>> /\ wire'[Len(wire')].what = "error reply"
        /\ \A x : Reads(wire', x) => Reads(wire, x) \/ (x = "error reply" /\ outcome = "whole")
    BY <2>1, <2>2, <2>3, PutOutcomes
  <2>5. Told'
    BY <1>1, <2>1, <2>3, WritesTell
  <2>6. ~Reads(wire', "failed")
    <3>1. ~Reads(wire, "failed")
      BY <1>1 DEF Verdict
    <3>2. Reads(wire', "failed") => Reads(wire, "failed") \/ "failed" = "error reply"
      BY <2>4, Zenon
    <3> QED BY <3>1, <3>2
  <2>7. Types' /\ Events'
    BY <1>1, <2>4 DEF Types, Places, Events
  <2>8. Fresh' /\ EveryReplyEnds'
    BY <1>1, <2>3, <2>4 DEF Fresh, EveryReplyEnds
  <2>9. Verdict'
    BY <1>1, <2>6 DEF Verdict
  <2> QED BY <2>4, <2>5, <2>7, <2>8, <2>9
<1>3. CASE ~Answers
  <2>1. wire' = wire /\ broken' = broken
    BY <1>3 DEF WriteError
  <2>2. cancelled
    BY <1>1, <1>3, Zenon DEF Answers, Verdict
  <2>3. Types' /\ Events'
    BY <1>1, <2>1 DEF Types, Places, Events
  <2>4. Fresh' /\ Verdict' /\ EveryReplyEnds' /\ Told'
    BY <1>1, <2>1, <2>2 DEF Fresh, Verdict, EveryReplyEnds, Told
  <2> QED BY <2>1, <2>3, <2>4
<1> QED BY <1>2, <1>3
\* The first of one is the last.
LEMMA LastOfOne ==
  ASSUME NEW t \in Seq(EventNames), t # <<>>, Tail(t) = <<>>
  PROVE  Head(t) = t[Len(t)]
<1> DEFINE rest == Tail(t)
<1>1. Len(rest) = Len(t) - 1 /\ Len(t) \in Nat /\ Head(t) = t[1]
  OBVIOUS
<1> HIDE DEF rest
<1>2. rest = <<>>
  BY Zenon DEF rest
<1>3. Len(t) = 1
  BY <1>1, <1>2
<1> QED BY <1>1, <1>3

\* The next event of a list.  When the last one is out the list has said how
\* the request ended, or the handler goes on.
LEMMA EventStep == ASSUME IInv, WriteNext PROVE IInv'
<1> USE DEF IInv
<1> DEFINE item == Head(todo)
<1>1. PICK outcome \in Outcomes :
        /\ Put(item, outcome)
        /\ IF outcome = "whole" \/ Insists
           THEN /\ todo' = Tail(todo)
                /\ pc' = IF Tail(todo) = <<>> THEN AfterEvents ELSE pc
           ELSE pc' = "done" /\ todo' = <<>>
  BY DEF WriteNext
<1>2. /\ pc \in {"opening", "closing", "failing", "ending"} /\ request' = request
      /\ committed' = committed /\ cancelled' = cancelled /\ status' = status
  BY DEF WriteNext
<1>3. /\ todo \in Seq(EventNames) /\ todo # <<>> /\ Len(todo) \in Nat \ {0}
      /\ item = todo[1] /\ 1 \in 1..Len(todo)
  BY <1>2 DEF Types, Events
<1>4. /\ Tail(todo) \in Seq(EventNames) /\ Len(Tail(todo)) = Len(todo) - 1
      /\ \A i \in 1..Len(Tail(todo)) : Tail(todo)[i] = todo[i + 1]
  BY <1>3
<1>5. /\ item \in Words /\ item \notin StatusLines
      /\ item = "completed" => pc = "ending" /\ committed
      /\ item = "failed" => pc = "failing" /\ ~committed
  BY <1>3 DEF Words, Events
<1>6. item # "200"
  BY <1>5 DEF StatusLines
<1> HIDE DEF item
<1>7. /\ wire' \in Seq(Item) /\ broken' \in BOOLEAN /\ OneReply(wire')
      /\ broken => broken'
      /\ outcome # "whole" => broken'
      /\ outcome = "whole" => wire' # <<>> /\ wire'[Len(wire')].what = item
      /\ \A x : Reads(wire', x) => Reads(wire, x) \/ (x = item /\ outcome = "whole")
  BY <1>1, <1>5, PutOutcomes
<1>8. Told'
  BY <1>1, <1>2, <1>5, <1>6, WritesTell
<1>9. Reads(wire', "failed") => pc = "failing"
  BY <1>2, <1>5, <1>7 DEF Verdict
<1>10. CASE (outcome = "whole" \/ Insists) /\ Tail(todo) # <<>>
  <2>1. todo' = Tail(todo) /\ pc' = pc
    BY <1>1, <1>10
  <2>2. Len(Tail(todo)) \in Nat \ {0} /\ Tail(todo)[Len(Tail(todo))] = todo[Len(todo)]
    BY <1>3, <1>4, <1>10
  <2>3. Types'
    BY <1>2, <1>4, <1>7, <2>1 DEF Types
  <2>4. \A i \in 1..Len(Tail(todo)) : i + 1 \in 1..Len(todo)
    BY <1>3, <1>4
  <2>5. Events'
    BY <1>2, <1>4, <1>10, <2>1, <2>2, <2>4 DEF Events
  <2>6. Fresh' /\ Verdict' /\ EveryReplyEnds'
    BY <1>2, <1>9, <2>1 DEF Fresh, Verdict, EveryReplyEnds
  <2> QED BY <1>7, <1>8, <2>3, <2>5, <2>6
<1>11. CASE (outcome = "whole" \/ Insists) /\ Tail(todo) = <<>>
  <2>1. todo' = <<>> /\ pc' = AfterEvents
    BY <1>1, <1>11
  <2>2. /\ pc = "opening" => pc' = "generate"
        /\ pc = "closing" => pc' = "commit"
        /\ pc \in {"failing", "ending"} => pc' = "done"
    BY <2>1 DEF AfterEvents
  <2>3. item = todo[Len(todo)]
    BY <1>3, <1>11, LastOfOne DEF item
  <2>4. Types'
    BY <1>2, <1>7, <2>1, <2>2 DEF Types, Places
  <2>5. Events'
    BY <1>2, <2>1, <2>2 DEF Events
  <2>6. pc \in {"opening", "closing"} => request.mode # "json"
    BY DEF Fresh
  <2>7. Fresh'
    BY <1>2, <2>2, <2>6 DEF Fresh
  <2>8. Verdict'
    <3>1. pc' \in {"generate", "commit", "done"}
      BY <1>2, <2>2
    <3>2. Reads(wire', "failed") => pc' = "done"
      BY <1>9, <2>2
    <3>3. committed' => pc' = "done"
      BY <1>2, <2>2 DEF Verdict
    <3> QED BY <3>1, <3>2, <3>3 DEF Verdict
  <2>9. EveryReplyEnds'
    BY <1>2, <1>7, <2>2, <2>3 DEF EveryReplyEnds, Events
  <2> QED BY <1>7, <1>8, <2>4, <2>5, <2>7, <2>8, <2>9
<1>12. CASE ~(outcome = "whole" \/ Insists)
  <2>1. todo' = <<>> /\ pc' = "done" /\ broken'
    BY <1>1, <1>7, <1>12
  <2>2. Types' /\ Events'
    BY <1>2, <1>7, <2>1 DEF Types, Places, Events
  <2>3. Fresh' /\ Verdict' /\ EveryReplyEnds'
    BY <1>2, <1>9, <2>1 DEF Fresh, Verdict, EveryReplyEnds
  <2> QED BY <1>7, <1>8, <2>2, <2>3
<1> QED BY <1>10, <1>11, <1>12

-----------------------------------------------------------------------------

\* Every step keeps the invariant.
LEMMA ReplyGoesOn == IInv /\ [Next]_vars => IInv'
<1> SUFFICES ASSUME IInv, [Next]_vars PROVE IInv'
  OBVIOUS
<1> QED
  BY QuietSteps, HeadersStep, BodyStep, DeltaStep, ErrorStep, EventStep, Zenon
  DEF Next, Terminated

\* The inductive invariant holds throughout.
LEMMA ReplyInvariant == Spec => []IInv
BY ReplyStarts, ReplyGoesOn, PTL DEF Spec

\* The invariant gives the three properties.
LEMMA ReplyInvGives == IInv => NoReplyInsideAReply /\ ToldWhatWasCommitted /\ EveryReplyEnds
BY DEF IInv, OneReply, NoReplyInsideAReply, Told, Reads, Wrote, ToldWhatWasCommitted

\* Whatever write fails, and whenever the request is cancelled, no status line
\* follows a whole item (worker_loop's error reply, after any of the handlers).
THEOREM OneReplyPerRequest == Spec => []NoReplyInsideAReply
BY ReplyInvariant, ReplyInvGives, PTL

\* What a Responses client reads agrees with the verdict of commit.
THEOREM ClientsReadTheVerdict == Spec => []ToldWhatWasCommitted
BY ReplyInvariant, ReplyInvGives, PTL

\* A reply no failed write and no cancellation cut has its last words.
THEOREM RepliesHaveLastWords == Spec => []EveryReplyEnds
BY ReplyInvariant, ReplyInvGives, PTL
=============================================================================
