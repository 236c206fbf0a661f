----------------------------- MODULE BatchQueue -----------------------------
(***************************************************************************)
(* server/src/batch.rs: the queue that pools requests for Mistral's batch  *)
(* API, next to callers that hold slots of the same models.                *)
(*                                                                         *)
(* A submit selects a model, gives the slot back by a detached job, and    *)
(* puts an entry into the queue.  The flush task wakes when the window is  *)
(* over or when it is notified, takes the whole queue and starts one job   *)
(* per model, which ends with a result for each of its entries and, if any *)
(* tokens were used, a detached report_success for all of them, unless one *)
(* of its HTTP requests is never answered: none of them has a timeout.     *)
(*                                                                         *)
(* Abstracted: an entry is named by its client, who submits again only     *)
(* when the last one has its result; the vectors of the queue, one per     *)
(* model, are one sequence in the order of arrival; time (a window ends, a *)
(* job times out at any time); the blocks and windows that reports also    *)
(* write.                                                                  *)
(***************************************************************************)
EXTENDS Naturals, Sequences, FiniteSets

CONSTANTS
  Client,         \* workers that submit batch requests
  Caller,         \* workers of the regular flow
  Model, Key,
  Mistral,        \* the models of Mistral brands
  Cap,            \* max_in_flight of each model and key
  max_batch_size,
  MaxReports      \* bound: nobody submits with that many reports to run

ASSUME BatchAssumption ==
  /\ Mistral \subseteq Model /\ Cap \in [Model -> Nat] /\ max_batch_size \in Nat \ {0}
  /\ MaxReports \in Nat \ {0}

Bucket == Model \X Key

VARIABLES
  in_flight,    \* usage_tracker: the slots taken of each bucket
  releasing,    \* the detached reports of each bucket that have yet to run
  queue,        \* the entries: records [client, model, key]
  queue_lock,   \* who holds the queue's mutex: a client, or nobody
  permit,       \* flush_notify: a stored permit
  flusher,      \* the flush task: waiting, or why it woke
  jobs,         \* the model groups under way: the model, whose entries, the key of
                \* the first, and how far the job has come
  results,      \* what each client's entry has come to
  client,       \* where each client is
  caller        \* the bucket each caller holds a slot of

vars == <<in_flight, releasing, queue, queue_lock, permit, flusher, jobs, results,
          client, caller>>
slots == <<in_flight, releasing, caller>>
flushing == <<permit, flusher, jobs>>

Nobody == "nobody"
Idle == [pc |-> "idle"]
Become(c, o) == client' = [client EXCEPT ![c] = o]

Init ==
  /\ in_flight = [b \in Bucket |-> 0] /\ releasing = [b \in Bucket |-> 0]
  /\ queue = <<>> /\ queue_lock = Nobody
  /\ permit = FALSE /\ flusher = "waiting" /\ jobs = {}
  /\ results = [c \in Client |-> "none"]
  /\ client = [c \in Client |-> Idle]
  /\ caller = [u \in Caller |-> {}]

Free(b) == in_flight[b] < Cap[b[1]]
Take(b) == in_flight' = [in_flight EXCEPT ![b] = @ + 1]

(* saturating_fetch_sub: a counter at zero stays there. *)
Drop(b) == in_flight' = [in_flight EXCEPT ![b] = IF @ = 0 THEN 0 ELSE @ - 1]

Queued == Len(queue)
-----------------------------------------------------------------------------
(* A caller of the regular flow: one slot from select to report. *)
CallerSelects(u, b) ==
  /\ caller[u] = {} /\ Free(b)
  /\ Take(b)
  /\ caller' = [caller EXCEPT ![u] = {b}]
  /\ UNCHANGED <<releasing, queue, queue_lock, flushing, results, client>>

CallerReports(u, b) ==
  /\ caller[u] = {b}
  /\ Drop(b)
  /\ caller' = [caller EXCEPT ![u] = {}]
  /\ UNCHANGED <<releasing, queue, queue_lock, flushing, results, client>>
-----------------------------------------------------------------------------
Submit(c) ==
  /\ client[c] = Idle /\ \A b \in Bucket : releasing[b] < MaxReports
  /\ Become(c, [pc |-> "select"])
  /\ results' = [results EXCEPT ![c] = "none"]
  /\ UNCHANGED <<slots, queue, queue_lock, flushing>>

(* The select job gives the handler a candidate, or a 503. *)
Selected(c, b) ==
  /\ client[c].pc = "select" /\ Free(b)
  /\ Take(b)
  /\ Become(c, [pc |-> "selected", bucket |-> b])
  /\ UNCHANGED <<releasing, caller, queue, queue_lock, flushing, results>>

Unavailable(c) ==
  /\ client[c].pc = "select" /\ \A b \in Bucket : ~Free(b)
  /\ Become(c, Idle)
  /\ UNCHANGED <<slots, queue, queue_lock, flushing, results>>

(* A model of another brand is a 400, and its slot stays taken. *)
Refuse(c) ==
  /\ client[c].pc = "selected" /\ client[c].bucket[1] \notin Mistral
  /\ Become(c, Idle)
  /\ UNCHANGED <<slots, queue, queue_lock, flushing, results>>

(* Otherwise a detached report_error gives the slot back. *)
Accept(c) ==
  LET b == client[c].bucket IN
  /\ client[c].pc = "selected" /\ b[1] \in Mistral
  /\ releasing' = [releasing EXCEPT ![b] = @ + 1]
  /\ Become(c, [pc |-> "enqueue", bucket |-> b])
  /\ UNCHANGED <<in_flight, caller, queue, queue_lock, flushing, results>>

(* A plausible bug for mutation: the flush is asked for one entry too late. *)
ReachesMore(n) == n > max_batch_size

Reaches(n) == n >= max_batch_size

(* enqueue, under the lock: the entry is queued and, if there are enough of *)
(* them, the flush task notified.                                           *)
Enqueue(c) ==
  LET b == client[c].bucket IN
  /\ client[c].pc = "enqueue" /\ queue_lock = Nobody
  /\ queue' = Append(queue, [client |-> c, model |-> b[1], key |-> b[2]])
  /\ permit' = (permit \/ Reaches(Queued + 1))
  /\ queue_lock' = c
  /\ Become(c, [pc |-> "estimate"])
  /\ UNCHANGED <<slots, flusher, jobs, results>>

(* The time left in the window is read, and the client has its id. *)
Respond(c) ==
  /\ client[c].pc = "estimate"
  /\ queue_lock' = Nobody
  /\ Become(c, [pc |-> "polling"])
  /\ UNCHANGED <<slots, queue, flushing, results>>

(* handle_batch_result: pending until there is a result. *)
Poll(c) ==
  /\ client[c].pc = "polling" /\ results[c] # "none"
  /\ Become(c, Idle)
  /\ UNCHANGED <<slots, queue, queue_lock, flushing, results>>

(* The client goes away: a select runs on and its slot stays taken, an entry *)
(* stays queued, the lock is freed.                                          *)
Disconnect(c) ==
  /\ CASE client[c].pc = "select" -> Become(c, [pc |-> "lost"]) /\ UNCHANGED queue_lock
       [] client[c].pc \in {"selected", "enqueue"} -> Become(c, Idle) /\ UNCHANGED queue_lock
       [] client[c].pc = "estimate" -> Become(c, [pc |-> "gone"]) /\ queue_lock' = Nobody
       [] client[c].pc = "polling" -> Become(c, [pc |-> "gone"]) /\ UNCHANGED queue_lock
       [] OTHER -> FALSE
  /\ UNCHANGED <<slots, queue, flushing, results>>

LostSelect(c) ==
  /\ client[c].pc = "lost"
  /\ (\E b \in Bucket : Free(b) /\ Take(b)) \/ ((\A b \in Bucket : ~Free(b)) /\ UNCHANGED in_flight)
  /\ Become(c, Idle)
  /\ UNCHANGED <<releasing, caller, queue, queue_lock, flushing, results>>

(* The result of an entry nobody asks for any more stays in the map. *)
Forget(c) ==
  /\ client[c].pc = "gone" /\ results[c] # "none"
  /\ Become(c, Idle)
  /\ UNCHANGED <<slots, queue, queue_lock, flushing, results>>

(* A detached report runs. *)
Release(b) ==
  /\ releasing[b] > 0
  /\ releasing' = [releasing EXCEPT ![b] = @ - 1]
  /\ Drop(b)
  /\ UNCHANGED <<caller, queue, queue_lock, flushing, results, client>>
-----------------------------------------------------------------------------
(* The flush task: the window is over, or a permit is there to be taken. *)
WindowOver ==
  /\ flusher = "waiting"
  /\ flusher' = "window"
  /\ UNCHANGED <<slots, queue, queue_lock, permit, jobs, results, client>>

Notified ==
  /\ flusher = "waiting" /\ permit
  /\ permit' = FALSE /\ flusher' = "notified"
  /\ UNCHANGED <<slots, queue, queue_lock, jobs, results, client>>

(* The entries that are the first of their model, and the group of each. *)
Firsts == {i \in DOMAIN queue : \A k \in 1..(i - 1) : queue[k].model # queue[i].model}

ClientsFor(m) == {queue[i].client : i \in {k \in DOMAIN queue : queue[k].model = m}}

(* A plausible bug for mutation: a group is cut off at its first entry. *)
GroupCutOff(i) ==
  [model |-> queue[i].model, key |-> queue[i].key, clients |-> {queue[i].client},
   stage |-> "submit"]

Group(i) ==
  [model |-> queue[i].model, key |-> queue[i].key,
   clients |-> ClientsFor(queue[i].model), stage |-> "submit"]

(* It takes the whole queue and starts a job per model. *)
Drain ==
  /\ flusher # "waiting" /\ queue_lock = Nobody
  /\ jobs' = jobs \cup {Group(i) : i \in Firsts}
  /\ queue' = <<>>
  /\ flusher' = "waiting"
  /\ UNCHANGED <<slots, queue_lock, permit, results, client>>

(* A plausible bug for mutation: only one entry learns of the failure. *)
RejectOne(j) ==
  /\ j \in jobs /\ j.stage # "stalled"
  /\ \E c \in j.clients : results' = [results EXCEPT ![c] = "error"]
  /\ jobs' = jobs \ {j}
  /\ UNCHANGED <<slots, queue, queue_lock, permit, flusher, client>>

(* reject_all: no key in the environment, or the submission, the job or the *)
(* download failed, or the job has not ended after an hour, which is tested *)
(* before each request.                                                     *)
RejectAll(j) ==
  /\ j \in jobs /\ j.stage # "stalled"
  /\ results' = [c \in Client |-> IF c \in j.clients THEN "error" ELSE results[c]]
  /\ jobs' = jobs \ {j}
  /\ UNCHANGED <<slots, queue, queue_lock, permit, flusher, client>>

(* The batch job is accepted, and some time later it has succeeded. *)
NextStage(j) ==
  /\ j \in jobs /\ j.stage \in {"submit", "poll"}
  /\ jobs' = (jobs \ {j}) \cup
             {[j EXCEPT !.stage = IF @ = "submit" THEN "poll" ELSE "download"]}
  /\ UNCHANGED <<slots, queue, queue_lock, permit, flusher, results, client>>

(* The request that is under way, to submit, to poll or to download, is never *)
(* answered: the client waits for it without a timeout.                       *)
Stall(j) ==
  /\ j \in jobs /\ j.stage # "stalled"
  /\ jobs' = (jobs \ {j}) \cup {[j EXCEPT !.stage = "stalled"]}
  /\ UNCHANGED <<slots, queue, queue_lock, permit, flusher, results, client>>

(* The downloaded file has a result for the clients of good, and an error or *)
(* nothing for the others.  What they used is reported for the first entry's *)
(* key, unless it is nothing.                                                *)
Finish(j, good, used) ==
  /\ j \in jobs /\ j.stage = "download" /\ good \subseteq j.clients
  /\ used => good # {}
  /\ results' = [c \in Client |->
                   IF c \in good THEN "success"
                   ELSE IF c \in j.clients THEN "error" ELSE results[c]]
  /\ releasing' = IF used THEN [releasing EXCEPT ![<<j.model, j.key>>] = @ + 1]
                  ELSE releasing
  /\ jobs' = jobs \ {j}
  /\ UNCHANGED <<in_flight, caller, queue, queue_lock, permit, flusher, client>>
-----------------------------------------------------------------------------
JobStep(j) ==
  RejectAll(j) \/ NextStage(j) \/ \E good \in SUBSET Client, used \in BOOLEAN : Finish(j, good, used)

Handler(c) ==
  \/ (\E b \in Bucket : Selected(c, b)) \/ Unavailable(c) \/ Refuse(c) \/ Accept(c)
  \/ Enqueue(c) \/ Respond(c) \/ LostSelect(c)

Next ==
  \/ \E c \in Client : Submit(c) \/ Handler(c) \/ Poll(c) \/ Disconnect(c) \/ Forget(c)
  \/ \E u \in Caller, b \in Bucket : CallerSelects(u, b) \/ CallerReports(u, b)
  \/ \E b \in Bucket : Release(b)
  \/ WindowOver \/ Notified \/ Drain
  \/ \E j \in jobs : JobStep(j) \/ Stall(j)

Spec == Init /\ [][Next]_vars

(* The step of the group that holds the entry of client c. *)
JobOf(c) == \E j \in jobs : c \in j.clients /\ JobStep(j)

(* Handlers go on, the mutex is fair (tokio's is FIFO) and windows end.  A    *)
(* job whose requests are answered ends, at the latest by the deadline that   *)
(* poll_until_complete tests between them; nothing is assumed of the others,  *)
(* which Stall takes out of JobStep.                                          *)
FairSpec ==
  /\ Spec
  /\ WF_vars(WindowOver) /\ SF_vars(Drain)
  /\ \A c \in Client : SF_vars(Handler(c)) /\ WF_vars(JobOf(c))
-----------------------------------------------------------------------------
Entry == [client : Client, model : Mistral, key : Key]

Job == [model : Mistral, key : Key, clients : SUBSET Client,
        stage : {"submit", "poll", "download", "stalled"}]

Handled == [pc : {"idle", "select", "estimate", "polling", "lost", "gone"}]
           \cup [pc : {"selected"}, bucket : Bucket]
           \cup [pc : {"enqueue"}, bucket : Mistral \X Key]

TypeOK ==
  /\ in_flight \in [Bucket -> Nat] /\ releasing \in [Bucket -> Nat]
  /\ queue \in Seq(Entry)
  /\ queue_lock \in Client \cup {Nobody} /\ permit \in BOOLEAN
  /\ flusher \in {"waiting", "window", "notified"}
  /\ jobs \subseteq Job
  /\ results \in [Client -> {"none", "success", "error"}]
  /\ client \in [Client -> Handled]
  /\ caller \in [Caller -> SUBSET Bucket]

(* A queue that has reached max_batch_size has the flush task's attention:   *)
(* no order of enqueues and flushes leaves it to wait for the window.        *)
FullQueueSignalled == Queued >= max_batch_size => permit \/ flusher # "waiting"

Places(c) ==
  Cardinality({j \in jobs : c \in j.clients})
  + Cardinality({i \in DOMAIN queue : queue[i].client = c})
  + (IF results[c] = "none" THEN 0 ELSE 1)

(* An accepted request is in one place: in the queue, in one job or settled. *)
NoEntryLost ==
  \A c \in Client : client[c].pc \in {"estimate", "polling", "gone"} => Places(c) = 1

(* Every accepted request comes to a result, whoever still polls for it,     *)
(* unless the job of its own group waits for an answer that never comes: a   *)
(* connection that stalls holds up no other job and no later flush.          *)
ResultsArrive ==
  \A c \in Client :
    client[c].pc \in {"estimate", "polling", "gone"}
      ~> \/ results[c] # "none"
         \/ \E j \in jobs : c \in j.clients /\ j.stage = "stalled"
-----------------------------------------------------------------------------
(* README: "Model.max_in_flight caps concurrent calls per model and API key, *)
(* atomically".                                                              *)
CapHeld ==
  \A b \in Bucket : Cardinality({u \in Caller : b \in caller[u]}) <= Cap[b[1]]
=============================================================================
