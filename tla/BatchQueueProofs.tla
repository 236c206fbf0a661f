--------------------------- MODULE BatchQueueProofs ---------------------------
(***************************************************************************)
(* For any clients, callers, models, keys and limits: a full queue always  *)
(* has the flush task's attention, and an accepted request is in exactly   *)
(* one place until it is settled.                                          *)
(*                                                                         *)
(* Apart is what makes the second one inductive: an entry is in the queue  *)
(* once, or in one job, never both, and while it is its client waits for   *)
(* it and has no result.  Draining keeps it because every queued entry     *)
(* belongs to the group of the first entry of its model (FirstOfModel).    *)
(***************************************************************************)
EXTENDS BatchQueue, FiniteSetTheorems, SequenceTheorems, WellFoundedInduction, TLAPS

(* The places where a client's request is, or waits for the queue. *)
Accepted == {"estimate", "polling", "gone"}
Early == {"select", "selected", "enqueue", "lost"}

InQueue(c) == \E i \in DOMAIN queue : queue[i].client = c
InJob(c) == \E j \in jobs : c \in j.clients

(* Every entry is in one place. *)
QueuedOnce ==
  \A i, k \in DOMAIN queue : queue[i].client = queue[k].client => i = k
GroupedOnce ==
  \A j, k \in jobs : \A c \in j.clients : c \in k.clients => j = k
NotBoth == \A c \in Client : ~(InQueue(c) /\ InJob(c))

(* An entry is awaited, and what is awaited is an entry or a result. *)
Awaited(c) ==
  /\ InQueue(c) \/ InJob(c) => results[c] = "none" /\ client[c].pc \in Accepted
  /\ client[c].pc \in Accepted => InQueue(c) \/ InJob(c) \/ results[c] # "none"
  /\ client[c].pc \in Early => results[c] = "none"

Apart == QueuedOnce /\ GroupedOnce /\ NotBoth /\ \A c \in Client : Awaited(c)

Inv == TypeOK /\ FullQueueSignalled /\ Apart
-----------------------------------------------------------------------------
(* The declared types, one variable at a time. *)
LEMMA Types ==
  ASSUME TypeOK
  PROVE  /\ in_flight \in [Bucket -> Nat] /\ releasing \in [Bucket -> Nat]
         /\ queue \in Seq(Entry) /\ queue_lock \in Client \cup {Nobody}
         /\ permit \in BOOLEAN /\ flusher \in {"waiting", "window", "notified"}
         /\ jobs \subseteq Job /\ results \in [Client -> {"none", "success", "error"}]
         /\ client \in [Client -> Handled] /\ caller \in [Caller -> SUBSET Bucket]
BY DEF TypeOK

(* A queue is a function on the positions of its entries. *)
LEMMA QueueType ==
  ASSUME TypeOK
  PROVE  /\ Len(queue) \in Nat /\ DOMAIN queue = 1..Len(queue)
         /\ \A i \in DOMAIN queue :
              /\ queue[i] \in Entry /\ queue[i].client \in Client
              /\ queue[i].model \in Mistral /\ queue[i].key \in Key
<1>1. queue \in Seq(Entry)
  BY Types
<1>2. /\ Len(queue) \in Nat /\ DOMAIN queue = 1..Len(queue)
      /\ \A i \in DOMAIN queue : queue[i] \in Entry
  BY <1>1, LenProperties, ElementOfSeq
<1> QED
  BY <1>2 DEF Entry

(* Handlers that hold a candidate know its bucket. *)
LEMMA HandledForm ==
  ASSUME TypeOK, NEW c \in Client
  PROVE  /\ client[c] \in Handled
         /\ client[c].pc = "selected" => client[c].bucket \in Bucket
         /\ client[c].pc = "enqueue" => /\ client[c].bucket[1] \in Mistral
                                        /\ client[c].bucket[2] \in Key
         /\ \A b \in Bucket : b[1] \in Model /\ b[2] \in Key /\ b = <<b[1], b[2]>>
<1>1. client[c] \in Handled
  BY Types
<1>2. /\ client[c].pc = "selected" => client[c].bucket \in Bucket
      /\ client[c].pc = "enqueue" => client[c].bucket \in Mistral \X Key
  BY <1>1 DEF Handled
<1>3. \A b \in Bucket : b[1] \in Model /\ b[2] \in Key /\ b = <<b[1], b[2]>>
  BY DEF Bucket
<1> QED
  BY <1>1, <1>2, <1>3

(* Where a client may be. *)
LEMMA ClientForms ==
  /\ Idle \in Handled /\ Idle.pc = "idle"
  /\ \A s \in {"idle", "select", "estimate", "polling", "lost", "gone"} :
       [pc |-> s] \in Handled
  /\ \A b \in Bucket : [pc |-> "selected", bucket |-> b] \in Handled
  /\ \A b \in Mistral \X Key : [pc |-> "enqueue", bucket |-> b] \in Handled
BY DEF Handled, Idle

(* Counting up and down keeps counters numbers. *)
LEMMA CountersType ==
  ASSUME TypeOK, NEW b \in Bucket
  PROVE  /\ Take(b) => in_flight' \in [Bucket -> Nat]
         /\ Drop(b) => in_flight' \in [Bucket -> Nat]
<1>1. in_flight \in [Bucket -> Nat] /\ in_flight[b] \in Nat
  BY Types
<1>2. Take(b) => in_flight' \in [Bucket -> Nat]
  BY <1>1 DEF Take
<1>3. Drop(b) => in_flight' \in [Bucket -> Nat]
  <2>1. (IF in_flight[b] = 0 THEN 0 ELSE in_flight[b] - 1) \in Nat
    BY <1>1
  <2> QED
    BY <1>1, <2>1 DEF Drop
<1> QED
  BY <1>2, <1>3
-----------------------------------------------------------------------------
(* A step of one client that leaves queue and jobs alone: nobody becomes     *)
(* accepted by it, who has been stays so until there is a result, and who    *)
(* submits has none.                                                         *)
Turn(c) ==
  /\ queue' = queue /\ jobs' = jobs /\ permit' = permit /\ flusher' = flusher
  /\ \A d \in Client : d # c => client'[d] = client[d] /\ results'[d] = results[d]
  /\ client'[c].pc \in Accepted => client[c].pc \in Accepted /\ results'[c] = results[c]
  /\ client[c].pc \in Accepted /\ client'[c].pc \notin Accepted => results[c] # "none"
  /\ client'[c].pc \in Early => results'[c] = "none"
  /\ client'[c].pc \in Accepted \cup Early \cup {"idle"}

(* A step that moves only slots and the flush task's attention. *)
Elsewhere ==
  /\ queue' = queue /\ jobs' = jobs /\ results' = results /\ client' = client
  /\ Queued >= max_batch_size /\ (permit \/ flusher # "waiting") => permit' \/ flusher' # "waiting"

(* The first keeps every entry in its place, *)
LEMMA TurnKeeps ==
  ASSUME Inv, NEW c \in Client, Turn(c)
  PROVE  FullQueueSignalled' /\ Apart'
<1>1. FullQueueSignalled'
  BY DEF Inv, Turn, FullQueueSignalled, Queued
<1>2. QueuedOnce' /\ GroupedOnce'
  BY DEF Inv, Apart, QueuedOnce, GroupedOnce, Turn
<1>3. \A d \in Client : (InQueue(d)' <=> InQueue(d)) /\ (InJob(d)' <=> InJob(d))
  BY DEF Turn, InQueue, InJob
<1>4. NotBoth'
  BY <1>3 DEF Inv, Apart, NotBoth
<1>5. ASSUME NEW d \in Client
      PROVE  Awaited(d)'
  <2>1. Awaited(d)
    BY DEF Inv, Apart
  <2>2. CASE d # c
    <3>1. client'[d] = client[d] /\ results'[d] = results[d]
      BY <2>2 DEF Turn
    <3> QED
      BY <1>3, <2>1, <3>1 DEF Awaited
  <2>3. CASE d = c
    <3>1. (InQueue(c) \/ InJob(c)) => results[c] = "none" /\ client[c].pc \in Accepted
      BY <2>1, <2>3 DEF Awaited
    <3>2. client[c].pc \in Accepted => InQueue(c) \/ InJob(c) \/ results[c] # "none"
      BY <2>1, <2>3 DEF Awaited
    <3>3. (InQueue(c) \/ InJob(c)) => results'[c] = "none" /\ client'[c].pc \in Accepted
      BY <3>1 DEF Turn
    <3>4. client'[c].pc \in Accepted => InQueue(c) \/ InJob(c) \/ results'[c] # "none"
      BY <3>2 DEF Turn
    <3>5. client'[c].pc \in Early => results'[c] = "none"
      BY DEF Turn
    <3> QED
      BY <1>3, <2>3, <3>3, <3>4, <3>5 DEF Awaited
  <2> QED
    BY <2>2, <2>3
<1> QED
  BY <1>1, <1>2, <1>4, <1>5 DEF Apart

(* and so does the second. *)
LEMMA ElsewhereKeeps ==
  ASSUME Inv, Elsewhere
  PROVE  FullQueueSignalled' /\ Apart'
<1>1. FullQueueSignalled'
  BY DEF Inv, Elsewhere, FullQueueSignalled, Queued
<1>2. QueuedOnce' /\ GroupedOnce'
  BY DEF Inv, Apart, QueuedOnce, GroupedOnce, Elsewhere
<1>3. \A d \in Client : (InQueue(d)' <=> InQueue(d)) /\ (InJob(d)' <=> InJob(d))
  BY DEF Elsewhere, InQueue, InJob
<1>4. NotBoth' /\ \A d \in Client : Awaited(d)'
  BY <1>3 DEF Inv, Apart, NotBoth, Awaited, Elsewhere
<1> QED
  BY <1>1, <1>2, <1>4 DEF Apart
-----------------------------------------------------------------------------
(* Where a client is afterwards. *)
LEMMA Moved ==
  ASSUME TypeOK, NEW c \in Client, NEW o \in Handled, Become(c, o)
  PROVE  /\ client' \in [Client -> Handled] /\ client'[c] = o
         /\ \A d \in Client : d # c => client'[d] = client[d]
BY Types DEF Become

(* Each action of a client but Enqueue keeps the types and is such a turn. *)
LEMMA SubmitTurn ==
  ASSUME Inv, NEW c \in Client, Submit(c)
  PROVE  TypeOK' /\ Turn(c)
<1> DEFINE o == [pc |-> "select"]
<1>1. TypeOK /\ o \in Handled /\ o.pc = "select" /\ Become(c, o)
  BY ClientForms DEF Inv, Submit
<1> HIDE DEF o
<1>2. /\ client' \in [Client -> Handled] /\ client'[c] = o
      /\ \A d \in Client : d # c => client'[d] = client[d]
  BY <1>1, Moved
<1>3. client[c].pc = "idle"
  BY ClientForms DEF Submit
<1>4. /\ results' \in [Client -> {"none", "success", "error"}] /\ results'[c] = "none"
      /\ \A d \in Client : d # c => results'[d] = results[d]
  BY <1>1, Types DEF Submit
<1>5. TypeOK'
  BY <1>1, <1>2, <1>4, Types DEF TypeOK, Submit, slots, flushing
<1>6. queue' = queue /\ jobs' = jobs /\ permit' = permit /\ flusher' = flusher
  BY DEF Submit, flushing
<1> QED
  BY <1>1, <1>2, <1>3, <1>4, <1>5, <1>6 DEF Turn, Accepted, Early

(* A client that gets a slot goes on without a result. *)
LEMMA SelectedTurn ==
  ASSUME Inv, NEW c \in Client, NEW b \in Bucket, Selected(c, b)
  PROVE  TypeOK' /\ Turn(c)
<1> DEFINE o == [pc |-> "selected", bucket |-> b]
<1>1. TypeOK /\ o \in Handled /\ o.pc = "selected" /\ Become(c, o)
  BY ClientForms DEF Inv, Selected
<1> HIDE DEF o
<1>2. /\ client' \in [Client -> Handled] /\ client'[c] = o
      /\ \A d \in Client : d # c => client'[d] = client[d]
  BY <1>1, Moved
<1>3. client[c].pc = "select" /\ in_flight' \in [Bucket -> Nat]
  BY <1>1, CountersType DEF Selected
<1>4. TypeOK'
  BY <1>1, <1>2, <1>3, Types DEF TypeOK, Selected, flushing
<1>5. /\ queue' = queue /\ jobs' = jobs /\ permit' = permit /\ flusher' = flusher
      /\ results' = results
  BY DEF Selected, flushing
<1>6. results[c] = "none"
  BY <1>3 DEF Inv, Apart, Awaited, Early
<1> QED
  BY <1>1, <1>2, <1>3, <1>4, <1>5, <1>6 DEF Turn, Accepted, Early

(* One that gets none is idle again. *)
LEMMA UnavailableTurn ==
  ASSUME Inv, NEW c \in Client, Unavailable(c)
  PROVE  TypeOK' /\ Turn(c)
<1>1. TypeOK /\ Idle \in Handled /\ Idle.pc = "idle" /\ Become(c, Idle)
  BY ClientForms DEF Inv, Unavailable
<1>2. /\ client' \in [Client -> Handled] /\ client'[c] = Idle
      /\ \A d \in Client : d # c => client'[d] = client[d]
  BY <1>1, Moved
<1>3. TypeOK'
  BY <1>1, <1>2, Types DEF TypeOK, Unavailable, slots, flushing
<1>4. /\ queue' = queue /\ jobs' = jobs /\ permit' = permit /\ flusher' = flusher
      /\ results' = results /\ client[c].pc = "select"
  BY DEF Unavailable, flushing
<1> QED
  BY <1>1, <1>2, <1>3, <1>4 DEF Turn, Accepted, Early

(* So is one that got a model of another brand. *)
LEMMA RefuseTurn ==
  ASSUME Inv, NEW c \in Client, Refuse(c)
  PROVE  TypeOK' /\ Turn(c)
<1>1. TypeOK /\ Idle \in Handled /\ Idle.pc = "idle" /\ Become(c, Idle)
  BY ClientForms DEF Inv, Refuse
<1>2. /\ client' \in [Client -> Handled] /\ client'[c] = Idle
      /\ \A d \in Client : d # c => client'[d] = client[d]
  BY <1>1, Moved
<1>3. TypeOK'
  BY <1>1, <1>2, Types DEF TypeOK, Refuse, slots, flushing
<1>4. /\ queue' = queue /\ jobs' = jobs /\ permit' = permit /\ flusher' = flusher
      /\ results' = results /\ client[c].pc = "selected"
  BY DEF Refuse, flushing
<1> QED
  BY <1>1, <1>2, <1>3, <1>4 DEF Turn, Accepted, Early

(* A candidate of a Mistral model leads to the queue. *)
LEMMA AcceptTurn ==
  ASSUME Inv, NEW c \in Client, Accept(c)
  PROVE  TypeOK' /\ Turn(c)
<1> DEFINE b == client[c].bucket
           o == [pc |-> "enqueue", bucket |-> b]
<1>1. TypeOK /\ b \in Bucket /\ b \in Mistral \X Key
  BY HandledForm DEF Inv, Accept, Bucket
<1>2. o \in Handled /\ o.pc = "enqueue" /\ Become(c, o)
  BY <1>1, ClientForms DEF Accept
<1> HIDE DEF o
<1>3. /\ client' \in [Client -> Handled] /\ client'[c] = o
      /\ \A d \in Client : d # c => client'[d] = client[d]
  BY <1>1, <1>2, Moved
<1>4. releasing' \in [Bucket -> Nat]
  BY <1>1, Types DEF Accept
<1>5. TypeOK'
  BY <1>1, <1>3, <1>4, Types DEF TypeOK, Accept, flushing
<1>6. /\ queue' = queue /\ jobs' = jobs /\ permit' = permit /\ flusher' = flusher
      /\ results' = results /\ client[c].pc = "selected"
  BY DEF Accept, flushing
<1>7. results[c] = "none"
  BY <1>6 DEF Inv, Apart, Awaited, Early
<1> QED
  BY <1>2, <1>3, <1>5, <1>6, <1>7 DEF Turn, Accepted, Early

(* From the queue a client goes on to poll, accepted as before. *)
LEMMA RespondTurn ==
  ASSUME Inv, NEW c \in Client, Respond(c)
  PROVE  TypeOK' /\ Turn(c)
<1> DEFINE o == [pc |-> "polling"]
<1>1. TypeOK /\ o \in Handled /\ o.pc = "polling" /\ Become(c, o)
  BY ClientForms DEF Inv, Respond
<1> HIDE DEF o
<1>2. /\ client' \in [Client -> Handled] /\ client'[c] = o
      /\ \A d \in Client : d # c => client'[d] = client[d]
  BY <1>1, Moved
<1>3. TypeOK'
  BY <1>1, <1>2, Types DEF TypeOK, Respond, slots, flushing
<1>4. /\ queue' = queue /\ jobs' = jobs /\ permit' = permit /\ flusher' = flusher
      /\ results' = results /\ client[c].pc = "estimate"
  BY DEF Respond, flushing
<1> QED
  BY <1>1, <1>2, <1>3, <1>4 DEF Turn, Accepted, Early

(* It leaves with a result, *)
LEMMA PollTurn ==
  ASSUME Inv, NEW c \in Client, Poll(c)
  PROVE  TypeOK' /\ Turn(c)
<1>1. TypeOK /\ Idle \in Handled /\ Idle.pc = "idle" /\ Become(c, Idle)
  BY ClientForms DEF Inv, Poll
<1>2. /\ client' \in [Client -> Handled] /\ client'[c] = Idle
      /\ \A d \in Client : d # c => client'[d] = client[d]
  BY <1>1, Moved
<1>3. TypeOK'
  BY <1>1, <1>2, Types DEF TypeOK, Poll, slots, flushing
<1>4. /\ queue' = queue /\ jobs' = jobs /\ permit' = permit /\ flusher' = flusher
      /\ results' = results /\ results[c] # "none"
  BY DEF Poll, flushing
<1> QED
  BY <1>1, <1>2, <1>3, <1>4 DEF Turn, Accepted, Early

(* as does an entry whose client is gone. *)
LEMMA ForgetTurn ==
  ASSUME Inv, NEW c \in Client, Forget(c)
  PROVE  TypeOK' /\ Turn(c)
<1>1. TypeOK /\ Idle \in Handled /\ Idle.pc = "idle" /\ Become(c, Idle)
  BY ClientForms DEF Inv, Forget
<1>2. /\ client' \in [Client -> Handled] /\ client'[c] = Idle
      /\ \A d \in Client : d # c => client'[d] = client[d]
  BY <1>1, Moved
<1>3. TypeOK'
  BY <1>1, <1>2, Types DEF TypeOK, Forget, slots, flushing
<1>4. /\ queue' = queue /\ jobs' = jobs /\ permit' = permit /\ flusher' = flusher
      /\ results' = results /\ results[c] # "none"
  BY DEF Forget, flushing
<1> QED
  BY <1>1, <1>2, <1>3, <1>4 DEF Turn, Accepted, Early

(* A select nobody waits for changes a counter at most. *)
LEMMA LostSelectTurn ==
  ASSUME Inv, NEW c \in Client, LostSelect(c)
  PROVE  TypeOK' /\ Turn(c)
<1>1. TypeOK /\ Idle \in Handled /\ Idle.pc = "idle" /\ Become(c, Idle)
  BY ClientForms DEF Inv, LostSelect
<1>2. /\ client' \in [Client -> Handled] /\ client'[c] = Idle
      /\ \A d \in Client : d # c => client'[d] = client[d]
  BY <1>1, Moved
<1>3. in_flight' \in [Bucket -> Nat]
  <2>1. (\E b \in Bucket : Take(b)) \/ in_flight' = in_flight
    BY DEF LostSelect
  <2>2. CASE \E b \in Bucket : Take(b)
    BY <1>1, <2>2, CountersType
  <2>3. CASE in_flight' = in_flight
    BY <1>1, <2>3, Types
  <2> QED
    BY <2>1, <2>2, <2>3
<1>4. TypeOK'
  BY <1>1, <1>2, <1>3, Types DEF TypeOK, LostSelect, flushing
<1>5. /\ queue' = queue /\ jobs' = jobs /\ permit' = permit /\ flusher' = flusher
      /\ results' = results /\ client[c].pc = "lost"
  BY DEF LostSelect, flushing
<1> QED
  BY <1>1, <1>2, <1>4, <1>5 DEF Turn, Accepted, Early

(* A client that leaves is lost in its select, gone after its enqueue and    *)
(* idle in between.                                                          *)
LEMMA DisconnectTurn ==
  ASSUME Inv, NEW c \in Client, Disconnect(c)
  PROVE  TypeOK' /\ Turn(c)
<1> DEFINE lost == [pc |-> "lost"]
           gone == [pc |-> "gone"]
<1>1. /\ TypeOK /\ Idle \in Handled /\ Idle.pc = "idle"
      /\ lost \in Handled /\ lost.pc = "lost" /\ gone \in Handled /\ gone.pc = "gone"
  BY ClientForms DEF Inv
<1>2. \/ client[c].pc = "select" /\ Become(c, lost) /\ queue_lock' = queue_lock
      \/ client[c].pc \in {"selected", "enqueue"} /\ Become(c, Idle) /\ queue_lock' = queue_lock
      \/ client[c].pc \in {"estimate", "polling"} /\ Become(c, gone)
         /\ queue_lock' \in {queue_lock, Nobody}
  BY DEF Disconnect
<1>3. /\ queue' = queue /\ jobs' = jobs /\ permit' = permit /\ flusher' = flusher
      /\ results' = results /\ in_flight' = in_flight /\ releasing' = releasing
      /\ caller' = caller
  BY DEF Disconnect, slots, flushing
<1>4. queue_lock' \in Client \cup {Nobody}
  BY <1>1, <1>2, Types
<1> HIDE DEF lost, gone
<1>5. CASE client[c].pc = "select" /\ Become(c, lost)
  <2>1. /\ client' \in [Client -> Handled] /\ client'[c] = lost
        /\ \A d \in Client : d # c => client'[d] = client[d]
    BY <1>1, <1>5, Moved
  <2>2. results[c] = "none"
    BY <1>5 DEF Inv, Apart, Awaited, Early
  <2>3. TypeOK'
    BY <1>1, <1>3, <1>4, <2>1, Types DEF TypeOK
  <2> QED
    BY <1>1, <1>3, <1>5, <2>1, <2>2, <2>3 DEF Turn, Accepted, Early
<1>6. CASE client[c].pc \in {"selected", "enqueue"} /\ Become(c, Idle)
  <2>1. /\ client' \in [Client -> Handled] /\ client'[c] = Idle
        /\ \A d \in Client : d # c => client'[d] = client[d]
    BY <1>1, <1>6, Moved
  <2>2. TypeOK'
    BY <1>1, <1>3, <1>4, <2>1, Types DEF TypeOK
  <2> QED
    BY <1>1, <1>3, <1>6, <2>1, <2>2 DEF Turn, Accepted, Early
<1>7. CASE client[c].pc \in {"estimate", "polling"} /\ Become(c, gone)
  <2>1. /\ client' \in [Client -> Handled] /\ client'[c] = gone
        /\ \A d \in Client : d # c => client'[d] = client[d]
    BY <1>1, <1>7, Moved
  <2>2. TypeOK'
    BY <1>1, <1>3, <1>4, <2>1, Types DEF TypeOK
  <2> QED
    BY <1>1, <1>3, <1>7, <2>1, <2>2 DEF Turn, Accepted, Early
<1> QED
  BY <1>2, <1>5, <1>6, <1>7
-----------------------------------------------------------------------------
(* The steps of callers, reports and the clock touch no entry. *)
LEMMA CallerElsewhere ==
  ASSUME Inv, NEW u \in Caller, NEW b \in Bucket, CallerSelects(u, b) \/ CallerReports(u, b)
  PROVE  TypeOK' /\ Elsewhere
<1>1. TypeOK /\ {b} \in SUBSET Bucket /\ {} \in SUBSET Bucket
  BY DEF Inv
<1>2. in_flight' \in [Bucket -> Nat]
  BY <1>1, CountersType DEF CallerSelects, CallerReports
<1>3. caller' \in [Caller -> SUBSET Bucket]
  BY <1>1, Types DEF CallerSelects, CallerReports
<1>4. /\ releasing' = releasing /\ queue' = queue /\ queue_lock' = queue_lock
      /\ permit' = permit /\ flusher' = flusher /\ jobs' = jobs
      /\ results' = results /\ client' = client
  BY DEF CallerSelects, CallerReports, flushing
<1>5. TypeOK'
  BY <1>1, <1>2, <1>3, <1>4, Types DEF TypeOK
<1> QED
  BY <1>4, <1>5 DEF Elsewhere

(* A report gives a slot back. *)
LEMMA ReleaseElsewhere ==
  ASSUME Inv, NEW b \in Bucket, Release(b)
  PROVE  TypeOK' /\ Elsewhere
<1>1. TypeOK
  BY DEF Inv
<1>2. in_flight' \in [Bucket -> Nat] /\ releasing' \in [Bucket -> Nat]
  <2>1. in_flight' \in [Bucket -> Nat]
    BY <1>1, CountersType DEF Release
  <2>2. releasing \in [Bucket -> Nat] /\ releasing[b] > 0
    BY <1>1, Types DEF Release
  <2>3. releasing[b] - 1 \in Nat
    BY <2>2
  <2> QED
    BY <2>1, <2>2, <2>3 DEF Release
<1>3. /\ caller' = caller /\ queue' = queue /\ queue_lock' = queue_lock
      /\ permit' = permit /\ flusher' = flusher /\ jobs' = jobs
      /\ results' = results /\ client' = client
  BY DEF Release, flushing
<1>4. TypeOK'
  BY <1>1, <1>2, <1>3, Types DEF TypeOK
<1> QED
  BY <1>3, <1>4 DEF Elsewhere

(* A flush task that wakes is not waiting, whoever woke it. *)
LEMMA AwakeElsewhere ==
  ASSUME Inv, WindowOver \/ Notified
  PROVE  TypeOK' /\ Elsewhere
<1>1. TypeOK
  BY DEF Inv
<1>2. permit' \in BOOLEAN /\ flusher' \in {"waiting", "window", "notified"}
      /\ flusher' # "waiting"
  BY <1>1, Types DEF WindowOver, Notified
<1>3. /\ in_flight' = in_flight /\ releasing' = releasing /\ caller' = caller
      /\ queue' = queue /\ queue_lock' = queue_lock /\ jobs' = jobs
      /\ results' = results /\ client' = client
  BY DEF WindowOver, Notified, slots
<1>4. TypeOK'
  BY <1>1, <1>2, <1>3, Types DEF TypeOK
<1> QED
  BY <1>2, <1>3, <1>4 DEF Elsewhere
-----------------------------------------------------------------------------
(* Enqueue puts one entry behind the others, *)
LEMMA Enqueued ==
  ASSUME TypeOK, NEW c \in Client, Enqueue(c)
  PROVE  /\ queue' \in Seq(Entry) /\ Len(queue') = Len(queue) + 1
         /\ DOMAIN queue' = 1..(Len(queue) + 1)
         /\ \A i \in DOMAIN queue : i \in DOMAIN queue' /\ queue'[i] = queue[i]
         /\ queue'[Len(queue) + 1].client = c
<1> DEFINE b == client[c].bucket
           e == [client |-> c, model |-> b[1], key |-> b[2]]
<1>1. b[1] \in Mistral /\ b[2] \in Key
  BY HandledForm DEF Enqueue
<1>2. e \in Entry /\ e.client = c
  BY <1>1 DEF Entry
<1>3. queue' = Append(queue, e)
  BY DEF Enqueue
<1> HIDE DEF e
<1>4. queue \in Seq(Entry) /\ Len(queue) \in Nat /\ DOMAIN queue = 1..Len(queue)
  BY Types, QueueType
<1>5. /\ Append(queue, e) \in Seq(Entry) /\ Len(Append(queue, e)) = Len(queue) + 1
      /\ \A i \in 1..Len(queue) : Append(queue, e)[i] = queue[i]
      /\ Append(queue, e)[Len(queue) + 1] = e
  BY <1>2, <1>4, AppendProperties
<1>6. DOMAIN queue' = 1..Len(queue')
  BY <1>3, <1>5, LenProperties
<1> QED
  BY <1>2, <1>3, <1>4, <1>5, <1>6

(* wakes the flush task once there are enough, *)
LEMMA EnqueueSignals ==
  ASSUME Inv, NEW c \in Client, Enqueue(c)
  PROVE  permit' \in BOOLEAN /\ FullQueueSignalled'
<1>1. TypeOK /\ FullQueueSignalled
  BY DEF Inv
<1>2. flusher' = flusher /\ permit' = (permit \/ Reaches(Queued + 1))
  BY DEF Enqueue
<1>3. permit \in BOOLEAN
  BY <1>1, Types
<1>4. Reaches(Queued + 1) \in BOOLEAN
  BY DEF Reaches
<1>5. permit' \in BOOLEAN
  BY <1>2, <1>3, <1>4
<1>6. Queued' = Queued + 1
  BY <1>1, Enqueued DEF Queued
<1>7. Queued' >= max_batch_size => Reaches(Queued + 1)
  BY <1>6 DEF Reaches
<1>8. FullQueueSignalled'
  BY <1>2, <1>7 DEF FullQueueSignalled
<1> QED
  BY <1>5, <1>8

(* and gives the client its one place. *)
LEMMA EnqueueKeeps ==
  ASSUME Inv, NEW c \in Client, Enqueue(c)
  PROVE  TypeOK' /\ Apart'
<1> DEFINE o == [pc |-> "estimate"]
           n == Len(queue) + 1
<1>1. TypeOK /\ o \in Handled /\ o.pc = "estimate" /\ Become(c, o)
  BY ClientForms DEF Inv, Enqueue
<1> HIDE DEF o
<1>2. /\ client' \in [Client -> Handled] /\ client'[c] = o
      /\ \A d \in Client : d # c => client'[d] = client[d]
  BY <1>1, Moved
<1>3. /\ client[c].pc = "enqueue" /\ results' = results /\ jobs' = jobs
      /\ in_flight' = in_flight /\ releasing' = releasing /\ caller' = caller
      /\ flusher' = flusher /\ queue_lock' = c
  BY DEF Enqueue, slots
<1>4. /\ queue' \in Seq(Entry) /\ DOMAIN queue' = 1..n
      /\ \A i \in DOMAIN queue : i \in DOMAIN queue' /\ queue'[i] = queue[i]
      /\ queue'[n].client = c
  BY <1>1, Enqueued
<1>5. TypeOK'
  BY <1>1, <1>2, <1>3, <1>4, Types, EnqueueSignals DEF TypeOK
<1>6. Len(queue) \in Nat /\ DOMAIN queue = 1..Len(queue)
  BY <1>1, QueueType
<1>7. n \in DOMAIN queue' /\ \A i \in DOMAIN queue' : i \in DOMAIN queue \/ i = n
  BY <1>4, <1>6
<1> HIDE DEF n
<1>8. results[c] = "none" /\ ~InQueue(c) /\ ~InJob(c)
  BY <1>3 DEF Inv, Apart, Awaited, Accepted, Early
<1>9. QueuedOnce'
  <2>1. \A i \in DOMAIN queue : queue[i].client # c
    BY <1>8 DEF InQueue
  <2>2. QueuedOnce
    BY DEF Inv, Apart
  <2> QED
    BY <1>4, <1>7, <2>1, <2>2 DEF QueuedOnce
<1>10. \A d \in Client : InQueue(d)' <=> (InQueue(d) \/ d = c)
  BY <1>4, <1>7 DEF InQueue
<1>11. \A d \in Client : InJob(d)' <=> InJob(d)
  BY <1>3 DEF InJob
<1>12. GroupedOnce' /\ NotBoth'
  <2>1. GroupedOnce'
    BY <1>3 DEF Inv, Apart, GroupedOnce
  <2> QED
    BY <1>8, <1>10, <1>11, <2>1 DEF Inv, Apart, NotBoth
<1>13. ASSUME NEW d \in Client
       PROVE  Awaited(d)'
  <2>1. CASE d = c
    BY <1>1, <1>2, <1>3, <1>8, <1>10, <1>11, <2>1 DEF Awaited, Accepted, Early
  <2>2. CASE d # c
    <3>1. Awaited(d)
      BY DEF Inv, Apart
    <3> QED
      BY <1>2, <1>3, <1>10, <1>11, <2>2, <3>1 DEF Awaited
  <2> QED
    BY <2>1, <2>2
<1> QED
  BY <1>5, <1>9, <1>12, <1>13 DEF Apart
-----------------------------------------------------------------------------
(* Of the entries of a model one is the first. *)
LEMMA FirstOfModel ==
  ASSUME TypeOK, NEW i \in DOMAIN queue
  PROVE  \E f \in Firsts : queue[f].model = queue[i].model
<1> DEFINE Same == {k \in DOMAIN queue : queue[k].model = queue[i].model}
<1>1. Len(queue) \in Nat /\ DOMAIN queue = 1..Len(queue)
  BY QueueType
<1>2. Same \subseteq Nat /\ Same # {}
  BY <1>1
<1>3. PICK f \in Same : \A k \in Same : ~(<<k, f>> \in OpToRel(<, Nat))
  <2> HIDE DEF Same
  <2> QED
    BY <1>2, NatLessThanWellFounded, WFMin
<1>4. \A k \in Same : ~(k < f)
  BY <1>2, <1>3 DEF OpToRel
<1>5. ASSUME NEW k \in 1..(f - 1)
      PROVE  queue[k].model # queue[f].model
  <2>1. k \in DOMAIN queue /\ k < f
    <3>1. f \in 1..Len(queue)
      BY <1>1, <1>3
    <3> HIDE DEF Same
    <3> QED
      BY <1>1, <3>1
  <2> QED
    BY <1>3, <1>4, <2>1
<1>6. f \in Firsts
  BY <1>3, <1>5 DEF Firsts
<1> QED
  BY <1>3, <1>6

(* Two firsts are of different models. *)
LEMMA FirstsDiffer ==
  ASSUME TypeOK, NEW f \in Firsts, NEW g \in Firsts, queue[f].model = queue[g].model
  PROVE  f = g
<1>1. /\ f \in DOMAIN queue /\ \A k \in 1..(f - 1) : queue[k].model # queue[f].model
      /\ g \in DOMAIN queue /\ \A k \in 1..(g - 1) : queue[k].model # queue[g].model
  BY DEF Firsts
<1>2. f \in Nat \ {0} /\ g \in Nat \ {0}
  BY <1>1, QueueType
<1>3. f \notin 1..(g - 1) /\ g \notin 1..(f - 1)
  BY <1>1
<1> QED
  BY <1>2, <1>3

(* The group of a first is a job, for the clients with entries of its model. *)
LEMMA GroupForm ==
  ASSUME TypeOK, NEW f \in Firsts
  PROVE  /\ Group(f) \in Job
         /\ \A c : c \in Group(f).clients <=>
              \E i \in DOMAIN queue : queue[i].client = c /\ queue[i].model = queue[f].model
<1>1. f \in DOMAIN queue
  BY DEF Firsts
<1>2. queue[f].model \in Mistral /\ queue[f].key \in Key
  BY <1>1, QueueType
<1>3. \A c : c \in ClientsFor(queue[f].model) <=>
         \E i \in DOMAIN queue : queue[i].client = c /\ queue[i].model = queue[f].model
  BY DEF ClientsFor
<1>4. ClientsFor(queue[f].model) \subseteq Client
  BY <1>3, QueueType
<1> HIDE DEF ClientsFor
<1>5. Group(f).clients = ClientsFor(queue[f].model)
  BY DEF Group
<1>6. Group(f) \in Job
  BY <1>2, <1>4 DEF Group, Job
<1> QED
  BY <1>3, <1>5, <1>6

(* Draining keeps the types, *)
LEMMA DrainTypes ==
  ASSUME Inv, Drain
  PROVE  TypeOK' /\ FullQueueSignalled'
<1>1. TypeOK
  BY DEF Inv
<1>2. queue' = <<>> /\ queue' \in Seq(Entry)
  BY EmptySeq DEF Drain
<1>3. jobs' \subseteq Job
  <2>1. \A f \in Firsts : Group(f) \in Job
    BY <1>1, GroupForm
  <2> QED
    BY <1>1, <2>1, Types DEF Drain
<1>4. TypeOK'
  BY <1>1, <1>2, <1>3, Types DEF TypeOK, Drain, slots
<1>5. Queued' = 0
  BY <1>2 DEF Queued
<1>6. FullQueueSignalled'
  BY <1>5, BatchAssumption DEF FullQueueSignalled
<1> QED
  BY <1>4, <1>6

(* and moves every entry into one job. *)
LEMMA DrainKeeps ==
  ASSUME Inv, Drain
  PROVE  Apart'
<1>1. TypeOK /\ QueuedOnce /\ GroupedOnce /\ NotBoth /\ \A d \in Client : Awaited(d)
  BY DEF Inv, Apart
<1>2. /\ queue' = <<>> /\ jobs' = jobs \cup {Group(f) : f \in Firsts}
      /\ results' = results /\ client' = client
  BY DEF Drain
<1>3. \A d : ~InQueue(d)'
  BY <1>2 DEF InQueue
<1>4. ASSUME NEW d
      PROVE  InJob(d)' <=> InJob(d) \/ InQueue(d)
  <2>1. ASSUME NEW f \in Firsts, d \in Group(f).clients
        PROVE  InQueue(d)
    BY <1>1, <2>1, GroupForm DEF InQueue
  <2>2. ASSUME InQueue(d)
        PROVE  \E f \in Firsts : d \in Group(f).clients
    <3>1. PICK i \in DOMAIN queue : queue[i].client = d
      BY <2>2 DEF InQueue
    <3>2. PICK f \in Firsts : queue[f].model = queue[i].model
      BY <1>1, FirstOfModel
    <3> QED
      BY <1>1, <3>1, <3>2, GroupForm
  <2> QED
    BY <1>2, <2>1, <2>2 DEF InJob
<1>5. QueuedOnce'
  BY <1>2 DEF QueuedOnce
<1>6. GroupedOnce'
  <2> SUFFICES ASSUME NEW j \in jobs', NEW k \in jobs',
                      NEW d \in j.clients, d \in k.clients
               PROVE  j = k
    BY DEF GroupedOnce
  <2>1. \A g \in jobs : g.clients \subseteq Client
    BY <1>1, Types DEF Job
  <2>2. \A f \in Firsts : d \in Group(f).clients => InQueue(d)
    BY <1>1, GroupForm DEF InQueue
  <2>3. ~(InJob(d) /\ InQueue(d))
    BY <1>1, <2>1 DEF NotBoth, InJob
  <2>4. CASE j \in jobs /\ k \in jobs
    BY <1>1, <2>4 DEF GroupedOnce
  <2>5. CASE j \notin jobs \/ k \notin jobs
    <3>1. ~InJob(d)
      BY <1>2, <2>2, <2>3, <2>5
    <3>2. PICK f \in Firsts, g \in Firsts : j = Group(f) /\ k = Group(g)
      BY <1>2, <3>1 DEF InJob
    <3>3. PICK i \in DOMAIN queue : queue[i].client = d /\ queue[i].model = queue[f].model
      BY <1>1, <3>2, GroupForm
    <3>4. PICK l \in DOMAIN queue : queue[l].client = d /\ queue[l].model = queue[g].model
      BY <1>1, <3>2, GroupForm
    <3>5. i = l
      BY <1>1, <3>3, <3>4 DEF QueuedOnce
    <3>6. f = g
      BY <1>1, <3>3, <3>4, <3>5, FirstsDiffer
    <3> QED
      BY <3>2, <3>6
  <2> QED
    BY <2>4, <2>5
<1>7. NotBoth'
  BY <1>3 DEF NotBoth
<1>8. \A d \in Client : Awaited(d)'
  BY <1>1, <1>2, <1>3, <1>4 DEF Awaited
<1> QED
  BY <1>5, <1>6, <1>7, <1>8 DEF Apart
-----------------------------------------------------------------------------
(* A job that ends takes its clients' entries along and leaves results. *)
LEMMA SettledKeeps ==
  ASSUME Inv, NEW j \in jobs, jobs' = jobs \ {j}, queue' = queue, client' = client,
         \A d \in Client : /\ d \in j.clients => results'[d] # "none"
                           /\ d \notin j.clients => results'[d] = results[d]
  PROVE  Apart'
<1>1. QueuedOnce /\ GroupedOnce /\ NotBoth /\ \A d \in Client : Awaited(d)
  BY DEF Inv, Apart
<1>2. QueuedOnce' /\ GroupedOnce'
  BY <1>1 DEF QueuedOnce, GroupedOnce
<1>3. \A d \in Client : InQueue(d)' <=> InQueue(d)
  BY DEF InQueue
<1>4. \A d \in Client : InJob(d)' <=> InJob(d) /\ d \notin j.clients
  BY <1>1 DEF InJob, GroupedOnce
<1>5. NotBoth'
  BY <1>1, <1>3, <1>4 DEF NotBoth
<1>6. ASSUME NEW d \in Client
      PROVE  Awaited(d)'
  <2>1. Awaited(d)
    BY <1>1
  <2>2. CASE d \in j.clients
    <3>1. InJob(d) /\ ~InQueue(d)
      BY <1>1, <2>2 DEF InJob, NotBoth
    <3>2. ~InJob(d)' /\ ~InQueue(d)' /\ results'[d] # "none"
      BY <1>3, <1>4, <2>2, <3>1
    <3>3. client'[d].pc \in Accepted
      BY <2>1, <3>1 DEF Awaited
    <3> QED
      BY <3>2, <3>3 DEF Awaited, Accepted, Early
  <2>3. CASE d \notin j.clients
    BY <1>3, <1>4, <2>1, <2>3 DEF Awaited
  <2> QED
    BY <2>2, <2>3
<1> QED
  BY <1>2, <1>5, <1>6 DEF Apart

(* So do a failed job, *)
LEMMA RejectKeeps ==
  ASSUME Inv, NEW j \in jobs, RejectAll(j)
  PROVE  TypeOK' /\ FullQueueSignalled' /\ Apart'
<1>1. TypeOK
  BY DEF Inv
<1>2. /\ results' = [c \in Client |-> IF c \in j.clients THEN "error" ELSE results[c]]
      /\ jobs' = jobs \ {j} /\ queue' = queue /\ queue_lock' = queue_lock
      /\ permit' = permit /\ flusher' = flusher /\ client' = client
      /\ in_flight' = in_flight /\ releasing' = releasing /\ caller' = caller
  BY DEF RejectAll, slots
<1>3. results' \in [Client -> {"none", "success", "error"}]
  BY <1>1, <1>2, Types
<1>4. TypeOK'
  BY <1>1, <1>2, <1>3, Types DEF TypeOK
<1>5. FullQueueSignalled'
  BY <1>2 DEF Inv, FullQueueSignalled, Queued
<1>6. \A d \in Client : /\ d \in j.clients => results'[d] # "none"
                        /\ d \notin j.clients => results'[d] = results[d]
  BY <1>2
<1> QED
  BY <1>2, <1>4, <1>5, <1>6, SettledKeeps

(* and one that has been downloaded. *)
LEMMA FinishKeeps ==
  ASSUME Inv, NEW j \in jobs, NEW good \in SUBSET Client, NEW used \in BOOLEAN,
         Finish(j, good, used)
  PROVE  TypeOK' /\ FullQueueSignalled' /\ Apart'
<1>1. TypeOK
  BY DEF Inv
<1>2. /\ results' = [c \in Client |->
                       IF c \in good THEN "success"
                       ELSE IF c \in j.clients THEN "error" ELSE results[c]]
      /\ jobs' = jobs \ {j} /\ queue' = queue /\ queue_lock' = queue_lock
      /\ permit' = permit /\ flusher' = flusher /\ client' = client
      /\ in_flight' = in_flight /\ caller' = caller /\ good \subseteq j.clients
  BY DEF Finish
<1>3. results' \in [Client -> {"none", "success", "error"}]
  BY <1>1, <1>2, Types
<1>4. releasing' \in [Bucket -> Nat]
  <2>1. CASE used
    <3> DEFINE b == <<j.model, j.key>>
    <3>1. b \in Bucket
      BY <1>1, Types, BatchAssumption DEF Job, Bucket
    <3>2. releasing' = [releasing EXCEPT ![b] = @ + 1]
      BY <2>1 DEF Finish
    <3> HIDE DEF b
    <3> QED
      BY <1>1, <3>1, <3>2, Types
  <2>2. CASE ~used
    <3>1. releasing' = releasing
      BY <2>2 DEF Finish
    <3> QED
      BY <1>1, <3>1, Types
  <2> QED
    BY <2>1, <2>2
<1>5. TypeOK'
  BY <1>1, <1>2, <1>3, <1>4, Types DEF TypeOK
<1>6. FullQueueSignalled'
  BY <1>2 DEF Inv, FullQueueSignalled, Queued
<1>7. \A d \in Client : /\ d \in j.clients => results'[d] # "none"
                        /\ d \notin j.clients => results'[d] = results[d]
  BY <1>2
<1> QED
  BY <1>2, <1>5, <1>6, <1>7, SettledKeeps

(* A job that goes on, or waits for ever, keeps its entries. *)
LEMMA StageKeeps ==
  ASSUME Inv, NEW j \in jobs, NextStage(j) \/ Stall(j)
  PROVE  TypeOK' /\ FullQueueSignalled' /\ Apart'
<1> DEFINE next == IF j.stage = "submit" THEN "poll" ELSE "download"
<1>0. PICK s \in {"poll", "download", "stalled"} :
        jobs' = (jobs \ {j}) \cup {[j EXCEPT !.stage = s]}
  <2>1. CASE NextStage(j)
    <3>1. jobs' = (jobs \ {j}) \cup {[j EXCEPT !.stage = next]}
      BY <2>1 DEF NextStage
    <3>2. next \in {"poll", "download", "stalled"}
      OBVIOUS
    <3> HIDE DEF next
    <3> QED
      BY <3>1, <3>2
  <2>2. CASE Stall(j)
    BY <2>2 DEF Stall
  <2> QED
    BY <2>1, <2>2
<1> DEFINE k == [j EXCEPT !.stage = s]
<1>1. TypeOK /\ QueuedOnce /\ GroupedOnce /\ NotBoth /\ \A d \in Client : Awaited(d)
  BY DEF Inv, Apart
<1>2. /\ jobs' = (jobs \ {j}) \cup {k} /\ queue' = queue /\ queue_lock' = queue_lock
      /\ permit' = permit /\ flusher' = flusher /\ client' = client /\ results' = results
      /\ in_flight' = in_flight /\ releasing' = releasing /\ caller' = caller
  BY <1>0 DEF NextStage, Stall, slots
<1>3. k \in Job /\ k.clients = j.clients
  <2>1. j \in Job /\ s \in {"poll", "download", "stalled"}
    BY <1>1, Types
  <2> QED
    BY <2>1 DEF Job
<1> HIDE DEF k
<1>4. TypeOK'
  BY <1>1, <1>2, <1>3, Types DEF TypeOK
<1>5. FullQueueSignalled'
  BY <1>2 DEF Inv, FullQueueSignalled, Queued
<1>6. QueuedOnce' /\ GroupedOnce'
  BY <1>1, <1>2, <1>3 DEF QueuedOnce, GroupedOnce
<1>7. \A d \in Client : (InQueue(d)' <=> InQueue(d)) /\ (InJob(d)' <=> InJob(d))
  BY <1>2, <1>3 DEF InQueue, InJob
<1>8. NotBoth' /\ \A d \in Client : Awaited(d)'
  BY <1>1, <1>2, <1>7 DEF NotBoth, Awaited
<1> QED
  BY <1>4, <1>5, <1>6, <1>8 DEF Apart
-----------------------------------------------------------------------------
(* Nothing is queued at first. *)
LEMMA Start ==
  Init => Inv
<1> SUFFICES ASSUME Init PROVE Inv
  OBVIOUS
<1>1. queue = <<>> /\ queue \in Seq(Entry)
  BY EmptySeq DEF Init
<1>2. Idle \in Handled /\ Idle.pc = "idle"
  BY ClientForms
<1>3. \A c \in Client : client[c] = Idle /\ results[c] = "none"
  BY DEF Init
<1>4. client \in [Client -> Handled]
  BY <1>2 DEF Init
<1>5. TypeOK
  BY <1>1, <1>4 DEF Init, TypeOK
<1>6. FullQueueSignalled
  <2>1. Queued = 0
    BY <1>1 DEF Queued
  <2> QED
    BY <2>1, BatchAssumption DEF FullQueueSignalled
<1>7. QueuedOnce /\ GroupedOnce
  BY <1>1 DEF Init, QueuedOnce, GroupedOnce
<1>8. \A c : ~InQueue(c) /\ ~InJob(c)
  BY <1>1 DEF Init, InQueue, InJob
<1>9. NotBoth /\ \A c \in Client : Awaited(c)
  BY <1>2, <1>3, <1>8 DEF NotBoth, Awaited, Accepted, Early
<1> QED
  BY <1>5, <1>6, <1>7, <1>9 DEF Inv, Apart

(* Every step of Next, and stuttering, keeps the invariant. *)
LEMMA Step ==
  Inv /\ [Next]_vars => Inv'
<1> SUFFICES ASSUME Inv, [Next]_vars PROVE Inv'
  OBVIOUS
<1>1. ASSUME NEW c \in Client, TypeOK' /\ Turn(c)
      PROVE  Inv'
  BY <1>1, TurnKeeps DEF Inv
<1>2. ASSUME TypeOK' /\ Elsewhere
      PROVE  Inv'
  BY <1>2, ElsewhereKeeps DEF Inv
<1>3. ASSUME NEW c \in Client, Submit(c)
      PROVE  Inv'
  BY <1>1, <1>3, SubmitTurn
<1>4. ASSUME NEW c \in Client, NEW b \in Bucket, Selected(c, b)
      PROVE  Inv'
  BY <1>1, <1>4, SelectedTurn
<1>5. ASSUME NEW c \in Client, Unavailable(c)
      PROVE  Inv'
  BY <1>1, <1>5, UnavailableTurn
<1>6. ASSUME NEW c \in Client, Refuse(c)
      PROVE  Inv'
  BY <1>1, <1>6, RefuseTurn
<1>7. ASSUME NEW c \in Client, Accept(c)
      PROVE  Inv'
  BY <1>1, <1>7, AcceptTurn
<1>8. ASSUME NEW c \in Client, Enqueue(c)
      PROVE  Inv'
  BY <1>8, EnqueueKeeps, EnqueueSignals DEF Inv
<1>9. ASSUME NEW c \in Client, Respond(c)
      PROVE  Inv'
  BY <1>1, <1>9, RespondTurn
<1>10. ASSUME NEW c \in Client, LostSelect(c)
       PROVE  Inv'
  BY <1>1, <1>10, LostSelectTurn
<1>11. ASSUME NEW c \in Client, Poll(c)
       PROVE  Inv'
  BY <1>1, <1>11, PollTurn
<1>12. ASSUME NEW c \in Client, Disconnect(c)
       PROVE  Inv'
  BY <1>1, <1>12, DisconnectTurn
<1>13. ASSUME NEW c \in Client, Forget(c)
       PROVE  Inv'
  BY <1>1, <1>13, ForgetTurn
<1>14. ASSUME NEW u \in Caller, NEW b \in Bucket, CallerSelects(u, b) \/ CallerReports(u, b)
       PROVE  Inv'
  BY <1>2, <1>14, CallerElsewhere
<1>15. ASSUME NEW b \in Bucket, Release(b)
       PROVE  Inv'
  BY <1>2, <1>15, ReleaseElsewhere
<1>16. ASSUME WindowOver \/ Notified
       PROVE  Inv'
  BY <1>2, <1>16, AwakeElsewhere
<1>17. ASSUME Drain
       PROVE  Inv'
  BY <1>17, DrainTypes, DrainKeeps DEF Inv
<1>18. ASSUME NEW j \in jobs, JobStep(j) \/ Stall(j)
       PROVE  Inv'
  <2>1. CASE RejectAll(j)
    BY <2>1, RejectKeeps DEF Inv
  <2>2. CASE NextStage(j) \/ Stall(j)
    BY <2>2, StageKeeps DEF Inv
  <2>3. ASSUME NEW good \in SUBSET Client, NEW used \in BOOLEAN, Finish(j, good, used)
        PROVE  Inv'
    BY <2>3, FinishKeeps DEF Inv
  <2> QED
    BY <1>18, <2>1, <2>2, <2>3 DEF JobStep
<1>19. CASE UNCHANGED vars
  <2>1. TypeOK' /\ Elsewhere
    BY <1>19 DEF vars, Inv, TypeOK, Elsewhere
  <2> QED
    BY <1>2, <2>1
<1>20. CASE Next
  BY <1>3, <1>4, <1>5, <1>6, <1>7, <1>8, <1>9, <1>10, <1>11, <1>12, <1>13, <1>14,
     <1>15, <1>16, <1>17, <1>18, <1>20 DEF Next, Handler
<1> QED
  BY <1>19, <1>20

(* In one place means at one position, in one job or with one result. *)
LEMMA OnePlace ==
  ASSUME Inv, NEW c \in Client, client[c].pc \in Accepted
  PROVE  Places(c) = 1
<1> DEFINE At == {i \in DOMAIN queue : queue[i].client = c}
           In == {j \in jobs : c \in j.clients}
<1>1. QueuedOnce /\ GroupedOnce /\ ~(InQueue(c) /\ InJob(c)) /\ Awaited(c)
  BY DEF Inv, Apart, NotBoth
<1>2. Cardinality({}) = 0
  BY FS_EmptySet
<1>3. Cardinality(At) = IF InQueue(c) THEN 1 ELSE 0
  <2>1. CASE InQueue(c)
    <3>1. PICK i \in DOMAIN queue : queue[i].client = c
      BY <2>1 DEF InQueue
    <3>2. At = {i}
      BY <1>1, <3>1 DEF QueuedOnce
    <3> QED
      BY <2>1, <3>2, FS_Singleton
  <2>2. CASE ~InQueue(c)
    <3>1. At = {}
      BY <2>2 DEF InQueue
    <3> QED
      BY <1>2, <2>2, <3>1
  <2> QED
    BY <2>1, <2>2
<1>4. Cardinality(In) = IF InJob(c) THEN 1 ELSE 0
  <2>1. CASE InJob(c)
    <3>1. PICK j \in jobs : c \in j.clients
      BY <2>1 DEF InJob
    <3>2. In = {j}
      BY <1>1, <3>1 DEF GroupedOnce
    <3> QED
      BY <2>1, <3>2, FS_Singleton
  <2>2. CASE ~InJob(c)
    <3>1. In = {}
      BY <2>2 DEF InJob
    <3> QED
      BY <1>2, <2>2, <3>1
  <2> QED
    BY <2>1, <2>2
<1>5. Places(c) = Cardinality(In) + Cardinality(At) + (IF results[c] = "none" THEN 0 ELSE 1)
  BY DEF Places
<1>6. \/ InQueue(c) /\ ~InJob(c) /\ results[c] = "none"
      \/ ~InQueue(c) /\ InJob(c) /\ results[c] = "none"
      \/ ~InQueue(c) /\ ~InJob(c) /\ results[c] # "none"
  BY <1>1 DEF Awaited
<1> HIDE DEF At, In
<1>7. CASE InQueue(c) /\ ~InJob(c) /\ results[c] = "none"
  BY <1>3, <1>4, <1>5, <1>7
<1>8. CASE ~InQueue(c) /\ InJob(c) /\ results[c] = "none"
  BY <1>3, <1>4, <1>5, <1>8
<1>9. CASE ~InQueue(c) /\ ~InJob(c) /\ results[c] # "none"
  BY <1>3, <1>4, <1>5, <1>9
<1> QED
  BY <1>6, <1>7, <1>8, <1>9
-----------------------------------------------------------------------------
(* The invariant holds in every reachable state. *)
THEOREM InvariantHolds ==
  Spec => []Inv
BY Start, Step, PTL DEF Spec

(* Every variable of the queue, its jobs and its users stays in its type. *)
THEOREM TypeCorrect ==
  Spec => []TypeOK
<1>1. Inv => TypeOK
  BY DEF Inv
<1> QED
  BY <1>1, InvariantHolds, PTL

(* A queue that has reached max_batch_size has been told to the flush task,  *)
(* in whatever order enqueues, wake-ups and drains come (enqueue's           *)
(* notify_one after the push, under the lock).                               *)
THEOREM FullQueueIsSignalled ==
  Spec => []FullQueueSignalled
<1>1. Inv => FullQueueSignalled
  BY DEF Inv
<1> QED
  BY <1>1, InvariantHolds, PTL

(* An accepted request is at one position of the queue, in one job or has    *)
(* its result: flush takes every model's entries into the job of that model, *)
(* and a job leaves a result for each of its entries, however it ends.       *)
THEOREM NoEntryIsLost ==
  Spec => []NoEntryLost
<1>1. Inv => NoEntryLost
  BY OnePlace DEF NoEntryLost, Accepted
<1> QED
  BY <1>1, InvariantHolds, PTL
=============================================================================
