-------------------------------- MODULE Proxy --------------------------------
(***************************************************************************)
(* ink/proxy/lib.rs: Acurast's contract on Aleph Zero.  Users pay for and  *)
(* register jobs through it; what they ask for becomes a numbered outgoing *)
(* action, a leaf of the state aggregator.  Messages from Acurast, proved  *)
(* against a root the validator contract has stored, assign processors and *)
(* finalize jobs; processors fulfill through it.                           *)
(*                                                                         *)
(* Acurast is the environment: it answers the jobs it knows of with the    *)
(* messages of Inbox, in their order.  Of the validator contract there is  *)
(* what the proxy asks it for: the roots, one snapshot after the other.    *)
(*                                                                         *)
(* A message that returns an error or panics changes nothing; arithmetic   *)
(* wraps (overflow-checks = false in the contract's profile).              *)
(***************************************************************************)
EXTENDS StateAggregator

CONSTANTS
  Accounts,      \* users and processors
  Requests,      \* what users send: a caller, a batch of actions and a value; an
                 \* action that is too big is an error, and not among them
  Inbox,         \* the messages of Acurast, a sequence; a message's id is its index
  MaxJobs,       \* bound: jobs registered
  MaxBlock,      \* bound: blocks
  MaxRoots,      \* bound: snapshots of Acurast
  MaxFulfills,   \* bound: calls of fulfill
  Durations,     \* the snapshot durations the owner may set
  Wrap           \* the integers are taken modulo this

Payload == [start_time : Nat, end_time : Nat, interval : Nat, slots : Nat, fee : Nat, reward : Nat]

UserAction ==
  [kind : {"register"}, payload : Payload]
    \cup [kind : {"deregister", "set_environment"}, job_id : Nat]
    \cup [kind : {"finalize"}, job_ids : SUBSET Nat]
    \cup [kind : {"noop"}]

IncomingAction ==
  [kind : {"assign"}, job_id : Nat, processor : Accounts]
    \cup [kind : {"finalize"}, job_id : Nat, unused_reward : Nat]
    \cup [kind : {"noop"}]

ASSUME ProxyAssumption ==
  /\ Requests \subseteq [caller : Accounts, actions : Seq(UserAction), value : Nat]
  /\ Inbox \in Seq(IncomingAction)
  /\ MaxJobs \in Nat /\ MaxBlock \in Nat /\ MaxRoots \in Nat /\ MaxFulfills \in Nat
  /\ Durations \subseteq Nat
  /\ Wrap \in Nat \ {0}

VARIABLES
  proxy,       \* the contract: next_job_id, actions, job_info, processed, balance, paused
  aggregator,  \* the state aggregator
  block,       \* the block being built
  stateAt,     \* the aggregator's leaves at the end of each block so far
  shortened,   \* the blocks in which the owner lowered the snapshot duration
  published,   \* the number of messages Acurast has sent
  roots,       \* the validator's roots: the number of messages under each
  fulfills

vars == <<proxy, aggregator, block, stateAt, shortened, published, roots, fulfills>>

Messages == DOMAIN Inbox
NoJob == [status |-> "none"]

\* An outgoing action's id is its index in actions.
NewProxy ==
  [next_job_id |-> 1, actions |-> <<>>, processed |-> {}, balance |-> 0, paused |-> FALSE,
   job_info |-> [j \in 1 .. MaxJobs + 1 |-> NoJob]]

(***************************************************************************)
(* send_actions.                                                           *)
(***************************************************************************)
\* ExchangeRatio of 1 to 10; the rounding adds one to what is not nothing.
exchange_price(amount) ==
  LET price == amount \div 10 IN IF price # 0 THEN price + 1 ELSE price

execution_count(payload) == (payload.end_time - payload.start_time) \div payload.interval

expected_fee(payload) == payload.slots * execution_count(payload) * payload.fee

maximum_reward(payload) == payload.slots * execution_count(payload) * payload.reward

JobOf(caller, payload) ==
  [creator |-> caller, processors |-> <<>>, fee |-> payload.fee,
   remaining_fee |-> expected_fee(payload), maximum_reward |-> maximum_reward(payload),
   slots |-> payload.slots, status |-> "open", end_time |-> payload.end_time]

Known(p, job_id) == job_id \in DOMAIN p.job_info /\ p.job_info[job_id] # NoJob

\* end_time in seconds, the timestamp as the chain gives it.
is_expired(job) == job.end_time \div 1000 < block

\* The checks of one user action; every register of a batch is compared with the
\* whole value sent.
Accepted(p, caller, action, value) ==
  CASE action.kind = "register" ->
         /\ action.payload.interval # 0
         /\ value = expected_fee(action.payload)
                      + exchange_price(maximum_reward(action.payload))
    [] action.kind \in {"deregister", "set_environment"} ->
         Known(p, action.job_id) /\ p.job_info[action.job_id].creator = caller
    [] action.kind = "finalize" ->
         \A id \in action.job_ids :
           /\ Known(p, id) /\ p.job_info[id].creator = caller
           /\ is_expired(p.job_info[id])
    [] action.kind = "noop" -> TRUE

\* A registered job carries next_job_id, and is kept under the number after it.
Registered(p, caller, action) ==
  IF action.kind # "register" THEN p
  ELSE [p EXCEPT !.next_job_id = @ + 1,
                 !.job_info[p.next_job_id + 1] = JobOf(caller, action.payload)]

\* The jobs that the outgoing action names.
job_ids(p, action) ==
  CASE action.kind = "register" -> {p.next_job_id}
    [] action.kind = "finalize" -> action.job_ids
    [] action.kind = "noop" -> {}
    [] OTHER -> {action.job_id}

\* One action of a batch, on [proxy, aggregator]: checked, recorded, inserted.
send_action(s, caller, action) ==
  LET outgoing == [id |-> Len(s.proxy.actions) + 1, origin |-> caller, kind |-> action.kind,
                   job_ids |-> job_ids(s.proxy, action)]
      inserted == insert(s.aggregator, block, outgoing)
      entry    == [leaf_index |-> inserted.leaf_index, snapshot |-> inserted.snapshot,
                   action |-> outgoing]
  IN  [proxy      |-> [Registered(s.proxy, caller, action)
                       EXCEPT !.actions = Append(@, entry)],
       aggregator |-> inserted.agg]

\* The storage after each action of a batch; the value comes with the call.
Sending(request) ==
  LET after[k \in 0 .. Len(request.actions)] ==
        IF k = 0 THEN [proxy      |-> [proxy EXCEPT !.balance = @ + request.value],
                       aggregator |-> aggregator]
        ELSE send_action(after[k - 1], request.caller, request.actions[k])
  IN  after

send_actions(request) ==
  LET batch == request.actions
      after == Sending(request)
  IN  /\ ~ proxy.paused
      /\ proxy.next_job_id
           + Cardinality({k \in DOMAIN batch : batch[k].kind = "register"}) <= MaxJobs + 1
      /\ Len(proxy.actions) + Len(batch) <= MaxLeaves
      /\ \A k \in DOMAIN batch :
           Accepted(after[k - 1].proxy, request.caller, batch[k], request.value)
      /\ proxy' = after[Len(batch)].proxy
      /\ aggregator' = after[Len(batch)].aggregator
      /\ UNCHANGED <<block, stateAt, shortened, published, roots, fulfills>>

(***************************************************************************)
(* receive_actions, for the messages in ids, proved against one root.      *)
(***************************************************************************)
\* AssignJobProcessor: the processor gets the fee of one fulfillment.
AssignJobProcessor(p, message) ==
  LET job        == p.job_info[message.job_id]
      processors == Append(job.processors, message.processor)
  IN  [p EXCEPT !.balance = @ - job.fee,
                !.job_info[message.job_id] =
                   [job EXCEPT !.processors = processors,
                               !.remaining_fee = (@ - job.fee) % Wrap,
                               !.status = IF Len(processors) = job.slots
                                          THEN "assigned" ELSE @]]

FinalizeJob(p, message) ==
  LET job == p.job_info[message.job_id]
  IN  [p EXCEPT !.balance = @ - ((job.remaining_fee + message.unused_reward) % Wrap),
                !.job_info[message.job_id].status = "finalized"]

\* Mutant: the message is not noted.
process_unmarked(p, id) ==
  CASE Inbox[id].kind = "assign"   -> AssignJobProcessor(p, Inbox[id])
    [] Inbox[id].kind = "finalize" -> FinalizeJob(p, Inbox[id])
    [] Inbox[id].kind = "noop"     -> p

process(p, id) ==
  LET marked == [p EXCEPT !.processed = @ \cup {id}]
  IN  CASE Inbox[id].kind = "assign"   -> AssignJobProcessor(marked, Inbox[id])
        [] Inbox[id].kind = "finalize" -> FinalizeJob(marked, Inbox[id])
        [] Inbox[id].kind = "noop"     -> marked

\* What must hold of a message, and of the balance after it, for it not to panic.
Processable(p, id) ==
  /\ id \notin p.processed
  /\ Inbox[id].kind # "noop" => Known(p, Inbox[id].job_id)
  /\ Inbox[id].kind = "finalize" =>
       Inbox[id].unused_reward <= p.job_info[Inbox[id].job_id].maximum_reward
  /\ process(p, id).balance >= 0

\* The storage after the messages of ids up to each number: they are sorted.
Receiving(ids) ==
  LET after[id \in 0 .. Len(Inbox)] ==
        IF id = 0 THEN proxy
        ELSE IF id \in ids THEN process(after[id - 1], id) ELSE after[id - 1]
  IN  after

receive_actions(snapshot, ids) ==
  LET after == Receiving(ids)
  IN  /\ ~ proxy.paused
      /\ ids # {} /\ ids \subseteq 1 .. roots[snapshot]
      /\ \A id \in ids : Processable(after[id - 1], id)
      /\ proxy' = after[Len(Inbox)]
      /\ UNCHANGED <<aggregator, block, stateAt, shortened, published, roots, fulfills>>

(***************************************************************************)
(* fulfill, and the owner.                                                 *)
(***************************************************************************)
\* The destination gets the fee of the next execution while there is one.
fulfill(caller, j) ==
  LET job  == proxy.job_info[j]
      next_execution_fee == IF job.remaining_fee >= job.fee THEN job.fee ELSE 0
  IN  /\ ~ proxy.paused /\ fulfills < MaxFulfills
      /\ Known(proxy, j)
      /\ caller \in Range(job.processors) /\ job.status = "assigned"
      /\ proxy.balance >= next_execution_fee
      /\ proxy' = [proxy EXCEPT !.balance = @ - next_execution_fee,
                                !.job_info[j].remaining_fee = @ - next_execution_fee]
      /\ fulfills' = fulfills + 1
      /\ UNCHANGED <<aggregator, block, stateAt, shortened, published, roots>>

SetPaused(paused) ==
  /\ proxy' = [proxy EXCEPT !.paused = paused]
  /\ UNCHANGED <<aggregator, block, stateAt, shortened, published, roots, fulfills>>

SetSnapshotDuration(duration) ==
  /\ aggregator' = [aggregator EXCEPT !.duration = duration]
  /\ shortened' = IF duration < aggregator.duration THEN shortened \cup {block} ELSE shortened
  /\ UNCHANGED <<proxy, block, stateAt, published, roots, fulfills>>

snapshot ==
  /\ CanSnapshot(aggregator, block)
  /\ aggregator' = finalize_snapshot(aggregator, block)
  /\ UNCHANGED <<proxy, block, stateAt, shortened, published, roots, fulfills>>

(***************************************************************************)
(* The environment.                                                        *)
(***************************************************************************)
NextBlock ==
  /\ block < MaxBlock
  /\ block' = block + 1
  /\ stateAt' = Append(stateAt, aggregator.leaves)
  /\ UNCHANGED <<proxy, aggregator, shortened, published, roots, fulfills>>

Publish ==
  /\ published < Len(Inbox)
  /\ LET message == Inbox[published + 1] IN
     message.kind # "noop" => message.job_id < proxy.next_job_id
  /\ published' = published + 1
  /\ UNCHANGED <<proxy, aggregator, block, stateAt, shortened, roots, fulfills>>

\* submit_root by the validator that completes the consensus on the current
\* snapshot: the root it has submitted is stored.  Which submissions are counted
\* is left out; a validator submits the root of a state that Acurast has been in.
submit_root(covered) ==
  /\ Len(roots) < MaxRoots
  /\ roots' = Append(roots, covered)
  /\ UNCHANGED <<proxy, aggregator, block, stateAt, shortened, published, fulfills>>

-----------------------------------------------------------------------------
Init ==
  /\ proxy = NewProxy
  /\ \E duration \in Durations : aggregator = NewAggregator(duration)
  /\ block = 2 /\ stateAt = << <<>> >> /\ shortened = {}
  /\ published = 0 /\ roots = <<>> /\ fulfills = 0

Next ==
  \/ \E request \in Requests : send_actions(request)
  \/ \E s \in DOMAIN roots, ids \in SUBSET Messages : receive_actions(s, ids)
  \/ \E id \in Messages, j \in DOMAIN proxy.job_info :
       Inbox[id].kind = "assign" /\ fulfill(Inbox[id].processor, j)
  \/ \E paused \in BOOLEAN : SetPaused(paused)
  \/ \E duration \in Durations : SetSnapshotDuration(duration)
  \/ snapshot
  \/ NextBlock \/ Publish
  \/ \E covered \in 0 .. published : submit_root(covered)

Spec == Init /\ [][Next]_vars

(***************************************************************************)
(* Properties.                                                             *)
(***************************************************************************)
\* The leaves against which an action of snapshot s is proved: those at the end
\* of the block snapshot_level gives, or the present ones.
LeavesOf(s) ==
  IF s < aggregator.counter THEN stateAt[aggregator.snapshot_level[s]]
  ELSE aggregator.leaves

\* Every action a user sent, with the position and the snapshot that action_info
\* returns for it, is a leaf there of the root of that snapshot, however sends,
\* snapshots and blocks interleave; only the owner can break it, by shortening
\* the duration in the block that follows the snapshot's (send_actions, insert,
\* finalize_snapshot).
SentProvable ==
  \A k \in DOMAIN proxy.actions :
    LET sent == proxy.actions[k] IN
    \/ /\ sent.snapshot < aggregator.counter
       /\ aggregator.snapshot_level[sent.snapshot] + 1 \in shortened
    \/ \E i \in DOMAIN LeavesOf(sent.snapshot) :
         /\ leaf_index_to_pos(i - 1) = sent.leaf_index
         /\ LeavesOf(sent.snapshot)[i] = sent.action

\* A job's processors are those of the assignments processed for it, each once,
\* whatever proofs overlap, are repeated or arrive out of order, and whichever
\* batch fails half-way (receive_actions).
AssignedOnce ==
  \A j \in DOMAIN proxy.job_info : Known(proxy, j) =>
    LET assigned == {id \in proxy.processed :
                       Inbox[id].kind = "assign" /\ Inbox[id].job_id = j}
    IN  /\ Range(proxy.job_info[j].processors) = {Inbox[id].processor : id \in assigned}
        /\ Len(proxy.job_info[j].processors) = Cardinality(assigned)

=============================================================================
