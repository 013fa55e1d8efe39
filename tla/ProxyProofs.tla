----------------------------- MODULE ProxyProofs -----------------------------
(***************************************************************************)
(* AssignedOnce and SentProvable of Proxy, for any users, requests,        *)
(* messages, snapshot durations and widths of the integers.                *)
(***************************************************************************)
EXTENDS Proxy, SumsProofs, TLAPS

-----------------------------------------------------------------------------
(***************************************************************************)
(* The two loops.  A batch is a recursive function of the number of        *)
(* actions done; it exists, so that its equation holds.                    *)
(***************************************************************************)
\* A request is a caller, a batch and a value.
LEMMA RequestFacts ==
  ASSUME NEW request \in Requests
  PROVE  /\ request.caller \in Accounts /\ request.value \in Nat
         /\ request.actions \in Seq(UserAction)
         /\ Len(request.actions) \in Nat
         /\ DOMAIN request.actions = 1 .. Len(request.actions)
         /\ \A k \in DOMAIN request.actions : request.actions[k] \in UserAction
<1>1. request \in [caller : Accounts, actions : Seq(UserAction), value : Nat]
  BY ProxyAssumption
<1> QED BY <1>1

\* The messages are numbered from 1 on.
LEMMA InboxFacts ==
  /\ Len(Inbox) \in Nat /\ Messages = 1 .. Len(Inbox)
  /\ \A id \in Messages : Inbox[id] \in IncomingAction
BY ProxyAssumption DEF Messages

\* send_actions: the state before the first action, and after each.
LEMMA SendingIs ==
  ASSUME NEW request \in Requests
  PROVE  /\ Sending(request)[0] = [proxy |-> [proxy EXCEPT !.balance = @ + request.value],
                                   aggregator |-> aggregator]
         /\ \A k \in 1 .. Len(request.actions) :
              Sending(request)[k]
                = send_action(Sending(request)[k - 1], request.caller, request.actions[k])
<1> DEFINE n == Len(request.actions)
           x == [proxy |-> [proxy EXCEPT !.balance = @ + request.value], aggregator |-> aggregator]
           D(g, m) == g = [k \in 0 .. m |->
                             IF k = 0 THEN x
                             ELSE send_action(g[k - 1], request.caller, request.actions[k])]
           T == { m \in Nat : \E g : D(g, m) }
<1>0. n \in Nat
  BY RequestFacts
<1>1. Sending(request) = CHOOSE g : D(g, n)
  BY Zenon DEF Sending
<1> HIDE DEF n, x
<1>2. 0 \in T
  <2>1. D([k \in 0 .. 0 |-> x], 0)
    OBVIOUS
  <2> QED BY <2>1
<1>3. ASSUME NEW m \in Nat, m \in T PROVE m + 1 \in T
  <2>1. PICK g : D(g, m)
    BY <1>3
  <2> DEFINE h == [k \in 0 .. m + 1 |->
                     IF k = m + 1 THEN send_action(g[m], request.caller, request.actions[m + 1])
                     ELSE g[k]]
  <2>2. ASSUME NEW k \in 0 .. m + 1
        PROVE  h[k] = IF k = 0 THEN x
                      ELSE send_action(h[k - 1], request.caller, request.actions[k])
    <3>1. CASE k = m + 1
      BY <3>1
    <3>2. CASE k # m + 1
      <4>1. /\ k \in 0 .. m
            /\ g[k] = IF k = 0 THEN x ELSE send_action(g[k - 1], request.caller, request.actions[k])
        BY <2>1, <3>2
      <4> QED BY <4>1
    <3> QED BY <3>1, <3>2
  <2>3. D(h, m + 1)
    BY <2>2
  <2> HIDE DEF h
  <2> QED BY <2>3
<1>4. \E g : D(g, n)
  <2> HIDE DEF T
  <2>1. n \in T
    BY <1>0, <1>2, <1>3, SetInduction
  <2> QED BY <2>1 DEF T
<1>5. D(CHOOSE g : D(g, n), n)
  BY <1>4, Zenon
<1>6. PICK f : f = Sending(request) /\ D(f, n)
  BY <1>1, <1>5, Zenon
<1>7. /\ f[0] = x
      /\ \A k \in 1 .. n : f[k] = send_action(f[k - 1], request.caller, request.actions[k])
  BY <1>0, <1>6
<1> QED BY <1>6, <1>7, Zenon DEF n, x


\* receive_actions: the storage before the first message, and after each.
LEMMA ReceivingIs ==
  ASSUME NEW ids
  PROVE  /\ Receiving(ids)[0] = proxy
         /\ \A id \in Messages :
              Receiving(ids)[id] = IF id \in ids THEN process(Receiving(ids)[id - 1], id)
                                   ELSE Receiving(ids)[id - 1]
<1> DEFINE n == Len(Inbox)
           S(p, id) == IF id \in ids THEN process(p, id) ELSE p
           D(g, m) == g = [id \in 0 .. m |-> IF id = 0 THEN proxy
                                             ELSE IF id \in ids THEN process(g[id - 1], id)
                                             ELSE g[id - 1]]
           T == { m \in Nat : \E g : D(g, m) }
<1>0. n \in Nat /\ Messages = 1 .. n
  BY InboxFacts
<1>1. Receiving(ids) = CHOOSE g : D(g, n)
  BY Zenon DEF Receiving
<1> HIDE DEF n
<1>2. 0 \in T
  <2>1. D([id \in 0 .. 0 |-> proxy], 0)
    OBVIOUS
  <2> QED BY <2>1
<1>3. ASSUME NEW m \in Nat, m \in T PROVE m + 1 \in T
  <2>1. PICK g : D(g, m)
    BY <1>3
  <2> DEFINE h == [id \in 0 .. m + 1 |-> IF id = m + 1 THEN S(g[m], m + 1) ELSE g[id]]
  <2>2. ASSUME NEW id \in 0 .. m + 1
        PROVE  h[id] = IF id = 0 THEN proxy
                       ELSE IF id \in ids THEN process(h[id - 1], id) ELSE h[id - 1]
    <3>1. CASE id = m + 1
      BY <3>1
    <3>2. CASE id # m + 1
      <4>1. /\ id \in 0 .. m
            /\ g[id] = IF id = 0 THEN proxy
                       ELSE IF id \in ids THEN process(g[id - 1], id) ELSE g[id - 1]
        BY <2>1, <3>2
      <4> QED BY <4>1
    <3> QED BY <3>1, <3>2
  <2>3. D(h, m + 1)
    BY <2>2
  <2> HIDE DEF h
  <2> QED BY <2>3
<1>4. \E g : D(g, n)
  <2> HIDE DEF T
  <2>1. n \in T
    BY <1>0, <1>2, <1>3, SetInduction
  <2> QED BY <2>1 DEF T
<1>5. D(CHOOSE g : D(g, n), n)
  BY <1>4, Zenon
<1>6. PICK f : f = Receiving(ids) /\ D(f, n)
  BY <1>1, <1>5, Zenon
<1>7. /\ f[0] = proxy
      /\ \A id \in 1 .. n : f[id] = IF id \in ids THEN process(f[id - 1], id) ELSE f[id - 1]
  BY <1>0, <1>6
<1> QED BY <1>0, <1>6, <1>7, Zenon

-----------------------------------------------------------------------------
(***************************************************************************)
(* The jobs.  Beside AssignedOnce the invariant says that a job number not *)
(* given yet is not known, and that an assignment was only ever processed  *)
(* for a known job: so a new job starts with no processed assignment.      *)
(***************************************************************************)
JobNumbers == 1 .. MaxJobs + 1

Job ==
  [creator : Accounts, processors : Seq(Accounts), fee : Nat, remaining_fee : Int,
   maximum_reward : Int, slots : Nat, status : {"open", "assigned", "finalized"},
   end_time : Nat]

Outgoing ==
  [id : Nat, origin : Accounts, job_ids : SUBSET Nat,
   kind : {"register", "deregister", "set_environment", "finalize", "noop"}]

Entry ==
  [leaf_index : {leaf_index_to_pos(n) : n \in Nat}, snapshot : Nat \ {0}, action : Outgoing]

ProxyType ==
  [next_job_id : Nat, actions : Seq(Entry), processed : SUBSET Messages, balance : Int,
   paused : BOOLEAN, job_info : [JobNumbers -> Job \cup {NoJob}]]

\* The messages processed that assign job j.
AssignedTo(p, j) == {id \in p.processed : Inbox[id].kind = "assign" /\ Inbox[id].job_id = j}

Books(p) ==
  /\ p \in ProxyType
  /\ \A j \in JobNumbers : p.job_info[j] # NoJob =>
       /\ j <= p.next_job_id
       /\ Range(p.job_info[j].processors) = {Inbox[id].processor : id \in AssignedTo(p, j)}
       /\ Len(p.job_info[j].processors) = Cardinality(AssignedTo(p, j))
  /\ \A id \in p.processed : Inbox[id].kind = "assign" =>
       Inbox[id].job_id \in JobNumbers /\ p.job_info[Inbox[id].job_id] # NoJob

\* AssignedOnce is a part of the invariant.
LEMMA BooksAssignedOnce == Books(proxy) => AssignedOnce
<1> SUFFICES ASSUME Books(proxy) PROVE AssignedOnce
  OBVIOUS
<1>1. DOMAIN proxy.job_info = JobNumbers
  BY DEF Books, ProxyType
<1> QED BY <1>1 DEF Books, AssignedOnce, AssignedTo, Known

\* A job is not the record of a missing one.
LEMMA JobIsNotNone ==
  ASSUME NEW job \in Job
  PROVE  job # NoJob
<1>1. job.status # "none" /\ NoJob.status = "none"
  BY DEF Job, NoJob
<1> QED BY <1>1

\* Messages are finitely many, so the processed assignments of a job can be counted.
LEMMA AssignedFinite ==
  ASSUME NEW p, Books(p), NEW j
  PROVE  IsFiniteSet(AssignedTo(p, j)) /\ Cardinality(AssignedTo(p, j)) \in Nat
<1>1. IsFiniteSet(Messages)
  BY InboxFacts, FS_Interval
<1>2. AssignedTo(p, j) \subseteq Messages
  BY DEF Books, ProxyType, AssignedTo
<1> QED BY <1>1, <1>2, FS_Subset, FS_CardinalityType

\* Appending a processor adds it to those a job has.
LEMMA AppendRange ==
  ASSUME NEW s \in Seq(Accounts), NEW x \in Accounts
  PROVE  /\ Append(s, x) \in Seq(Accounts)
         /\ Range(Append(s, x)) = Range(s) \cup {x}
         /\ Len(Append(s, x)) = Len(s) + 1
<1> DEFINE t == Append(s, x)
<1>1. /\ t \in Seq(Accounts) /\ Len(t) = Len(s) + 1 /\ Len(s) \in Nat
      /\ DOMAIN s = 1 .. Len(s) /\ DOMAIN t = 1 .. Len(s) + 1
      /\ t[Len(s) + 1] = x /\ \A k \in 1 .. Len(s) : t[k] = s[k]
  OBVIOUS
<1> HIDE DEF t
<1>2. Range(t) = Range(s) \cup {x}
  <2>1. Len(s) + 1 \in DOMAIN t /\ DOMAIN t = DOMAIN s \cup {Len(s) + 1}
    BY <1>1
  <2> QED BY <1>1, <2>1 DEF Range
<1> QED BY <1>1, <1>2 DEF t

\* AssignJobProcessor: the assignment of a message not processed before.
LEMMA AssignKeeps ==
  ASSUME NEW p, Books(p), NEW id \in Messages, Processable(p, id), Inbox[id].kind = "assign"
  PROVE  Books(process(p, id)) /\ process(p, id).actions = p.actions
<1> DEFINE j == Inbox[id].job_id
           job == p.job_info[j]
           processor == Inbox[id].processor
           q == process(p, id)
<1>1. j \in JobNumbers /\ processor \in Accounts /\ job \in Job /\ id \notin p.processed
  <2>1. processor \in Accounts
    BY InboxFacts DEF IncomingAction
  <2>2. j \in DOMAIN p.job_info /\ job # NoJob /\ id \notin p.processed
    BY DEF Processable, Known
  <2> QED BY <2>1, <2>2 DEF Books, ProxyType
<1> DEFINE changed == [job EXCEPT !.processors = Append(job.processors, processor),
                                  !.remaining_fee = (@ - job.fee) % Wrap,
                                  !.status = IF Len(Append(job.processors, processor)) = job.slots
                                             THEN "assigned" ELSE @]
<1>2. q = [p EXCEPT !.processed = @ \cup {id}, !.balance = @ - job.fee,
                    !.job_info[j] = changed]
  BY <1>1 DEF process, AssignJobProcessor, Books, ProxyType
<1>3. /\ changed \in Job /\ changed.processors = Append(job.processors, processor)
      /\ changed # NoJob
  <2> HIDE DEF job, processor
  <2>1. job.processors \in Seq(Accounts) /\ job.remaining_fee \in Int /\ job.fee \in Int
    BY <1>1 DEF Job
  <2>2. Append(job.processors, processor) \in Seq(Accounts)
    BY <1>1, <2>1, AppendRange
  <2>3. (job.remaining_fee - job.fee) % Wrap \in Int
    BY <2>1, ProxyAssumption
  <2>4. changed \in Job /\ changed.processors = Append(job.processors, processor)
    BY <1>1, <2>2, <2>3 DEF Job
  <2> QED BY <2>4, JobIsNotNone
<1> HIDE DEF changed
<1>4. /\ q \in ProxyType /\ q.actions = p.actions /\ q.next_job_id = p.next_job_id
      /\ q.processed = p.processed \cup {id}
      /\ q.job_info[j] = changed /\ \A i \in JobNumbers \ {j} : q.job_info[i] = p.job_info[i]
  <2> DEFINE info == [p.job_info EXCEPT ![j] = changed]
             paid == p.balance - job.fee
             done == p.processed \cup {id}
  <2>1. /\ p \in ProxyType /\ job.fee \in Int
        /\ p.job_info \in [JobNumbers -> Job \cup {NoJob}] /\ p.balance \in Int
    <3>1. p \in ProxyType
      BY DEF Books
    <3>2. job.fee \in Int
      <4> HIDE DEF job
      <4> QED BY <1>1 DEF Job
    <3> QED BY <3>1, <3>2 DEF ProxyType
  <2>2. /\ info \in [JobNumbers -> Job \cup {NoJob}] /\ info[j] = changed
        /\ \A i \in JobNumbers \ {j} : info[i] = p.job_info[i]
    BY <1>1, <1>3, <2>1
  <2>3. paid \in Int /\ done \in SUBSET Messages
    BY <2>1 DEF ProxyType
  <2>4. q = [p EXCEPT !.processed = done, !.balance = paid, !.job_info = info]
    BY <1>2, <2>1 DEF ProxyType
  <2> HIDE DEF q, info, paid, done
  <2>5. /\ q \in ProxyType /\ q.actions = p.actions /\ q.next_job_id = p.next_job_id
        /\ q.processed = done /\ q.job_info = info
    BY <2>1, <2>2, <2>3, <2>4 DEF ProxyType
  <2> QED BY <2>2, <2>5 DEF done
<1> HIDE DEF q
<1>5. \A i \in JobNumbers \ {j} : AssignedTo(q, i) = AssignedTo(p, i)
  BY <1>4 DEF AssignedTo
<1>6. AssignedTo(q, j) = AssignedTo(p, j) \cup {id} /\ id \notin AssignedTo(p, j)
  BY <1>1, <1>4 DEF AssignedTo
<1>7. Cardinality(AssignedTo(q, j)) = Cardinality(AssignedTo(p, j)) + 1
  BY <1>6, AssignedFinite, FS_AddElement
<1>8. job # NoJob
  BY <1>1, JobIsNotNone
<1>9. /\ Range(changed.processors) = {Inbox[m].processor : m \in AssignedTo(q, j)}
      /\ Len(changed.processors) = Cardinality(AssignedTo(q, j))
  <2>1. job.processors \in Seq(Accounts)
    BY <1>1 DEF Job
  <2>2. /\ Range(job.processors) = {Inbox[m].processor : m \in AssignedTo(p, j)}
        /\ Len(job.processors) = Cardinality(AssignedTo(p, j))
    BY <1>1, <1>8 DEF Books
  <2> HIDE DEF job
  <2> QED BY <1>1, <1>3, <1>6, <1>7, <2>1, <2>2, AppendRange
<1>10. Books(q)
  <2>1. ASSUME NEW i \in JobNumbers, q.job_info[i] # NoJob
        PROVE  /\ i <= q.next_job_id
               /\ Range(q.job_info[i].processors) = {Inbox[m].processor : m \in AssignedTo(q, i)}
               /\ Len(q.job_info[i].processors) = Cardinality(AssignedTo(q, i))
    <3>1. CASE i = j
      BY <1>1, <1>4, <1>8, <1>9, <3>1 DEF Books
    <3>2. CASE i # j
      BY <1>4, <1>5, <2>1, <3>2 DEF Books
    <3> QED BY <3>1, <3>2
  <2>2. ASSUME NEW m \in q.processed, Inbox[m].kind = "assign"
        PROVE  Inbox[m].job_id \in JobNumbers /\ q.job_info[Inbox[m].job_id] # NoJob
    BY <1>1, <1>3, <1>4, <2>2 DEF Books
  <2> QED BY <1>4, <2>1, <2>2 DEF Books
<1> QED BY <1>4, <1>10 DEF q

\* What leaves the processors of every job and the assignments processed alone.
LEMMA SameBooks ==
  ASSUME NEW p, Books(p), NEW q \in ProxyType, q.next_job_id >= p.next_job_id,
         \A id \in q.processed : Inbox[id].kind = "assign" => id \in p.processed,
         p.processed \subseteq q.processed,
         \A j \in JobNumbers :
           \/ q.job_info[j] = p.job_info[j]
           \/ /\ p.job_info[j] # NoJob /\ q.job_info[j] # NoJob
              /\ q.job_info[j].processors = p.job_info[j].processors
  PROVE  Books(q)
<1>1. \A j \in JobNumbers : AssignedTo(q, j) = AssignedTo(p, j)
  BY DEF AssignedTo
<1>2. \A j \in JobNumbers : q.job_info[j] # NoJob =>
        /\ p.job_info[j] # NoJob
        /\ q.job_info[j].processors = p.job_info[j].processors
  OBVIOUS
<1>3. ASSUME NEW j \in JobNumbers, q.job_info[j] # NoJob
      PROVE  /\ j <= q.next_job_id
             /\ Range(q.job_info[j].processors) = {Inbox[m].processor : m \in AssignedTo(q, j)}
             /\ Len(q.job_info[j].processors) = Cardinality(AssignedTo(q, j))
  <2>1. j <= q.next_job_id
    <3>1. j <= p.next_job_id /\ p.next_job_id \in Nat /\ q.next_job_id \in Nat /\ j \in Int
      BY <1>2, <1>3 DEF Books, ProxyType, JobNumbers
    <3> QED BY <3>1
  <2> QED BY <1>1, <1>2, <1>3, <2>1 DEF Books
<1>4. ASSUME NEW id \in q.processed, Inbox[id].kind = "assign"
      PROVE  Inbox[id].job_id \in JobNumbers /\ q.job_info[Inbox[id].job_id] # NoJob
  BY <1>4 DEF Books
<1> QED BY <1>3, <1>4 DEF Books

\* FinalizeJob leaves the processors of the job as they are.
LEMMA FinalizeKeeps ==
  ASSUME NEW p, Books(p), NEW id \in Messages, Processable(p, id), Inbox[id].kind = "finalize"
  PROVE  Books(process(p, id)) /\ process(p, id).actions = p.actions
<1> DEFINE j == Inbox[id].job_id
           job == p.job_info[j]
           q == process(p, id)
           refund == (job.remaining_fee + Inbox[id].unused_reward) % Wrap
           info == [p.job_info EXCEPT ![j] = [job EXCEPT !.status = "finalized"]]
           done == p.processed \cup {id}
           paid == p.balance - refund
<1>1. j \in JobNumbers /\ job \in Job /\ Inbox[id].unused_reward \in Int
  <2>1. Inbox[id].unused_reward \in Int
    BY InboxFacts DEF IncomingAction
  <2>2. j \in DOMAIN p.job_info /\ job # NoJob
    BY DEF Processable, Known
  <2> QED BY <2>1, <2>2 DEF Books, ProxyType
<1>2. p \in ProxyType
  BY DEF Books
<1>3. /\ [job EXCEPT !.status = "finalized"] \in Job
      /\ [job EXCEPT !.status = "finalized"].processors = job.processors
      /\ job.remaining_fee \in Int
  <2> HIDE DEF job
  <2> QED BY <1>1 DEF Job
<1>4. /\ info \in [JobNumbers -> Job \cup {NoJob}]
      /\ \A i \in JobNumbers \ {j} : info[i] = p.job_info[i]
      /\ info[j] # NoJob /\ info[j].processors = job.processors /\ job # NoJob
  <2>1. p.job_info \in [JobNumbers -> Job \cup {NoJob}]
    BY <1>2 DEF ProxyType
  <2>2. job # NoJob /\ [job EXCEPT !.status = "finalized"] # NoJob
    BY <1>1, <1>3, JobIsNotNone
  <2> QED BY <1>1, <1>3, <2>1, <2>2
<1>5. paid \in Int /\ done \in SUBSET Messages
  <2>1. refund \in Int
    BY <1>1, <1>3, ProxyAssumption
  <2> HIDE DEF refund
  <2> QED BY <1>2, <2>1 DEF ProxyType
<1>6. q = [p EXCEPT !.processed = done, !.balance = paid, !.job_info = info]
  BY <1>1, <1>2 DEF process, FinalizeJob, ProxyType
<1> HIDE DEF q, info, paid, done
<1>7. /\ q \in ProxyType /\ q.actions = p.actions /\ q.next_job_id = p.next_job_id
      /\ q.processed = done /\ q.job_info = info
  BY <1>2, <1>4, <1>5, <1>6 DEF ProxyType
<1>8. q.next_job_id >= p.next_job_id
  BY <1>2, <1>7 DEF ProxyType
<1>9. Books(q)
  <2>1. \A m \in q.processed : Inbox[m].kind = "assign" => m \in p.processed
    BY <1>7 DEF done
  <2>2. p.processed \subseteq q.processed
    BY <1>7 DEF done
  <2>3. \A i \in JobNumbers :
          \/ q.job_info[i] = p.job_info[i]
          \/ /\ p.job_info[i] # NoJob /\ q.job_info[i] # NoJob
             /\ q.job_info[i].processors = p.job_info[i].processors
    BY <1>4, <1>7
  <2> QED BY <1>7, <1>8, <2>1, <2>2, <2>3, SameBooks
<1> QED BY <1>7, <1>9 DEF q

\* One message of a batch, of any kind.
LEMMA ProcessKeeps ==
  ASSUME NEW p, Books(p), NEW id \in Messages, Processable(p, id)
  PROVE  Books(process(p, id)) /\ process(p, id).actions = p.actions
<1>1. Inbox[id].kind \in {"assign", "finalize", "noop"}
  BY InboxFacts DEF IncomingAction
<1>2. CASE Inbox[id].kind = "noop"
  <2> DEFINE q == process(p, id)
  <2>1. p \in ProxyType
    BY DEF Books
  <2>2. q = [p EXCEPT !.processed = @ \cup {id}]
    BY <1>2 DEF process
  <2> HIDE DEF q
  <2>3. /\ q \in ProxyType /\ q.actions = p.actions /\ q.processed = p.processed \cup {id}
        /\ q.job_info = p.job_info /\ q.next_job_id >= p.next_job_id
    BY <2>1, <2>2 DEF ProxyType
  <2>4. Books(q)
    BY <1>2, <2>3, SameBooks
  <2> QED BY <2>3, <2>4 DEF q
<1> QED BY <1>1, <1>2, AssignKeeps, FinalizeKeeps

\* receive_actions: a batch, which fails as a whole if one message does.
LEMMA ReceiveKeeps ==
  ASSUME Books(proxy), NEW s, NEW ids \in SUBSET Messages, receive_actions(s, ids)
  PROVE  Books(proxy') /\ proxy'.actions = proxy.actions
<1> DEFINE after == Receiving(ids)
           Good(m) == m <= Len(Inbox) => Books(after[m]) /\ after[m].actions = proxy.actions
           T == { m \in Nat : Good(m) }
<1>1. /\ after[0] = proxy
      /\ \A id \in Messages :
           after[id] = IF id \in ids THEN process(after[id - 1], id) ELSE after[id - 1]
  BY ReceivingIs
<1>2. /\ \A id \in ids : Processable(after[id - 1], id)
      /\ proxy' = after[Len(Inbox)]
  BY DEF receive_actions
<1> HIDE DEF after
<1>3. 0 \in T
  BY <1>1
<1>4. ASSUME NEW m \in Nat, m \in T PROVE m + 1 \in T
  <2> SUFFICES ASSUME m + 1 <= Len(Inbox)
               PROVE  Books(after[m + 1]) /\ after[m + 1].actions = proxy.actions
    OBVIOUS
  <2>1. m + 1 \in Messages /\ (m + 1) - 1 = m
    BY InboxFacts
  <2>2. Books(after[m]) /\ after[m].actions = proxy.actions
    BY <1>4, InboxFacts
  <2>3. CASE m + 1 \in ids
    <3>1. Processable(after[m], m + 1) /\ after[m + 1] = process(after[m], m + 1)
      BY <1>1, <1>2, <2>1, <2>3
    <3> QED BY <2>1, <2>2, <3>1, ProcessKeeps
  <2>4. CASE m + 1 \notin ids
    BY <1>1, <2>1, <2>2, <2>4
  <2> QED BY <2>3, <2>4
<1> HIDE DEF T
<1>5. Len(Inbox) \in T
  BY <1>3, <1>4, InboxFacts, SetInduction
<1> QED BY <1>2, <1>5, InboxFacts DEF T

-----------------------------------------------------------------------------
(***************************************************************************)
(* The snapshots.  When the one being filled is due, nothing was inserted  *)
(* in this block yet, unless the owner shortened the duration in it: so    *)
(* its leaves are those at the end of the block before, which is the block *)
(* that finalize_snapshot notes.                                           *)
(***************************************************************************)
AggregatorType ==
  [duration : Nat, start : Nat, counter : Nat, leaves : Seq(Outgoing),
   snapshot_level : Seq(Nat)]

Chain ==
  /\ block \in Nat /\ block > 1
  /\ stateAt \in Seq(Seq(Outgoing)) /\ Len(stateAt) = block - 1

Aggregated(a) ==
  /\ a \in AggregatorType
  /\ a.counter = Len(a.snapshot_level) + 1
  /\ \A s \in 1 .. Len(a.snapshot_level) : a.snapshot_level[s] \in 1 .. block - 1
  /\ a.start = 0 => a.leaves = <<>>
  /\ Due(a, block) /\ block \notin shortened => a.leaves = stateAt[block - 1]

\* The entry is that of a leaf.
LeafOf(leaves, sent) ==
  \E i \in DOMAIN leaves : leaf_index_to_pos(i - 1) = sent.leaf_index /\ leaves[i] = sent.action

ProvableIn(a, sent) ==
  \/ /\ sent.snapshot < a.counter
     /\ \/ a.snapshot_level[sent.snapshot] + 1 \in shortened
        \/ LeafOf(stateAt[a.snapshot_level[sent.snapshot]], sent)
  \/ sent.snapshot = a.counter /\ LeafOf(a.leaves, sent)

AllProvable(p, a) == \A k \in DOMAIN p.actions : ProvableIn(a, p.actions[k])

\* SentProvable is a part of the invariant.
LEMMA AllSentProvable ==
  ASSUME Books(proxy), Aggregated(aggregator), AllProvable(proxy, aggregator)
  PROVE  SentProvable
<1>1. ASSUME NEW k \in DOMAIN proxy.actions
      PROVE  \/ /\ proxy.actions[k].snapshot < aggregator.counter
                /\ aggregator.snapshot_level[proxy.actions[k].snapshot] + 1 \in shortened
             \/ LeafOf(LeavesOf(proxy.actions[k].snapshot), proxy.actions[k])
  <2>1. proxy.actions[k].snapshot \in Nat /\ aggregator.counter \in Nat
    <3>1. proxy.actions \in Seq(Entry) /\ aggregator.counter \in Nat
      BY DEF Books, ProxyType, Aggregated, AggregatorType
    <3>2. proxy.actions[k] \in Entry
      BY <3>1
    <3> QED BY <3>1, <3>2 DEF Entry
  <2>2. ProvableIn(aggregator, proxy.actions[k])
    BY DEF AllProvable
  <2> QED BY <2>1, <2>2 DEF ProvableIn, LeavesOf
<1> QED BY <1>1 DEF SentProvable, LeafOf

\* finalize_snapshot: what was provable stays provable, and nothing is due after it.
LEMMA FinalizedSnapshot ==
  ASSUME Chain, NEW a, Aggregated(a)
  PROVE  LET b == finalize_snapshot(a, block) IN
         /\ Aggregated(b) /\ ~ Due(b, block) /\ b.start # 0 /\ b.counter > 0
         /\ \A sent \in Entry : ProvableIn(a, sent) => ProvableIn(b, sent)
<1> DEFINE started == IF a.start = 0 THEN [a EXCEPT !.start = block, !.leaves = <<>>] ELSE a
           b == finalize_snapshot(a, block)
<1>0. a \in AggregatorType /\ block \in Nat /\ block > 1
  BY DEF Aggregated, Chain
<1>1. CASE a.start = 0
  <2>1. started = [a EXCEPT !.start = block, !.leaves = <<>>]
    BY <1>1
  <2>2. /\ started \in AggregatorType /\ started.counter = a.counter /\ started.start = block
        /\ started.snapshot_level = a.snapshot_level /\ started.duration = a.duration
        /\ started.leaves = <<>>
    <3> HIDE DEF started
    <3>1. <<>> \in Seq(Outgoing)
      OBVIOUS
    <3> QED BY <1>0, <2>1, <3>1 DEF AggregatorType
  <2>3. a.leaves = <<>>
    BY <1>1 DEF Aggregated
  <2> HIDE DEF started
  <2>4. ~ Due(started, block)
    BY <1>0, <2>2 DEF Due, AggregatorType
  <2>5. b = started
    BY <2>4 DEF finalize_snapshot, started
  <2>6. Aggregated(started) /\ started.start # 0 /\ started.counter > 0
    BY <1>0, <2>2, <2>4 DEF Aggregated, AggregatorType
  <2>7. \A sent \in Entry : ProvableIn(a, sent) => ProvableIn(started, sent)
    BY <2>2, <2>3 DEF ProvableIn
  <2> QED BY <2>4, <2>5, <2>6, <2>7
<1>2. CASE a.start # 0 /\ ~ Due(a, block)
  <2>1. b = a
    BY <1>2 DEF finalize_snapshot
  <2>2. a.counter > 0
    BY <1>0 DEF Aggregated, AggregatorType
  <2> QED BY <1>2, <2>1, <2>2
<1>3. CASE a.start # 0 /\ Due(a, block)
  <2>1. b = [a EXCEPT !.snapshot_level = Append(@, block - 1), !.start = block,
                      !.leaves = <<>>, !.counter = @ + 1]
    BY <1>3 DEF finalize_snapshot
  <2> HIDE DEF b
  <2> DEFINE old == a.snapshot_level
             new == Append(a.snapshot_level, block - 1)
  <2>2. /\ old \in Seq(Nat) /\ new \in Seq(Nat) /\ Len(old) \in Nat
        /\ Len(new) = Len(old) + 1 /\ new[Len(old) + 1] = block - 1
        /\ \A s \in 1 .. Len(old) : new[s] = old[s]
    BY <1>0 DEF AggregatorType
  <2> HIDE DEF old, new
  <2>3. /\ b \in AggregatorType /\ b.counter = a.counter + 1 /\ b.start = block
        /\ b.leaves = <<>> /\ b.snapshot_level = new
    <3>1. <<>> \in Seq(Outgoing)
      OBVIOUS
    <3> DEFINE next == a.counter + 1
    <3>2. next \in Nat
      BY <1>0 DEF AggregatorType
    <3>3. b = [a EXCEPT !.snapshot_level = new, !.start = block, !.leaves = <<>>, !.counter = next]
      BY <1>0, <2>1 DEF new, AggregatorType
    <3> HIDE DEF next
    <3>4. /\ b \in AggregatorType /\ b.counter = next /\ b.start = block
          /\ b.leaves = <<>> /\ b.snapshot_level = new
      BY <1>0, <2>2, <3>1, <3>2, <3>3 DEF AggregatorType
    <3> QED BY <3>4 DEF next
  <2>4. a.counter = Len(old) + 1 /\ \A s \in 1 .. Len(old) : old[s] \in 1 .. block - 1
    BY DEF Aggregated, old
  <2>5. ~ Due(b, block)
    BY <1>0, <2>3 DEF Due, AggregatorType
  <2>6. \A s \in 1 .. Len(new) : new[s] \in 1 .. block - 1
    <3> TAKE s \in 1 .. Len(new)
    <3>1. s \in 1 .. Len(old) \/ s = Len(old) + 1
      BY <2>2
    <3>2. block - 1 \in 1 .. block - 1
      BY <1>0
    <3> QED BY <2>2, <2>4, <3>1, <3>2
  <2>7. Aggregated(b) /\ b.start # 0 /\ b.counter > 0
    BY <1>0, <2>2, <2>3, <2>4, <2>5, <2>6 DEF Aggregated
  <2>8. ASSUME NEW sent \in Entry, ProvableIn(a, sent)
        PROVE  ProvableIn(b, sent)
    <3>0. sent.snapshot \in Nat \ {0}
      BY DEF Entry
    <3>1. CASE sent.snapshot = a.counter
      <4>1. LeafOf(a.leaves, sent)
        BY <2>2, <2>4, <2>8, <3>1 DEF ProvableIn
      <4>2. b.snapshot_level[sent.snapshot] = block - 1 /\ sent.snapshot < b.counter
        BY <2>2, <2>3, <2>4, <3>0, <3>1
      <4>3. CASE block \in shortened
        <5>1. b.snapshot_level[sent.snapshot] + 1 = block
          BY <1>0, <4>2
        <5> QED BY <4>2, <4>3, <5>1 DEF ProvableIn
      <4>4. CASE block \notin shortened
        <5>1. a.leaves = stateAt[block - 1]
          BY <1>3, <4>4 DEF Aggregated
        <5> QED BY <4>1, <4>2, <5>1 DEF ProvableIn
      <4> QED BY <4>3, <4>4
    <3>2. CASE sent.snapshot # a.counter
      <4>1. sent.snapshot < a.counter
        BY <2>8, <3>2 DEF ProvableIn
      <4>2. b.snapshot_level[sent.snapshot] = a.snapshot_level[sent.snapshot]
        <5>1. sent.snapshot \in 1 .. Len(old)
          BY <2>2, <2>4, <3>0, <4>1
        <5>2. new[sent.snapshot] = old[sent.snapshot]
          BY <2>2, <5>1
        <5> QED BY <2>3, <5>2 DEF old
      <4>3. sent.snapshot < b.counter
        BY <2>2, <2>3, <2>4, <3>0, <4>1
      <4> QED BY <2>8, <3>2, <4>2, <4>3 DEF ProvableIn
    <3> QED BY <3>1, <3>2
  <2> QED BY <2>3, <2>5, <2>7, <2>8 DEF b
<1> QED BY <1>1, <1>2, <1>3

\* insert: the new leaf is provable where the result says, the others stay so.
LEMMA Inserted ==
  ASSUME Chain, NEW a, Aggregated(a), NEW hash \in Outgoing
  PROVE  LET r == insert(a, block, hash)
             entry == [leaf_index |-> r.leaf_index, snapshot |-> r.snapshot, action |-> hash]
         IN  /\ Aggregated(r.agg) /\ entry \in Entry /\ ProvableIn(r.agg, entry)
             /\ \A sent \in Entry : ProvableIn(a, sent) => ProvableIn(r.agg, sent)
<1> DEFINE b == finalize_snapshot(a, block)
           r == insert(a, block, hash)
           c == r.agg
           old == b.leaves
           new == Append(b.leaves, hash)
           entry == [leaf_index |-> r.leaf_index, snapshot |-> r.snapshot, action |-> hash]
<1>1. /\ Aggregated(b) /\ ~ Due(b, block) /\ b.start # 0 /\ b.counter > 0
      /\ \A sent \in Entry : ProvableIn(a, sent) => ProvableIn(b, sent)
  BY FinalizedSnapshot
<1>2. /\ r.leaf_index = leaf_index_to_pos(Len(old)) /\ r.snapshot = b.counter
      /\ c = [b EXCEPT !.leaves = new]
  BY DEF insert
<1>3. b \in AggregatorType
  BY <1>1 DEF Aggregated
<1> HIDE DEF b, r, c
<1>4. /\ old \in Seq(Outgoing) /\ new \in Seq(Outgoing) /\ Len(old) \in Nat
      /\ Len(new) = Len(old) + 1 /\ new[Len(old) + 1] = hash
      /\ DOMAIN old = 1 .. Len(old) /\ DOMAIN new = 1 .. Len(old) + 1
      /\ \A i \in 1 .. Len(old) : new[i] = old[i]
  BY <1>3 DEF AggregatorType
<1>5. b.leaves = old
  OBVIOUS
<1> HIDE DEF old, new
<1>6. /\ c \in AggregatorType /\ c.counter = b.counter /\ c.start = b.start
      /\ c.duration = b.duration /\ c.snapshot_level = b.snapshot_level /\ c.leaves = new
  BY <1>2, <1>3, <1>4 DEF AggregatorType
<1>7. Aggregated(c)
  <2>1. ~ Due(c, block)
    BY <1>1, <1>6 DEF Due
  <2> QED BY <1>1, <1>6, <2>1 DEF Aggregated
<1>8. entry \in Entry
  <2>1. leaf_index_to_pos(Len(old)) \in {leaf_index_to_pos(n) : n \in Nat}
    BY <1>4
  <2>2. b.counter \in Nat \ {0}
    BY <1>1, <1>3 DEF AggregatorType
  <2> QED BY <1>2, <2>1, <2>2 DEF Entry
<1>9. ProvableIn(c, entry)
  <2>1. Len(old) + 1 \in DOMAIN new /\ (Len(old) + 1) - 1 = Len(old)
    BY <1>4
  <2>2. LeafOf(new, entry)
    BY <1>2, <1>4, <2>1 DEF LeafOf
  <2> QED BY <1>2, <1>6, <2>2 DEF ProvableIn
<1>10. ASSUME NEW sent, LeafOf(old, sent) PROVE LeafOf(new, sent)
  BY <1>4, <1>10 DEF LeafOf
<1>11. ASSUME NEW sent \in Entry, ProvableIn(a, sent) PROVE ProvableIn(c, sent)
  <2>1. ProvableIn(b, sent)
    BY <1>1, <1>11
  <2> QED BY <1>5, <1>6, <1>10, <2>1 DEF ProvableIn
<1> QED BY <1>7, <1>8, <1>9, <1>11 DEF c, r

\* register keeps a new job under a number that no processed message names.
LEMMA RegisteredKeeps ==
  ASSUME NEW p, Books(p), NEW caller \in Accounts, NEW action \in UserAction,
         action.kind = "register" => action.payload.interval # 0
  PROVE  /\ Books(Registered(p, caller, action))
         /\ Registered(p, caller, action).actions = p.actions
<1>0. p \in ProxyType
  BY DEF Books
<1>1. CASE action.kind # "register"
  BY <1>1 DEF Registered
<1>2. CASE action.kind = "register"
  <2> DEFINE job == JobOf(caller, action.payload)
             n == p.next_job_id
             q == Registered(p, caller, action)
             info == [p.job_info EXCEPT ![n + 1] = job]
             n1 == n + 1
  <2>1. action.payload \in Payload /\ action.payload.interval # 0
    BY <1>2 DEF UserAction
  <2>2. job \in Job /\ job.processors = <<>> /\ job # NoJob
    <3> DEFINE payload == action.payload
               fee == expected_fee(payload)
               reward == maximum_reward(payload)
    <3>1. /\ payload.fee \in Nat /\ payload.slots \in Nat /\ payload.end_time \in Nat
          /\ payload.reward \in Nat /\ payload.start_time \in Nat
          /\ payload.interval \in Nat \ {0}
      BY <2>1 DEF Payload
    <3> HIDE DEF payload
    <3>2. execution_count(payload) \in Int
      BY <3>1 DEF execution_count
    <3>3. fee \in Int /\ reward \in Int
      BY <3>1, <3>2 DEF expected_fee, maximum_reward
    <3>4. job = [creator |-> caller, processors |-> <<>>, fee |-> payload.fee,
                 remaining_fee |-> fee, maximum_reward |-> reward,
                 slots |-> payload.slots, status |-> "open", end_time |-> payload.end_time]
      BY DEF JobOf, payload
    <3> HIDE DEF job, fee, reward
    <3>5. job \in Job /\ job.processors = <<>>
      BY <3>1, <3>3, <3>4 DEF Job
    <3> QED BY <3>5, JobIsNotNone
  <2>3. /\ n \in Nat /\ n1 \in Nat /\ p.job_info \in [JobNumbers -> Job \cup {NoJob}]
    BY <1>0 DEF ProxyType
  <2>4. q = [p EXCEPT !.next_job_id = n1, !.job_info = info]
    BY <1>0, <1>2 DEF Registered, ProxyType
  <2>5. /\ info \in [JobNumbers -> Job \cup {NoJob}]
        /\ \A j \in JobNumbers : info[j] = IF j = n1 THEN job ELSE p.job_info[j]
    <3> HIDE DEF job
    <3> QED BY <2>2, <2>3
  <2> HIDE DEF q, info, job
  <2>6. /\ q \in ProxyType /\ q.actions = p.actions /\ q.next_job_id = n1
        /\ q.processed = p.processed /\ q.job_info = info
    <3> HIDE DEF n1
    <3> QED BY <1>0, <2>3, <2>4, <2>5 DEF ProxyType
  <2>7. \A j \in JobNumbers : AssignedTo(q, j) = AssignedTo(p, j)
    BY <2>6 DEF AssignedTo
  <2>8. n1 \in JobNumbers => p.job_info[n1] = NoJob /\ AssignedTo(p, n1) = {}
    <3> SUFFICES ASSUME n1 \in JobNumbers PROVE p.job_info[n1] = NoJob /\ AssignedTo(p, n1) = {}
      OBVIOUS
    <3>1. p.job_info[n1] = NoJob
      <4>1. ~ n1 <= p.next_job_id
        BY <2>3
      <4> QED BY <4>1 DEF Books
    <3> QED BY <3>1 DEF Books, AssignedTo
  <2>9. ASSUME NEW j \in JobNumbers, q.job_info[j] # NoJob
        PROVE  /\ j <= q.next_job_id
               /\ Range(q.job_info[j].processors) = {Inbox[m].processor : m \in AssignedTo(q, j)}
               /\ Len(q.job_info[j].processors) = Cardinality(AssignedTo(q, j))
    <3>0. j \in Int
      BY DEF JobNumbers
    <3>1. CASE j = n1
      <4>1. q.job_info[j].processors = <<>> /\ AssignedTo(q, j) = {}
        BY <2>2, <2>5, <2>6, <2>7, <2>8, <3>1
      <4>2. Range(<<>>) = {} /\ Len(<<>>) = 0
        BY DEF Range
      <4>3. j <= q.next_job_id
        BY <2>3, <2>6, <3>1
      <4> QED BY <4>1, <4>2, <4>3, FS_EmptySet
    <3>2. CASE j # n1
      <4>1. q.job_info[j] = p.job_info[j]
        BY <2>5, <2>6, <3>2
      <4>2. /\ j <= n
            /\ Range(p.job_info[j].processors) = {Inbox[m].processor : m \in AssignedTo(p, j)}
            /\ Len(p.job_info[j].processors) = Cardinality(AssignedTo(p, j))
        BY <2>9, <4>1 DEF Books
      <4>3. j <= q.next_job_id
        BY <2>3, <2>6, <3>0, <4>2
      <4> QED BY <2>7, <4>1, <4>2, <4>3
    <3> QED BY <3>1, <3>2
  <2>10. ASSUME NEW id \in q.processed, Inbox[id].kind = "assign"
         PROVE  Inbox[id].job_id \in JobNumbers /\ q.job_info[Inbox[id].job_id] # NoJob
    <3>1. Inbox[id].job_id \in JobNumbers /\ p.job_info[Inbox[id].job_id] # NoJob
      BY <2>6, <2>10 DEF Books
    <3> QED BY <2>2, <2>5, <2>6, <3>1
  <2>11. Books(q)
    BY <2>6, <2>9, <2>10 DEF Books
  <2> QED BY <2>6, <2>11 DEF q
<1> QED BY <1>1, <1>2

-----------------------------------------------------------------------------
(***************************************************************************)
(* The actions.                                                            *)
(***************************************************************************)
Sound(s) == Books(s.proxy) /\ Aggregated(s.aggregator) /\ AllProvable(s.proxy, s.aggregator)

\* An outgoing action names jobs by their numbers.
LEMMA OutgoingType ==
  ASSUME NEW p, Books(p), NEW caller \in Accounts, NEW action \in UserAction
  PROVE  [id |-> Len(p.actions) + 1, origin |-> caller, kind |-> action.kind,
          job_ids |-> job_ids(p, action)] \in Outgoing
<1>1. Len(p.actions) + 1 \in Nat /\ p.next_job_id \in Nat
  <2>1. p.actions \in Seq(Entry) /\ p.next_job_id \in Nat
    BY DEF Books, ProxyType
  <2> QED BY <2>1
<1>2. action.kind \in {"register", "deregister", "set_environment", "finalize", "noop"}
  BY DEF UserAction
<1>3. job_ids(p, action) \in SUBSET Nat
  <2>1. action.kind \in {"deregister", "set_environment"} => action.job_id \in Nat
    BY DEF UserAction
  <2>2. action.kind = "finalize" => action.job_ids \in SUBSET Nat
    BY DEF UserAction
  <2> QED BY <1>1, <1>2, <2>1, <2>2 DEF job_ids
<1> QED BY <1>1, <1>2, <1>3 DEF Outgoing

\* send_actions: one action of a batch.
LEMMA SendOneKeeps ==
  ASSUME Chain, NEW s, Sound(s), NEW caller \in Accounts, NEW action \in UserAction,
         action.kind = "register" => action.payload.interval # 0
  PROVE  Sound(send_action(s, caller, action))
<1> DEFINE p == s.proxy
           a == s.aggregator
           outgoing == [id |-> Len(p.actions) + 1, origin |-> caller, kind |-> action.kind,
                        job_ids |-> job_ids(p, action)]
           r == insert(a, block, outgoing)
           entry == [leaf_index |-> r.leaf_index, snapshot |-> r.snapshot, action |-> outgoing]
           p1 == Registered(p, caller, action)
           q == [p1 EXCEPT !.actions = Append(@, entry)]
           t == send_action(s, caller, action)
<1>1. Books(p) /\ Aggregated(a) /\ AllProvable(p, a)
  BY DEF Sound
<1>2. t.proxy = q /\ t.aggregator = r.agg
  BY DEF send_action
<1> HIDE DEF p, a, t
<1>3. outgoing \in Outgoing
  BY <1>1, OutgoingType
<1> HIDE DEF outgoing
<1>4. /\ Aggregated(r.agg) /\ entry \in Entry /\ ProvableIn(r.agg, entry)
      /\ \A sent \in Entry : ProvableIn(a, sent) => ProvableIn(r.agg, sent)
  BY <1>1, <1>3, Inserted
<1> HIDE DEF entry, r
<1>5. Books(p1) /\ p1.actions = p.actions
  BY <1>1, RegisteredKeeps
<1>6. p1 \in ProxyType /\ p1.actions \in Seq(Entry)
  BY <1>5 DEF Books, ProxyType
<1> HIDE DEF p1
<1> DEFINE old == p1.actions
           new == Append(p1.actions, entry)
<1>7. /\ old \in Seq(Entry) /\ new \in Seq(Entry) /\ Len(old) \in Nat
      /\ DOMAIN old = 1 .. Len(old) /\ DOMAIN new = 1 .. Len(old) + 1
      /\ new[Len(old) + 1] = entry
      /\ \A k \in 1 .. Len(old) : new[k] = old[k]
  BY <1>4, <1>6
<1> HIDE DEF new
<1>8. /\ q \in ProxyType /\ q.actions = new /\ q.next_job_id = p1.next_job_id
      /\ q.processed = p1.processed /\ q.job_info = p1.job_info
  <2>1. q = [p1 EXCEPT !.actions = new]
    BY <1>6 DEF new, ProxyType
  <2> HIDE DEF q, old
  <2> QED BY <1>6, <1>7, <2>1 DEF ProxyType
<1> HIDE DEF q
<1>9. Books(q)
  <2>1. q.next_job_id >= p1.next_job_id
    BY <1>6, <1>8 DEF ProxyType
  <2> QED BY <1>5, <1>8, <2>1, SameBooks
<1>10. ASSUME NEW k \in DOMAIN q.actions PROVE ProvableIn(r.agg, q.actions[k])
  <2>1. CASE k = Len(old) + 1
    BY <1>4, <1>7, <1>8, <2>1
  <2>2. CASE k # Len(old) + 1
    <3>1. k \in 1 .. Len(old) /\ q.actions[k] = old[k] /\ old[k] \in Entry
      BY <1>7, <1>8, <1>10, <2>2
    <3>2. k \in DOMAIN p.actions /\ old[k] = p.actions[k]
      BY <1>5, <1>7, <3>1
    <3>3. ProvableIn(a, old[k])
      BY <1>1, <3>2 DEF AllProvable
    <3> QED BY <1>4, <3>1, <3>3
  <2> QED BY <2>1, <2>2
<1>11. AllProvable(q, r.agg)
  BY <1>10 DEF AllProvable
<1>12. Sound(t)
  BY <1>2, <1>4, <1>9, <1>11 DEF Sound
<1> QED BY <1>12 DEF t

\* What the callers of the contract change beside jobs, processors and actions.
LEMMA SameContract ==
  ASSUME NEW p, Books(p), NEW q \in ProxyType, q.next_job_id = p.next_job_id,
         q.processed = p.processed, q.job_info = p.job_info
  PROVE  Books(q)
<1>1. q.next_job_id >= p.next_job_id
  BY DEF ProxyType
<1> QED BY <1>1, SameBooks

\* send_actions: a batch, which fails as a whole if one action is not accepted.
LEMMA SendKeeps ==
  ASSUME Chain, Books(proxy), Aggregated(aggregator), AllProvable(proxy, aggregator),
         NEW request \in Requests, send_actions(request)
  PROVE  Books(proxy') /\ Aggregated(aggregator') /\ AllProvable(proxy', aggregator')
<1> DEFINE after == Sending(request)
           batch == request.actions
           T == { m \in Nat : m <= Len(batch) => Sound(after[m]) }
<1>0. /\ Len(batch) \in Nat /\ DOMAIN batch = 1 .. Len(batch)
      /\ request.caller \in Accounts /\ request.value \in Nat
      /\ \A k \in DOMAIN batch : batch[k] \in UserAction
  BY RequestFacts
<1>1. /\ after[0] = [proxy |-> [proxy EXCEPT !.balance = @ + request.value],
                     aggregator |-> aggregator]
      /\ \A k \in 1 .. Len(batch) :
           after[k] = send_action(after[k - 1], request.caller, batch[k])
  BY SendingIs
<1>2. /\ \A k \in DOMAIN batch :
           Accepted(after[k - 1].proxy, request.caller, batch[k], request.value)
      /\ proxy' = after[Len(batch)].proxy /\ aggregator' = after[Len(batch)].aggregator
  BY DEF send_actions
<1> HIDE DEF after, batch
<1>3. 0 \in T
  <2> DEFINE paid == proxy.balance + request.value
             q == [proxy EXCEPT !.balance = paid]
  <2>1. proxy \in ProxyType /\ paid \in Int
    BY <1>0 DEF Books, ProxyType
  <2>2. after[0].proxy = q /\ after[0].aggregator = aggregator
    BY <1>1, <2>1 DEF ProxyType
  <2> HIDE DEF paid
  <2>3. /\ q \in ProxyType /\ q.actions = proxy.actions /\ q.next_job_id = proxy.next_job_id
        /\ q.processed = proxy.processed /\ q.job_info = proxy.job_info
    BY <2>1 DEF ProxyType
  <2> HIDE DEF q
  <2>4. Books(q)
    BY <2>3, SameContract
  <2>5. AllProvable(q, aggregator)
    BY <2>3 DEF AllProvable
  <2> QED BY <2>2, <2>4, <2>5 DEF Sound
<1>4. ASSUME NEW m \in Nat, m \in T PROVE m + 1 \in T
  <2> SUFFICES ASSUME m + 1 <= Len(batch) PROVE Sound(after[m + 1])
    OBVIOUS
  <2>1. m + 1 \in DOMAIN batch /\ (m + 1) - 1 = m /\ m <= Len(batch)
    BY <1>0
  <2>2. Sound(after[m])
    BY <1>4, <2>1
  <2>3. after[m + 1] = send_action(after[m], request.caller, batch[m + 1])
    BY <1>0, <1>1, <2>1
  <2>4. Accepted(after[m].proxy, request.caller, batch[m + 1], request.value)
    BY <1>2, <2>1
  <2>5. batch[m + 1] \in UserAction
    BY <1>0, <2>1
  <2>6. batch[m + 1].kind = "register" => batch[m + 1].payload.interval # 0
    BY <2>4 DEF Accepted
  <2> QED BY <1>0, <2>2, <2>3, <2>5, <2>6, SendOneKeeps
<1> HIDE DEF T
<1>5. Len(batch) \in T
  BY <1>0, <1>3, <1>4, SetInduction
<1>6. Sound(after[Len(batch)])
  BY <1>0, <1>5 DEF T
<1> QED BY <1>2, <1>6 DEF Sound

\* fulfill: the fee of one execution, for a job that stays as it is otherwise.
LEMMA FulfillKeeps ==
  ASSUME Books(proxy), NEW caller, NEW j, fulfill(caller, j)
  PROVE  Books(proxy') /\ proxy'.actions = proxy.actions
<1> DEFINE job == proxy.job_info[j]
           fee == IF job.remaining_fee >= job.fee THEN job.fee ELSE 0
           rest == job.remaining_fee - fee
           paid == proxy.balance - fee
           changed == [job EXCEPT !.remaining_fee = rest]
           info == [proxy.job_info EXCEPT ![j] = changed]
           q == proxy'
<1>1. proxy \in ProxyType
  BY DEF Books
<1>2. j \in JobNumbers /\ job \in Job
  BY <1>1 DEF fulfill, Known, ProxyType
<1>3. fee \in Int /\ rest \in Int /\ paid \in Int
  <2>1. job.fee \in Int /\ job.remaining_fee \in Int
    <3> HIDE DEF job
    <3> QED BY <1>2 DEF Job
  <2>2. proxy.balance \in Int
    BY <1>1 DEF ProxyType
  <2> HIDE DEF job
  <2> QED BY <2>1, <2>2
<1>4. q = [proxy EXCEPT !.balance = paid, !.job_info = info]
  <2>1. q = [proxy EXCEPT !.balance = @ - fee, !.job_info[j].remaining_fee = @ - fee]
    BY DEF fulfill
  <2> QED BY <1>1, <1>2, <2>1 DEF ProxyType, Job
<1>5. changed \in Job /\ changed.processors = job.processors /\ changed # NoJob /\ job # NoJob
  <2> HIDE DEF job, rest
  <2>1. changed \in Job /\ changed.processors = job.processors
    BY <1>2, <1>3 DEF Job
  <2> QED BY <1>2, <2>1, JobIsNotNone
<1> HIDE DEF paid, changed
<1>6. /\ info \in [JobNumbers -> Job \cup {NoJob}] /\ info[j] = changed
      /\ \A i \in JobNumbers \ {j} : info[i] = proxy.job_info[i]
  <2>1. proxy.job_info \in [JobNumbers -> Job \cup {NoJob}]
    BY <1>1 DEF ProxyType
  <2> QED BY <1>2, <1>5, <2>1
<1> HIDE DEF info, q
<1>7. /\ q \in ProxyType /\ q.actions = proxy.actions /\ q.next_job_id = proxy.next_job_id
      /\ q.processed = proxy.processed /\ q.job_info = info
  BY <1>1, <1>3, <1>4, <1>6 DEF ProxyType
<1>8. q.next_job_id >= proxy.next_job_id
  BY <1>1, <1>7 DEF ProxyType
<1>9. \A i \in JobNumbers :
        \/ q.job_info[i] = proxy.job_info[i]
        \/ /\ proxy.job_info[i] # NoJob /\ q.job_info[i] # NoJob
           /\ q.job_info[i].processors = proxy.job_info[i].processors
  BY <1>5, <1>6, <1>7
<1>10. Books(q)
  BY <1>7, <1>8, <1>9, SameBooks
<1> QED BY <1>7, <1>10 DEF q

\* configure: pausing changes nothing else.
LEMMA PauseKeeps ==
  ASSUME Books(proxy), NEW paused \in BOOLEAN, SetPaused(paused)
  PROVE  Books(proxy') /\ proxy'.actions = proxy.actions
<1> DEFINE q == proxy'
<1>1. proxy \in ProxyType
  BY DEF Books
<1>2. q = [proxy EXCEPT !.paused = paused]
  BY DEF SetPaused
<1> HIDE DEF q
<1>3. /\ q \in ProxyType /\ q.actions = proxy.actions /\ q.next_job_id = proxy.next_job_id
      /\ q.processed = proxy.processed /\ q.job_info = proxy.job_info
  BY <1>1, <1>2 DEF ProxyType
<1>4. Books(q)
  BY <1>3, SameContract
<1> QED BY <1>3, <1>4 DEF q

Inv == Chain /\ Books(proxy) /\ Aggregated(aggregator) /\ AllProvable(proxy, aggregator)

\* What the snapshots' part of the invariant depends on.
LEMMA SameSnapshots ==
  ASSUME Inv, Books(proxy'), proxy'.actions = proxy.actions,
         UNCHANGED <<aggregator, block, stateAt, shortened>>
  PROVE  Inv'
<1>1. Chain' /\ Aggregated(aggregator)'
  BY DEF Inv, Chain, Aggregated, Due
<1>2. AllProvable(proxy, aggregator)'
  BY DEF Inv, AllProvable, ProvableIn, LeafOf
<1> QED BY <1>1, <1>2 DEF Inv, Books

\* The aggregator's actions, when what was provable stays provable.
LEMMA SnapshotsKeep ==
  ASSUME Inv, UNCHANGED proxy, Chain', Aggregated(aggregator)',
         \A sent \in Entry : ProvableIn(aggregator, sent) => ProvableIn(aggregator, sent)'
  PROVE  Inv'
<1>1. proxy.actions \in Seq(Entry)
  BY DEF Inv, Books, ProxyType
<1>2. AllProvable(proxy, aggregator)'
  <2>1. ASSUME NEW k \in DOMAIN proxy.actions
        PROVE  ProvableIn(aggregator, proxy.actions[k])'
    <3>1. proxy.actions[k] \in Entry /\ ProvableIn(aggregator, proxy.actions[k])
      BY <1>1 DEF Inv, AllProvable
    <3>2. PICK sent \in Entry : sent = proxy.actions[k]
      BY <3>1
    <3>3. ProvableIn(aggregator, sent)'
      BY <3>1, <3>2
    <3> QED BY <3>2, <3>3
  <2> QED BY <2>1 DEF AllProvable
<1> QED BY <1>2 DEF Inv, Books

\* configure: a shorter duration is noted, a longer one makes nothing due.
LEMMA DurationKeeps ==
  ASSUME Inv, NEW duration \in Durations, SetSnapshotDuration(duration)
  PROVE  Inv'
<1> DEFINE a == aggregator
           b == aggregator'
<1>1. /\ b = [a EXCEPT !.duration = duration] /\ duration \in Nat
      /\ shortened' = IF duration < a.duration THEN shortened \cup {block} ELSE shortened
      /\ UNCHANGED <<proxy, block, stateAt>>
  BY ProxyAssumption DEF SetSnapshotDuration
<1>2. a \in AggregatorType /\ Chain
  BY DEF Inv, Aggregated
<1> HIDE DEF a, b
<1>3. /\ b \in AggregatorType /\ b.duration = duration /\ b.start = a.start
      /\ b.counter = a.counter /\ b.leaves = a.leaves /\ b.snapshot_level = a.snapshot_level
  BY <1>1, <1>2 DEF AggregatorType
<1>4. Chain'
  BY <1>1, <1>2 DEF Chain
<1>5. Due(b, block) /\ block \notin shortened' => Due(a, block) /\ block \notin shortened
  <2>1. /\ a.duration \in Nat /\ b.duration \in Nat /\ a.start \in Nat /\ block \in Nat
    BY <1>2, <1>3 DEF AggregatorType, Chain
  <2> QED BY <1>1, <1>3, <2>1 DEF Due
<1>6. Aggregated(aggregator)'
  <2>1. Aggregated(a)
    BY DEF Inv, a
  <2>2. /\ b.counter = Len(b.snapshot_level) + 1
        /\ \A s \in 1 .. Len(b.snapshot_level) : b.snapshot_level[s] \in 1 .. block - 1
        /\ b.start = 0 => b.leaves = <<>>
        /\ Due(b, block) /\ block \notin shortened' => b.leaves = stateAt[block - 1]
    BY <1>3, <1>5, <2>1 DEF Aggregated
  <2>3. block' = block /\ stateAt' = stateAt
    BY <1>1
  <2> QED BY <1>3, <2>2, <2>3 DEF Aggregated, b, Due
<1>7. ASSUME NEW sent \in Entry, ProvableIn(aggregator, sent)
      PROVE  ProvableIn(aggregator, sent)'
  <2>1. ProvableIn(a, sent)
    BY <1>7 DEF a
  <2>2. shortened \subseteq shortened'
    BY <1>1
  <2>3. \/ /\ sent.snapshot < b.counter
           /\ \/ b.snapshot_level[sent.snapshot] + 1 \in shortened'
              \/ LeafOf(stateAt[b.snapshot_level[sent.snapshot]], sent)
        \/ sent.snapshot = b.counter /\ LeafOf(b.leaves, sent)
    BY <1>3, <2>1, <2>2 DEF ProvableIn
  <2>4. stateAt' = stateAt
    BY <1>1
  <2> QED BY <2>3, <2>4 DEF ProvableIn, LeafOf, b
<1> QED BY <1>1, <1>4, <1>6, <1>7, SnapshotsKeep

\* snapshot: finalize_snapshot alone.
LEMMA SnapshotKeeps ==
  ASSUME Inv, snapshot
  PROVE  Inv'
<1>1. /\ aggregator' = finalize_snapshot(aggregator, block)
      /\ UNCHANGED <<proxy, block, stateAt, shortened>>
  BY DEF snapshot
<1>2. /\ Aggregated(aggregator')
      /\ \A sent \in Entry : ProvableIn(aggregator, sent) => ProvableIn(aggregator', sent)
  BY <1>1, FinalizedSnapshot DEF Inv
<1>3. Chain'
  BY <1>1 DEF Inv, Chain
<1>4. Aggregated(aggregator)'
  BY <1>1, <1>2 DEF Aggregated, Due
<1>5. ASSUME NEW sent \in Entry, ProvableIn(aggregator, sent)
      PROVE  ProvableIn(aggregator, sent)'
  <2>1. ProvableIn(aggregator', sent)
    BY <1>2, <1>5
  <2> QED BY <1>1, <2>1 DEF ProvableIn, LeafOf
<1> QED BY <1>1, <1>3, <1>4, <1>5, SnapshotsKeep

\* The end of a block keeps the leaves there are.
LEMMA NextBlockKeeps ==
  ASSUME Inv, NextBlock
  PROVE  Inv'
<1>1. /\ block' = block + 1 /\ stateAt' = Append(stateAt, aggregator.leaves)
      /\ UNCHANGED <<proxy, aggregator, shortened>>
  BY DEF NextBlock
<1>2. /\ Chain /\ Aggregated(aggregator) /\ aggregator \in AggregatorType
      /\ aggregator.leaves \in Seq(Outgoing)
  BY DEF Inv, Aggregated, AggregatorType
<1>3. /\ block \in Nat /\ block > 1 /\ stateAt \in Seq(Seq(Outgoing)) /\ Len(stateAt) = block - 1
  BY <1>2 DEF Chain
<1>4. /\ stateAt' \in Seq(Seq(Outgoing)) /\ Len(stateAt') = block
      /\ stateAt'[block] = aggregator.leaves
      /\ \A k \in 1 .. block - 1 : stateAt'[k] = stateAt[k]
  BY <1>1, <1>2, <1>3
<1>5. Chain'
  BY <1>1, <1>3, <1>4 DEF Chain
<1>6. Aggregated(aggregator)'
  <2>1. block' - 1 = block /\ 1 .. block - 1 \subseteq 1 .. block' - 1
    BY <1>1, <1>3
  <2>2. /\ aggregator.counter = Len(aggregator.snapshot_level) + 1
        /\ \A s \in 1 .. Len(aggregator.snapshot_level) :
             aggregator.snapshot_level[s] \in 1 .. block' - 1
        /\ aggregator.start = 0 => aggregator.leaves = <<>>
        /\ aggregator.leaves = stateAt'[block' - 1]
    BY <1>2, <1>4, <2>1 DEF Aggregated
  <2> QED BY <1>1, <1>2, <2>2 DEF Aggregated
<1>7. ASSUME NEW sent \in Entry, ProvableIn(aggregator, sent)
      PROVE  ProvableIn(aggregator, sent)'
  <2>1. sent.snapshot \in Nat \ {0}
    BY DEF Entry
  <2>2. sent.snapshot < aggregator.counter =>
          aggregator.snapshot_level[sent.snapshot] \in 1 .. block - 1
    <3>1. aggregator.snapshot_level \in Seq(Nat)
      BY <1>2 DEF AggregatorType
    <3> QED BY <1>2, <2>1, <3>1 DEF Aggregated
  <2>3. sent.snapshot < aggregator.counter =>
          stateAt'[aggregator.snapshot_level[sent.snapshot]]
            = stateAt[aggregator.snapshot_level[sent.snapshot]]
    BY <1>4, <2>2
  <2> QED BY <1>1, <1>7, <2>3 DEF ProvableIn, LeafOf
<1> QED BY <1>1, <1>5, <1>6, <1>7, SnapshotsKeep

\* The invariant of the contracts, for any interleaving.
LEMMA InvHolds == Spec => []Inv
<1>1. Init => Inv
  <2> SUFFICES ASSUME Init PROVE Inv
    OBVIOUS
  <2>1. PICK duration \in Durations : aggregator = NewAggregator(duration)
    BY DEF Init
  <2>2. /\ block = 2 /\ stateAt = << <<>> >> /\ shortened = {} /\ proxy = NewProxy
    BY DEF Init
  <2>3. Chain
    <3>1. <<>> \in Seq(Outgoing)
      OBVIOUS
    <3>2. << <<>> >> \in Seq(Seq(Outgoing)) /\ Len(<< <<>> >>) = 1
      BY <3>1
    <3> QED BY <2>2, <3>2 DEF Chain
  <2>4. Aggregated(aggregator)
    <3>1. /\ aggregator \in AggregatorType /\ aggregator.leaves = <<>>
          /\ aggregator.counter = 1 /\ aggregator.snapshot_level = <<>>
      BY <2>1, ProxyAssumption DEF NewAggregator, AggregatorType
    <3>2. stateAt[block - 1] = <<>>
      BY <2>2
    <3> QED BY <3>1, <3>2 DEF Aggregated
  <2>5. /\ proxy \in ProxyType /\ proxy.actions = <<>> /\ proxy.processed = {}
        /\ \A j \in JobNumbers : proxy.job_info[j] = NoJob
    BY <2>2 DEF NewProxy, ProxyType, JobNumbers
  <2>6. Books(proxy) /\ AllProvable(proxy, aggregator)
    BY <2>5 DEF Books, AllProvable
  <2> QED BY <2>3, <2>4, <2>6 DEF Inv
<1>2. Inv /\ [Next]_vars => Inv'
  <2> SUFFICES ASSUME Inv, [Next]_vars PROVE Inv'
    OBVIOUS
  <2>0. Books(proxy) /\ Chain /\ Aggregated(aggregator) /\ AllProvable(proxy, aggregator)
    BY DEF Inv
  <2>1. ASSUME NEW request \in Requests, send_actions(request) PROVE Inv'
    <3>1. Books(proxy') /\ Aggregated(aggregator') /\ AllProvable(proxy', aggregator')
      BY <2>0, <2>1, SendKeeps
    <3>2. UNCHANGED <<block, stateAt, shortened>>
      BY <2>1 DEF send_actions
    <3>3. Chain' /\ Aggregated(aggregator)'
      BY <2>0, <3>1, <3>2 DEF Chain, Aggregated, Due
    <3>4. AllProvable(proxy, aggregator)'
      BY <3>1, <3>2 DEF AllProvable, ProvableIn, LeafOf
    <3> QED BY <3>1, <3>3, <3>4 DEF Inv, Books
  <2>2. ASSUME NEW s \in DOMAIN roots, NEW ids \in SUBSET Messages, receive_actions(s, ids)
        PROVE  Inv'
    <3>1. Books(proxy') /\ proxy'.actions = proxy.actions
      BY <2>0, <2>2, ReceiveKeeps
    <3>2. UNCHANGED <<aggregator, block, stateAt, shortened>>
      BY <2>2 DEF receive_actions
    <3> QED BY <3>1, <3>2, SameSnapshots
  <2>3. ASSUME NEW id \in Messages, NEW j \in DOMAIN proxy.job_info,
               fulfill(Inbox[id].processor, j)
        PROVE  Inv'
    <3>1. Books(proxy') /\ proxy'.actions = proxy.actions
      BY <2>0, <2>3, FulfillKeeps
    <3>2. UNCHANGED <<aggregator, block, stateAt, shortened>>
      BY <2>3 DEF fulfill
    <3> QED BY <3>1, <3>2, SameSnapshots
  <2>4. ASSUME NEW paused \in BOOLEAN, SetPaused(paused) PROVE Inv'
    <3>1. Books(proxy') /\ proxy'.actions = proxy.actions
      BY <2>0, <2>4, PauseKeeps
    <3>2. UNCHANGED <<aggregator, block, stateAt, shortened>>
      BY <2>4 DEF SetPaused
    <3> QED BY <3>1, <3>2, SameSnapshots
  <2>5. ASSUME NEW duration \in Durations, SetSnapshotDuration(duration) PROVE Inv'
    BY <2>5, DurationKeeps
  <2>6. CASE Publish \/ (\E covered \in 0 .. published : submit_root(covered)) \/ UNCHANGED vars
    <3>1. UNCHANGED <<proxy, aggregator, block, stateAt, shortened>>
      BY <2>6 DEF Publish, submit_root, vars
    <3>2. Books(proxy') /\ proxy'.actions = proxy.actions
      BY <2>0, <3>1
    <3> QED BY <3>1, <3>2, SameSnapshots
  <2> QED BY <2>1, <2>2, <2>3, <2>4, <2>5, <2>6, SnapshotKeeps, NextBlockKeeps DEF Next
<1> QED BY <1>1, <1>2, PTL DEF Spec

\* receive_actions: whatever proofs overlap, are repeated or come out of order, and
\* whichever batch fails half-way, a job's processors are those of the assignments
\* processed for it, each once; for any messages and jobs.
THEOREM AlwaysAssignedOnce == Spec => []AssignedOnce
<1>1. Inv => AssignedOnce
  BY BooksAssignedOnce DEF Inv
<1> QED BY <1>1, InvHolds, PTL

\* send_actions, insert and finalize_snapshot: for any requests and durations, an
\* action is a leaf of the snapshot recorded with it, unless the owner shortened
\* the duration in the block after that snapshot's.
THEOREM SentAlwaysProvable == Spec => []SentProvable
<1>1. Inv => SentProvable
  BY AllSentProvable DEF Inv
<1> QED BY <1>1, InvHolds, PTL

=============================================================================
