------------------------------- MODULE MCProxy -------------------------------
(* The instance of Proxy that TLC explores.                                *)
EXTENDS Proxy

CONSTANTS u1, u2, p1, p2

\* Two executions on one or two slots.
Work(slots) ==
  [start_time |-> 0, end_time |-> 2000, interval |-> 1000, slots |-> slots, fee |-> 1,
   reward |-> 5]

Register(slots) == [kind |-> "register", payload |-> Work(slots)]
On(kind, j)     == [kind |-> kind, job_id |-> j]
Finalize(jobs)  == [kind |-> "finalize", job_ids |-> jobs]
Noop            == [kind |-> "noop"]

\* The price of a job with that payload.
Price(slots) ==
  expected_fee(Work(slots)) + exchange_price(maximum_reward(Work(slots)))

MCAccounts == {u1, u2, p1, p2}

MCRequests ==
  { [caller |-> u1, actions |-> <<Register(2)>>, value |-> Price(2)],
    [caller |-> u2, actions |-> <<Register(1), Noop>>, value |-> Price(1)],
    [caller |-> u1, actions |-> <<On("set_environment", 2), Finalize({2})>>, value |-> 0],
    [caller |-> u1, actions |-> <<Finalize({2, 3})>>, value |-> 0],
    [caller |-> u2, actions |-> <<On("deregister", 2)>>, value |-> 0] }

MCInbox ==
  << [kind |-> "assign", job_id |-> 2, processor |-> p1],
     [kind |-> "noop"],
     [kind |-> "assign", job_id |-> 2, processor |-> p2],
     [kind |-> "finalize", job_id |-> 2, unused_reward |-> 1] >>

=============================================================================
