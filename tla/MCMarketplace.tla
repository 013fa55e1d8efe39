---------------------------- MODULE MCMarketplace ----------------------------
(***************************************************************************)
(* Instances of Marketplace for TLC.  A schedule has one or two executions *)
(* of one time unit every two units; rewards are a few units so that both  *)
(* percentages round; an advertisement is cheap or dear and has storage    *)
(* for one or for two jobs.                                                *)
(***************************************************************************)
EXTENDS Marketplace, TLC

CONSTANTS c1, r1, m1, p1, p2, pal, fees, hyp

Every2(start, end, delay) ==
  [duration |-> 1, start_time |-> start, end_time |-> end, interval |-> 2,
   max_start_delay |-> delay]

Job(schedule, slots, reward, storage) ==
  [schedule |-> schedule, storage |-> storage, memory |-> 1, network_requests |-> 0,
   required_modules |-> {}, allowed_sources |-> {}, allow_only_verified_sources |-> FALSE,
   slots |-> slots, reward |-> reward, min_reputation |-> None, instant_match |-> None]

Ad(price, storage) ==
  [max_memory |-> 1, network_request_quota |-> 1, storage_capacity |-> storage,
   allowed_consumers |-> {}, available_modules |-> {},
   pricing |-> [fee_per_millisecond |-> price, fee_per_storage_byte |-> 1,
                base_fee_per_execution |-> 0,
                scheduling_window |-> [kind |-> "Delta", time |-> 5]]]

FirstManagers == [p \in Processors |-> m1]

\* Every account starts with the existential deposit; the payers can afford
\* one or two jobs.
Endowments == (c1 :> 24) @@ (m1 :> 1) @@ (pal :> 1) @@ (fees :> 1) @@ (hyp :> 24)

-----------------------------------------------------------------------------
\* One job with two slots and two executions, or one that is matched when it
\* is registered; only a verified processor is accepted for the latter.
SlotJobs ==
  { Job(Every2(1, 4, 1), 2, 4, 1),
    [Job(Every2(2, 3, 0), 1, 4, 1) EXCEPT
       !.instant_match = (p1 :> 1), !.allow_only_verified_sources = TRUE] }

SlotAds == { Ad(2, 2), Ad(3, 1) }

-----------------------------------------------------------------------------
\* Two jobs, one of them of another chain, that compete for storage and time.
\* The dear job needs a good reputation and a processor of its consumer.
PairJobs ==
  { Job(Every2(1, 4, 0), 1, 3, 1),
    [Job(Every2(2, 3, 1), 1, 5, 2) EXCEPT !.min_reputation = 1] }

PairAds ==
  { Ad(2, 3), [Ad(1, 2) EXCEPT !.allowed_consumers = {c1},
                               !.pricing.scheduling_window = [kind |-> "End", time |-> 4]] }

=============================================================================
