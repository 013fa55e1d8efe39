----------------------------- MODULE Delegations -----------------------------
(***************************************************************************)
(* The delegations of one collator candidate                               *)
(* (pallets/parachain-staking/src/types.rs).  A candidate keeps its        *)
(* delegations in two lists, the top ones, which count for its selection   *)
(* and are rewarded, and the bottom ones, each ordered from the greatest   *)
(* to the least; and it caches the ends of the lists and how full they     *)
(* are, from which every operation guesses the list a delegation is in.    *)
(*                                                                         *)
(* A book is the CandidateMetadata of a candidate with its two lists: they *)
(* exist together.  An operation is a function from a book to a book; None *)
(* is the error DelegationDNE.                                             *)
(***************************************************************************)
EXTENDS Integers, FiniteSets, Sequences, SequencesExt, Sums

CONSTANTS
  None,
  MaxTopDelegationsPerCandidate,
  MaxBottomDelegationsPerCandidate

(***************************************************************************)
(* Stakes: an amount and the power it carries.  The derived order compares *)
(* the power first; sums and differences saturate component by component   *)
(* (the upper end of u128 is out of reach).                                *)
(***************************************************************************)
Stake(amount, power) == [power |-> power, amount |-> amount]

ZeroStake == Stake(0, 0)

SaturatingSub(m, n) == IF m > n THEN m - n ELSE 0

Plus(s, t) == Stake(s.amount + t.amount, s.power + t.power)

Minus(s, t) ==
  Stake(SaturatingSub(s.amount, t.amount), SaturatingSub(s.power, t.power))

Below(s, t) ==
  \/ s.power < t.power
  \/ s.power = t.power /\ s.amount < t.amount

\* The sum of stake[x] over a finite set.
SumOver(stake, S) ==
  Stake(Sum([x \in S |-> stake[x].amount], S), Sum([x \in S |-> stake[x].power], S))

SumStakes(ds) == SumOver([i \in DOMAIN ds |-> ds[i].stake], DOMAIN ds)

(***************************************************************************)
(* Delegations: bonds from the greatest to the least, and their total.     *)
(***************************************************************************)
Bond(owner, stake) == [owner |-> owner, stake |-> stake]

NoDelegations == [delegations |-> <<>>, total |-> ZeroStake]

\* The stable sort: a bond comes after those above it, and after its equals
\* that already came before it.
sort_greatest_to_least(ds) ==
  LET Rank(i) == Cardinality({j \in DOMAIN ds :
                               \/ Below(ds[i].stake, ds[j].stake)
                               \/ ds[i].stake = ds[j].stake /\ j <= i})
  IN  [n \in DOMAIN ds |-> ds[CHOOSE i \in DOMAIN ds : Rank(i) = n]]

\* A list kept in order takes the new bond after its equals, which is where
\* the stable sort leaves it.
insert_sorted_greatest_to_least(D, b) ==
  [delegations |-> sort_greatest_to_least(Append(D.delegations, b)),
   total       |-> Plus(D.total, b.stake)]

PopLowest(D) ==
  [delegations |-> Front(D.delegations),
   total       |-> Minus(D.total, Last(D.delegations).stake)]

PopHighest(D) ==
  [delegations |-> Tail(D.delegations),
   total       |-> Minus(D.total, Head(D.delegations).stake)]

Owns(D, d) == \E i \in DOMAIN D.delegations : D.delegations[i].owner = d

BondOf(D, d) == (CHOOSE b \in ToSet(D.delegations) : b.owner = d).stake

\* The filter: what is kept stays in order.
Without(D, d) ==
  LET kept     == {i \in DOMAIN D.delegations : D.delegations[i].owner # d}
      Place(i) == Cardinality({j \in kept : j <= i})
  IN  [n \in 1 .. Cardinality(kept) |->
         D.delegations[CHOOSE i \in kept : Place(i) = n]]

\* Every bond of d replaced by one of the given stake.
Rebond(D, d, stake) ==
  [i \in DOMAIN D.delegations |->
     IF D.delegations[i].owner = d THEN Bond(d, stake) ELSE D.delegations[i]]

lowest_delegation_amount(D) ==
  IF D.delegations = <<>> THEN ZeroStake ELSE Last(D.delegations).stake

highest_delegation_amount(D) ==
  IF D.delegations = <<>> THEN ZeroStake ELSE Head(D.delegations).stake

Capacity(D, max) ==
  CASE Len(D.delegations) >= max -> "Full"
    [] D.delegations = <<>>      -> "Empty"
    [] OTHER                     -> "Partial"

top_capacity(D) == Capacity(D, MaxTopDelegationsPerCandidate)

bottom_capacity(D) == Capacity(D, MaxBottomDelegationsPerCandidate)

(***************************************************************************)
(* The book of a candidate.                                                *)
(***************************************************************************)
NewBook(stake) ==
  [stake |-> stake, delegation_count |-> 0, total_stake_counted |-> stake,
   lowest_top_delegation |-> ZeroStake,
   highest_bottom_delegation |-> ZeroStake,
   lowest_bottom_delegation |-> ZeroStake,
   top_capacity |-> "Empty", bottom_capacity |-> "Empty",
   request |-> None, status |-> "Active", when |-> 0,
   top |-> NoDelegations, bottom |-> NoDelegations]

reset_top_data(k, top) ==
  [k EXCEPT !.top = top,
            !.lowest_top_delegation = lowest_delegation_amount(top),
            !.top_capacity = top_capacity(top),
            !.total_stake_counted = Plus(k.stake, top.total)]

reset_bottom_data(k, bottom) ==
  [k EXCEPT !.bottom = bottom,
            !.lowest_bottom_delegation = lowest_delegation_amount(bottom),
            !.highest_bottom_delegation = highest_delegation_amount(bottom),
            !.bottom_capacity = bottom_capacity(bottom)]

BottomIsFull(k) ==
  Len(k.bottom.delegations) = MaxBottomDelegationsPerCandidate

\* add_bottom_delegation kicks the lowest bottom delegation if the bottom is
\* full; what that does to its delegator is LetGo of ParachainStaking.
add_bottom_delegation(k, bumped_from_top, b) ==
  LET full == BottomIsFull(k)
      room == IF full THEN PopLowest(k.bottom) ELSE k.bottom
      k1   == IF full \/ bumped_from_top THEN k
              ELSE [k EXCEPT !.delegation_count = @ + 1]
  IN  reset_bottom_data(k1, insert_sorted_greatest_to_least(room, b))

add_top_delegation(k, b) ==
  LET full == Len(k.top.delegations) = MaxTopDelegationsPerCandidate
      kick == full /\ k.bottom_capacity = "Full"
      k1   == IF full
              THEN add_bottom_delegation(k, TRUE, Last(k.top.delegations))
              ELSE k
      room == IF full THEN PopLowest(k.top) ELSE k.top
      k2   == reset_top_data(k1, insert_sorted_greatest_to_least(room, b))
  IN  IF kick THEN k2 ELSE [k2 EXCEPT !.delegation_count = @ + 1]

GoesToTop(k, b) ==
  k.top_capacity = "Full" => Below(k.lowest_top_delegation, b.stake)

\* The guard of add_delegation.
CanAdd(k, b) ==
  ~GoesToTop(k, b) /\ k.bottom_capacity = "Full"
    => Below(k.lowest_bottom_delegation, b.stake)

add_delegation(k, b) ==
  IF GoesToTop(k, b) THEN add_top_delegation(k, b)
                     ELSE add_bottom_delegation(k, FALSE, b)

\* Mutant: a delegation pushed out by one bumped from the top is forgotten.
KickedFromBottomOnly(k, b) ==
  IF BottomIsFull(k) /\ ~GoesToTop(k, b) THEN Last(k.bottom.delegations).owner
                                        ELSE None

\* The owner of the delegation that add_delegation kicks, or None.
KickedBy(k, b) ==
  IF BottomIsFull(k)
     /\ (GoesToTop(k, b)
           => Len(k.top.delegations) = MaxTopDelegationsPerCandidate)
  THEN Last(k.bottom.delegations).owner
  ELSE None

\* Mutant: nothing is reported as leaving.
NothingLeaves(k, b) == ZeroStake

\* The stake that add_delegation reports as leaving with it.
less_total_staked(k, b) ==
  IF k.top_capacity = "Full" /\ k.bottom_capacity = "Full"
  THEN k.lowest_bottom_delegation
  ELSE ZeroStake

rm_top_delegation(k, d) ==
  LET top == [delegations |-> Without(k.top, d),
              total |-> Minus(k.top.total, BondOf(k.top, d))]
      k1  == IF k.bottom_capacity = "Empty" THEN k
             ELSE reset_bottom_data(k, PopHighest(k.bottom))
      top1 == IF k.bottom_capacity = "Empty" THEN top
              ELSE insert_sorted_greatest_to_least(
                     top, Head(k.bottom.delegations))
  IN  IF Owns(k.top, d)
      THEN [reset_top_data(k1, top1) EXCEPT !.delegation_count = @ - 1]
      ELSE None

rm_bottom_delegation(k, d) ==
  IF Owns(k.bottom, d)
  THEN [reset_bottom_data(k,
          [delegations |-> Without(k.bottom, d),
           total |-> Minus(k.bottom.total, BondOf(k.bottom, d))])
        EXCEPT !.delegation_count = @ - 1]
  ELSE None

\* Where to look for a delegation believed to be `stake`: a guess from the
\* cached ends of the lists.
LooksInTop(k, stake) == ~Below(stake, k.lowest_top_delegation)

EndsMeet(k) == k.lowest_top_delegation = k.highest_bottom_delegation

\* First the result of one list and, only if the ends of the lists are equal
\* and it is not there, that of the other.
TopElseBottom(k, top, bottom) ==
  IF EndsMeet(k) /\ top = None THEN bottom ELSE top

rm_delegation_if_exists(k, d, stake) ==
  IF k.top_capacity # "Full" THEN rm_top_delegation(k, d)
  ELSE IF LooksInTop(k, stake)
  THEN TopElseBottom(k, rm_top_delegation(k, d), rm_bottom_delegation(k, d))
  ELSE rm_bottom_delegation(k, d)

increase_top_delegation(k, d, more) ==
  IF Owns(k.top, d)
  THEN reset_top_data(k,
         [delegations |-> sort_greatest_to_least(
                            Rebond(k.top, d, Plus(BondOf(k.top, d), more))),
          total |-> Plus(k.top.total, more)])
  ELSE None

increase_bottom_delegation(k, d, bond, more) ==
  LET after == Plus(BondOf(k.bottom, d), more)
      rest  == [delegations |-> Without(k.bottom, d),
                total |-> Minus(k.bottom.total, bond)]
      full  == top_capacity(k.top) = "Full"
      top   == IF full THEN PopLowest(k.top) ELSE k.top
      bottom == IF full THEN insert_sorted_greatest_to_least(
                               rest, Last(k.top.delegations))
                        ELSE rest
  IN  CASE ~Owns(k.bottom, d) -> None
        [] Owns(k.bottom, d)
             /\ Below(k.lowest_top_delegation, Plus(bond, more)) ->
             reset_bottom_data(
               reset_top_data(k, insert_sorted_greatest_to_least(
                                   top, Bond(d, after))),
               bottom)
        [] OTHER ->
             reset_bottom_data(k,
               [delegations |-> sort_greatest_to_least(
                                  Rebond(k.bottom, d, after)),
                total |-> Plus(k.bottom.total, more)])

increase_delegation(k, d, bond, more) ==
  IF LooksInTop(k, bond)
  THEN TopElseBottom(k, increase_top_delegation(k, d, more),
                        increase_bottom_delegation(k, d, bond, more))
  ELSE increase_bottom_delegation(k, d, bond, more)

\* Mutant: a delegation in the top stays there whatever it is decreased to.
decrease_in_place(k, d, bond, less) ==
  IF Owns(k.top, d)
  THEN reset_top_data(k,
         [delegations |-> sort_greatest_to_least(
                            Rebond(k.top, d, Minus(BondOf(k.top, d), less))),
          total |-> Minus(k.top.total, less)])
  ELSE None

decrease_top_delegation(k, d, bond, less) ==
  LET after == Minus(BondOf(k.top, d), less)
      swap  == /\ Below(Minus(bond, less), k.highest_bottom_delegation)
               /\ k.top_capacity = "Full" /\ k.bottom_capacity # "Empty"
      rest  == [delegations |-> Without(k.top, d),
                total |-> Minus(k.top.total, BondOf(k.top, d))]
  IN  CASE ~Owns(k.top, d) -> None
        [] Owns(k.top, d) /\ swap ->
             reset_top_data(
               reset_bottom_data(k, insert_sorted_greatest_to_least(
                                      PopHighest(k.bottom), Bond(d, after))),
               insert_sorted_greatest_to_least(
                 rest, Head(k.bottom.delegations)))
        [] OTHER ->
             reset_top_data(k,
               [delegations |-> sort_greatest_to_least(
                                  Rebond(k.top, d, after)),
                total |-> Minus(k.top.total, less)])

\* Note that the total of the bottom delegations stays as it was.
decrease_bottom_delegation(k, d, less) ==
  IF Owns(k.bottom, d)
  THEN reset_bottom_data(k,
         [k.bottom EXCEPT !.delegations = sort_greatest_to_least(
            Rebond(k.bottom, d, Minus(BondOf(k.bottom, d), less)))])
  ELSE None

decrease_delegation(k, d, bond, less) ==
  IF LooksInTop(k, bond)
  THEN TopElseBottom(k, decrease_top_delegation(k, d, bond, less),
                        decrease_bottom_delegation(k, d, less))
  ELSE decrease_bottom_delegation(k, d, less)

=============================================================================
