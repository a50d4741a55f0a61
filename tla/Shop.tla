-------------------------------- MODULE Shop --------------------------------
(***************************************************************************)
(* Shops: products with prices that depend on how often they were bought,  *)
(* purchase sessions of the store, the random shop, box gachas, passes,    *)
(* growth packs, wheels and item challenges.                               *)
(*                                                                         *)
(* Every request is one transaction.  What has to stay right over many of  *)
(* them are the counts: what was bought at which price, what of a box, a   *)
(* pass or a pack was already paid out, under limits that were looked at   *)
(* in an earlier request, on another day or for several units at once.     *)
(*                                                                         *)
(* Gems of the two kinds are one number, and every reward is a number of   *)
(* tokens: how a price is taken from free and paid gems is in Gacha.       *)
(***************************************************************************)
EXTENDS Integers, FiniteSets, Sequences, SequencesExt, Functions

CONSTANTS
    ProductOf,       \* shop_products by id
    RandomProducts,  \* ids of the products of the random shop, in order
    LineupSlots,     \* products a lineup shows, 10
    LineupInterval,  \* seconds until a lineup is replaced
    RefreshCosts,    \* lineup_refresh_costs, in order
    PieceTable,      \* piece_exchange_quantity_table, in order
    Boxes,           \* copies of each card, box by box; the last one repeats
    BoxPrice,
    PassDays,        \* days of the daily pass
    GrowthSteps,     \* points each step of the growth pack needs
    GrowthPrice, LotPoints, LotPrice,
    OfferPrice, OfferDays,
    BundleTokens,    \* what the items of a bundle may be
    WheelLimit,      \* daily_count_limit
    ChallengeScores, \* scores of the rewards of the item challenge
    Quantities,      \* quantities a client asks for
    DaySeconds,      \* 86 400
    InitialGems, InitialTokens, InitialBundles,
    MaxSessions,     \* bound: purchase sessions
    MaxRequests,     \* bound: requests
    MaxShopTime          \* bound: clock

Products == DOMAIN ProductOf
BoxCards == DOMAIN Boxes[1]
Days == 0..(MaxShopTime \div DaySeconds)
Transactions == 1..MaxSessions
NoTransaction == 0

PurchaseStep == [price: Nat, store: Nat, tokens: Nat, pass: BOOLEAN]

ASSUME ShopAssumption ==
    /\ Products \subseteq Nat \ {0}
    /\ \A p \in Products : /\ ProductOf[p].steps \in Seq(PurchaseStep) \ {<<>>}
                          /\ ProductOf[p].limit \in Nat
    /\ RandomProducts \in Seq(Products) \ {<<>>}
    /\ RefreshCosts \in Seq([count: Nat, gems: Nat])
    /\ PieceTable \in Seq([until: Nat, price: Nat])
    /\ \E i \in DOMAIN PieceTable : PieceTable[i].until = 0
    /\ Boxes \in Seq([BoxCards -> Nat]) \ {<<>>}
    /\ GrowthSteps \in Seq(Nat)
    /\ ChallengeScores \subseteq Nat \ {0} /\ IsFiniteSet(ChallengeScores)
    /\ Quantities \subseteq Nat \ {0} /\ BundleTokens \subseteq Nat
    /\ {LineupSlots, PassDays, WheelLimit, DaySeconds} \subseteq Nat \ {0}
    /\ {LineupInterval, BoxPrice, GrowthPrice, LotPoints, LotPrice, OfferPrice, OfferDays,
        InitialGems, InitialTokens, InitialBundles,
        MaxSessions, MaxRequests, MaxShopTime} \subseteq Nat

VARIABLES
    acct,     \* the resources and the shop part of the home state
    shopTime,
    requests,
    given     \* history: what was paid and what was paid out

shopVars == <<acct, shopTime, requests, given>>

ShopSession == [product: Products, transaction: Transactions \union {NoTransaction},
            verified: BOOLEAN]

ShopAccount ==
    [gems: Nat, tokens: Nat, bundles: Nat,
     counts: [Products -> Nat],
     sessions: Seq(ShopSession), first_bonus: BOOLEAN,
     random: [lineup: Seq(Products), refresh_at: Nat, refreshes: Nat,
              purchased: [Products -> Nat]],
     pieces: Nat,
     box: [number: Nat \ {0}, drawn: [BoxCards -> Nat]],
     pass: [started: -1..MaxShopTime, expires: Nat, received: SUBSET (1..PassDays)],
     growth: [owned: BOOLEAN, points: Nat, free: SUBSET DOMAIN GrowthSteps,
              premium: SUBSET DOMAIN GrowthSteps],
     offer_until: Nat,
     wheel: [day: Days, count: Nat],
     challenge: [high: Nat, received: Nat]]

ShopGiven ==
    [spent: [Products -> Nat], pieces: Nat, credits: [1..MaxSessions -> Nat],
     won: [BoxCards -> Nat], pass: [1..PassDays -> Nat],
     free: [DOMAIN GrowthSteps -> Nat], premium: [DOMAIN GrowthSteps -> Nat],
     spins: [Days -> Nat], challenge: [ChallengeScores -> Nat]]

ShopTypeOK ==
    /\ acct \in ShopAccount /\ Len(acct.sessions) <= MaxSessions
    /\ given \in ShopGiven
    /\ shopTime \in 0..MaxShopTime /\ requests \in 0..MaxRequests

ShopInit ==
    /\ acct = [gems |-> InitialGems, tokens |-> InitialTokens, bundles |-> InitialBundles,
               counts |-> [p \in Products |-> 0],
               sessions |-> <<>>, first_bonus |-> FALSE,
               random |-> [lineup |-> <<>>, refresh_at |-> 0, refreshes |-> 0,
                           purchased |-> [p \in Products |-> 0]],
               pieces |-> 0,
               box |-> [number |-> 1, drawn |-> [c \in BoxCards |-> 0]],
               pass |-> [started |-> -1, expires |-> 0, received |-> {}],
               growth |-> [owned |-> FALSE, points |-> 0, free |-> {}, premium |-> {}],
               offer_until |-> 0,
               wheel |-> [day |-> 0, count |-> 0],
               challenge |-> [high |-> 0, received |-> 0]]
    /\ shopTime = 0
    /\ requests = 0
    /\ given = [spent |-> [p \in Products |-> 0], pieces |-> 0,
                credits |-> [s \in 1..MaxSessions |-> 0],
                won |-> [c \in BoxCards |-> 0],
                pass |-> [d \in 1..PassDays |-> 0],
                free |-> [s \in DOMAIN GrowthSteps |-> 0],
                premium |-> [s \in DOMAIN GrowthSteps |-> 0],
                spins |-> [d \in Days |-> 0],
                challenge |-> [r \in ChallengeScores |-> 0]]

day(t) == t \div DaySeconds

\* One request: the account it leaves behind, and what it gave.
Request(acct_, given_) ==
    /\ requests < MaxRequests
    /\ requests' = requests + 1
    /\ acct' = acct_
    /\ given' = given_
    /\ shopTime' = shopTime

-----------------------------------------------------------------------------
(* Products *)

purchase_steps(p) == ProductOf[p].steps
IsStoreProduct(p) == \E i \in DOMAIN purchase_steps(p) : purchase_steps(p)[i].store > 0

\* The step of the unit bought after count others; the last one repeats.
StepAt(p, count) == purchase_steps(p)[Min({count + 1, Len(purchase_steps(p))})]

\* Mutant of Bought: all units at the price of the first.
BoughtAtOnce(a, p, quantity) ==
    LET step == StepAt(p, a.counts[p]) IN
    [ok |-> a.gems >= step.price * quantity,
     acct |-> [a EXCEPT !.gems = @ - step.price * quantity,
                        !.tokens = @ + step.tokens * quantity,
                        !.counts[p] = @ + quantity]]

\* Units are paid and granted one after the other, each at the step its
\* number gives; one that cannot be paid undoes the request.
Bought(a, p, quantity) ==
    LET unit[i \in 0..quantity] ==
            IF i = 0 THEN [ok |-> TRUE, gems |-> a.gems, tokens |-> a.tokens]
            ELSE LET step == StepAt(p, a.counts[p] + i - 1)
                     before == unit[i - 1]
                 IN [ok |-> before.ok /\ before.gems >= step.price,
                     gems |-> before.gems - step.price,
                     tokens |-> before.tokens + step.tokens]
        last == unit[quantity]
    IN [ok |-> last.ok,
        acct |-> [a EXCEPT !.gems = last.gems, !.tokens = last.tokens,
                           !.counts[p] = @ + quantity]]

\* set_product_count, where the limit is enforced.
WithinLimit(p, count) == ProductOf[p].limit > 0 => count <= ProductOf[p].limit

Paid(before, after, p) == [given EXCEPT !.spent[p] = @ + before.gems - after.gems]

\* Mutant of CanBuy: whether every unit can be paid is not looked at.
CanBuyOnCredit(a, p, quantity) ==
    ~IsStoreProduct(p) /\ WithinLimit(p, a.counts[p] + quantity)

\* What purchase_product accepts of a product outside the store.
CanBuy(a, p, quantity) ==
    /\ ~IsStoreProduct(p)
    /\ WithinLimit(p, a.counts[p] + quantity)
    /\ Bought(a, p, quantity).ok

purchase(p, quantity) ==
    LET after == Bought(acct, p, quantity).acct IN
    /\ CanBuy(acct, p, quantity)
    /\ Request(after, Paid(acct, after, p))

\* Each piece is paid at the tier its number falls in.
PiecePrice(n) ==
    LET tier == SelectInSeq(PieceTable, LAMBDA row : row.until = 0 \/ n < row.until)
    IN PieceTable[tier].price

piece_exchange(quantity) ==
    LET price == SumFunction([i \in 1..quantity |-> PiecePrice(acct.pieces + i - 1)])
    IN /\ acct.tokens >= price
       /\ Request([acct EXCEPT !.tokens = @ - price, !.pieces = @ + quantity],
                  [given EXCEPT !.pieces = @ + price])

-----------------------------------------------------------------------------
(* The random shop *)

refresh_random_shop(r) ==
    LET n == Len(RandomProducts)
        offset == (r.refreshes * LineupSlots) % n
    IN [r EXCEPT !.lineup = [i \in 1..LineupSlots |->
                               RandomProducts[((offset + i - 1) % n) + 1]],
                 !.purchased = [p \in Products |-> 0],
                 !.refresh_at = shopTime + LineupInterval]

\* Every random shop request first replaces a lineup that is missing or due.
Current ==
    IF acct.random.lineup = <<>> \/ shopTime >= acct.random.refresh_at
    THEN [acct EXCEPT !.random = refresh_random_shop(@)]
    ELSE acct

random_shop_list == Request(Current, given)

RefreshLimit == SumFunction([i \in DOMAIN RefreshCosts |-> RefreshCosts[i].count])

\* The first row with a count above the refreshes so far, or the last row.
RefreshCost(refreshes) ==
    LET row == SelectInSeq(RefreshCosts, LAMBDA r : refreshes < r.count)
    IN IF RefreshCosts = <<>> THEN 0
       ELSE RefreshCosts[IF row = 0 THEN Len(RefreshCosts) ELSE row].gems

random_shop_refresh ==
    LET cost == RefreshCost(Current.random.refreshes)
        next == [Current.random EXCEPT !.refreshes = @ + 1] IN
    /\ Current.random.refreshes < RefreshLimit
    /\ Current.gems >= cost
    /\ Request([Current EXCEPT !.gems = @ - cost, !.random = refresh_random_shop(next)],
               given)

random_shop_purchase(p, quantity) ==
    LET after == Bought(Current, p, quantity).acct IN
    /\ p \in Range(Current.random.lineup)
    /\ CanBuy(Current, p, quantity)
    /\ Request([after EXCEPT !.random.purchased[p] = @ + quantity],
               Paid(Current, after, p))

-----------------------------------------------------------------------------
(* Purchase sessions *)

\* The limit is looked at here, and nothing is counted.
session_start(p) ==
    /\ Len(acct.sessions) < MaxSessions
    /\ IsStoreProduct(p)
    /\ ProductOf[p].limit > 0 => acct.counts[p] < ProductOf[p].limit
    /\ Request([acct EXCEPT !.sessions = Append(@, [product |-> p,
                   transaction |-> Len(acct.sessions) + 1, verified |-> FALSE])], given)

session_publish(s, t) ==
    /\ s \in DOMAIN acct.sessions
    /\ Request([acct EXCEPT !.sessions[s].transaction = t], given)

\* A pass that is bought keeps the day it started on; its end moves on from
\* its old end, or from now.
PassBought(pass) ==
    [pass EXCEPT !.started = IF @ = -1 THEN shopTime ELSE @,
                 !.expires = Max({@, shopTime}) + PassDays * DaySeconds]

Verified(a, s, t) ==
    LET p == a.sessions[s].product
        step == StepAt(p, a.counts[p])
        passed == IF step.pass THEN PassBought(a.pass) ELSE a.pass
    IN [a EXCEPT !.gems = @ + step.store, !.tokens = @ + step.tokens,
                 !.pass = passed, !.counts[p] = @ + 1,
                 !.sessions[s] = [@ EXCEPT !.verified = TRUE, !.transaction = t]]

Credited(s) == [given EXCEPT !.credits[s] = @ + 1]

\* Mutant of verify: a session may be verified again under a new transaction.
VerifyAgain(s, t) ==
    /\ s \in DOMAIN acct.sessions
    /\ ~\E o \in Range(acct.sessions) : o.verified /\ o.transaction = t
    /\ WithinLimit(acct.sessions[s].product, acct.counts[acct.sessions[s].product] + 1)
    /\ Request(Verified(acct, s, t), Credited(s))

\* The transaction is the client's; it must not be that of a verified session.
verify(s, t) ==
    /\ s \in DOMAIN acct.sessions
    /\ ~\E o \in Range(acct.sessions) : o.verified /\ o.transaction = t
    /\ ~acct.sessions[s].verified
    /\ StepAt(acct.sessions[s].product, acct.counts[acct.sessions[s].product]).store > 0
    /\ WithinLimit(acct.sessions[s].product, acct.counts[acct.sessions[s].product] + 1)
    /\ Request(Verified(acct, s, t), Credited(s))

receive_first_purchase_bonus ==
    /\ \E s \in Range(acct.sessions) : s.verified
    /\ ~acct.first_bonus
    /\ Request([acct EXCEPT !.first_bonus = TRUE], given)

-----------------------------------------------------------------------------
(* Daily pass, growth pack and special offer *)

\* The days of the pass that have come, never more than it has.
Due == Min({Max({day(shopTime) - day(acct.pass.started) + 1, 0}), PassDays})

Received(days) ==
    Request([acct EXCEPT !.pass.received = @ \union days,
                         !.tokens = @ + Cardinality(days)],
            [given EXCEPT !.pass = [d \in 1..PassDays |->
                                      IF d \in days THEN @[d] + 1 ELSE @[d]]])

PassValid == acct.pass.started # -1 /\ shopTime < acct.pass.expires

daily_pass_receive(d) ==
    /\ PassValid
    /\ d \in 1..Due /\ d \notin acct.pass.received
    /\ Received({d})

\* Mutant of daily_pass_bulk_receive: every day that is due is paid.
BulkReceiveAll ==
    /\ PassValid
    /\ Received(1..Due)

daily_pass_bulk_receive ==
    /\ PassValid
    /\ Received((1..Due) \ acct.pass.received)

growth_pack_purchase ==
    /\ ~acct.growth.owned
    /\ acct.gems >= GrowthPrice
    /\ Request([acct EXCEPT !.gems = @ - GrowthPrice, !.growth.owned = TRUE], given)

growth_pack_point_purchase(lots) ==
    /\ acct.gems >= lots * LotPrice
    /\ Request([acct EXCEPT !.gems = @ - lots * LotPrice,
                            !.growth.points = @ + lots * LotPoints], given)

\* Mutant of Claims: a claim of everything also ticks off premium rewards
\* the account has no right to yet.
ClaimsLosePremium(free, premium) ==
    /\ free \union premium # {}
    /\ Request([acct EXCEPT !.growth.free = @ \union free,
                            !.growth.premium = @ \union free \union premium,
                            !.tokens = @ + Cardinality(free) + Cardinality(premium)],
               [given EXCEPT !.free = [s \in DOMAIN @ |-> @[s] + (IF s \in free THEN 1 ELSE 0)],
                             !.premium = [s \in DOMAIN @ |->
                                            @[s] + (IF s \in premium THEN 1 ELSE 0)]])

\* The steps whose free and premium rewards a request receives; one that
\* receives nothing is refused.
Claims(free, premium) ==
    /\ free \union premium # {}
    /\ Request([acct EXCEPT !.growth.free = @ \union free,
                            !.growth.premium = @ \union premium,
                            !.tokens = @ + Cardinality(free) + Cardinality(premium)],
               [given EXCEPT !.free = [s \in DOMAIN @ |-> @[s] + (IF s \in free THEN 1 ELSE 0)],
                             !.premium = [s \in DOMAIN @ |->
                                            @[s] + (IF s \in premium THEN 1 ELSE 0)]])

Reached == {s \in DOMAIN GrowthSteps : GrowthSteps[s] <= acct.growth.points}

growth_receive(s, is_premium) ==
    /\ s \in Reached
    /\ IF is_premium
       THEN acct.growth.owned /\ Claims({}, {s} \ acct.growth.premium)
       ELSE Claims({s} \ acct.growth.free, {})

growth_bulk_receive ==
    Claims(Reached \ acct.growth.free,
           IF acct.growth.owned THEN Reached \ acct.growth.premium ELSE {})

\* An offer is bought again once it has run out.
special_offer_purchase ==
    /\ shopTime >= acct.offer_until
    /\ acct.gems >= OfferPrice
    /\ Request([acct EXCEPT !.gems = @ - OfferPrice,
                            !.offer_until = shopTime + OfferDays * DaySeconds], given)

bundle_open(n) ==
    /\ acct.bundles >= 1
    /\ Request([acct EXCEPT !.bundles = @ - 1, !.tokens = @ + n], given)

-----------------------------------------------------------------------------
(* Box gacha *)

Box(number) == Boxes[Min({number, Len(Boxes)})]

\* Mutant of DrawnFromBox: the next box starts with what the last one lacks.
DrawnFromBoxKept(box, card) ==
    LET drawn == [box.drawn EXCEPT ![card] = @ + 1] IN
    IF drawn = Box(box.number) THEN [number |-> box.number + 1, drawn |-> drawn]
    ELSE [box EXCEPT !.drawn = drawn]

\* A card is taken out of the box; an empty box is replaced by the next.
DrawnFromBox(box, card) ==
    LET drawn == [box.drawn EXCEPT ![card] = @ + 1] IN
    IF drawn = Box(box.number)
    THEN [number |-> box.number + 1, drawn |-> [c \in BoxCards |-> 0]]
    ELSE [box EXCEPT !.drawn = drawn]

\* All draws of a request, over as many boxes as it takes; a card that is used
\* up has no weight.
box_gacha(cards) ==
    LET box[i \in 0..Len(cards)] ==
            IF i = 0 THEN acct.box ELSE DrawnFromBox(box[i - 1], cards[i])
    IN /\ \A i \in DOMAIN cards :
            box[i - 1].drawn[cards[i]] < Box(box[i - 1].number)[cards[i]]
       /\ acct.tokens >= BoxPrice * Len(cards)
       /\ Request([acct EXCEPT !.tokens = @ - BoxPrice * Len(cards), !.box = box[Len(cards)]],
                  [given EXCEPT !.won = [c \in BoxCards |->
                       @[c] + Cardinality({i \in DOMAIN cards : cards[i] = c})]])

-----------------------------------------------------------------------------
(* Wheel and item challenge *)

\* The wheel's counter, restarted on a new day.
Today == IF acct.wheel.day = day(shopTime) THEN acct.wheel ELSE [day |-> day(shopTime), count |-> 0]

\* Mutant of wheel: the day of the first spin stays.
WheelKeepsDay ==
    /\ Today.count < WheelLimit
    /\ Request([acct EXCEPT !.wheel.count = Today.count + 1, !.tokens = @ + 1],
               [given EXCEPT !.spins[day(shopTime)] = @ + 1])

\* The counter after one more spin.
Spun == [Today EXCEPT !.count = @ + 1]

wheel ==
    /\ Today.count < WheelLimit
    /\ Request([acct EXCEPT !.wheel = Spun, !.tokens = @ + 1],
               [given EXCEPT !.spins[day(shopTime)] = @ + 1])

\* The score is what the tools and a draw make of it.
item_challenge_execute(score) ==
    Request([acct EXCEPT !.challenge.high = Max({@, score})], given)

Unreceived == {r \in ChallengeScores : acct.challenge.received < r /\ r <= acct.challenge.high}

\* Mutant of item_challenge_reward_receive: what was received is lost.
ReceiveForgotten ==
    /\ Unreceived # {}
    /\ Request([acct EXCEPT !.tokens = @ + Cardinality(Unreceived)],
               [given EXCEPT !.challenge = [r \in ChallengeScores |->
                                              @[r] + (IF r \in Unreceived THEN 1 ELSE 0)]])

item_challenge_reward_receive ==
    /\ Unreceived # {}
    /\ Request([acct EXCEPT !.challenge.received = Max(Unreceived),
                            !.tokens = @ + Cardinality(Unreceived)],
               [given EXCEPT !.challenge = [r \in ChallengeScores |->
                                              @[r] + (IF r \in Unreceived THEN 1 ELSE 0)]])

-----------------------------------------------------------------------------
ShopTick ==
    /\ shopTime < MaxShopTime
    /\ shopTime' = shopTime + 1
    /\ UNCHANGED <<acct, requests, given>>

ShopNext ==
    \/ \E p \in Products, n \in Quantities : purchase(p, n)
    \/ \E n \in Quantities : piece_exchange(n)
    \/ random_shop_list
    \/ random_shop_refresh
    \/ \E p \in Products, n \in Quantities : random_shop_purchase(p, n)
    \/ \E p \in Products : session_start(p)
    \/ \E s \in 1..MaxSessions, t \in Transactions \union {NoTransaction} : session_publish(s, t)
    \/ \E s \in 1..MaxSessions, t \in Transactions : verify(s, t)
    \/ receive_first_purchase_bonus
    \/ \E d \in 1..PassDays : daily_pass_receive(d)
    \/ daily_pass_bulk_receive
    \/ growth_pack_purchase
    \/ \E n \in Quantities : growth_pack_point_purchase(n)
    \/ \E s \in DOMAIN GrowthSteps, is_premium \in BOOLEAN : growth_receive(s, is_premium)
    \/ growth_bulk_receive
    \/ special_offer_purchase
    \/ \E n \in BundleTokens : bundle_open(n)
    \/ \E n \in Quantities : \E cards \in [1..n -> BoxCards] : box_gacha(cards)
    \/ wheel
    \/ \E r \in ChallengeScores : item_challenge_execute(r)
    \/ item_challenge_reward_receive
    \/ ShopTick

ShopSpec == ShopInit /\ [][ShopNext]_shopVars

-----------------------------------------------------------------------------
(* Properties *)

PricesUpTo(p, count) == SumFunction([i \in 1..count |-> StepAt(p, i - 1).price])
PiecesUpTo(count) == SumFunction([i \in 1..count |-> PiecePrice(i - 1)])

\* How units are bundled into requests, and through which shop they are bought,
\* changes nothing in their price: an account with so many units has paid the
\* prices of the first so many steps; likewise for pieces and their tiers.
\* What the store sells takes no gems.
PricedByCount ==
    /\ \A p \in Products :
         given.spent[p] = IF IsStoreProduct(p) THEN 0 ELSE PricesUpTo(p, acct.counts[p])
    /\ given.pieces = PiecesUpTo(acct.pieces)

\* A purchase session is credited at most once, and sessions that were started
\* side by side under a limit do not exceed it when they are verified.
CreditedOnce ==
    /\ \A s \in 1..MaxSessions :
         given.credits[s] = IF s \in DOMAIN acct.sessions /\ acct.sessions[s].verified
                            THEN 1 ELSE 0
    /\ \A p \in Products :
         /\ WithinLimit(p, acct.counts[p])
         /\ IsStoreProduct(p) =>
              acct.counts[p] = Cardinality({s \in DOMAIN acct.sessions :
                                  acct.sessions[s].product = p /\ acct.sessions[s].verified})

\* A box is emptied before the next is opened, also in the middle of a request:
\* what was won of a card is what the finished boxes held of it and what is
\* missing from the present one.
BoxesInTurn ==
    \A c \in BoxCards :
        given.won[c] = acct.box.drawn[c] + SumFunction([i \in 1..(acct.box.number - 1) |-> Box(i)[c]])

\* A pass pays each of its days at most once and none before it has come, in
\* whatever order days and everything due are asked for, and if it is bought
\* again meanwhile.
PassPaysOnce ==
    /\ \A d \in 1..PassDays : given.pass[d] = IF d \in acct.pass.received THEN 1 ELSE 0
    /\ acct.pass.received # {} => Max(acct.pass.received) <= Due

\* A growth pack pays the free and the premium reward of a step once each, the
\* premium one only to an owner, and what was claimed before the pack was
\* bought takes nothing of the premium rewards away.
GrowthPaysOnce ==
    /\ \A s \in DOMAIN GrowthSteps :
         /\ given.free[s] = IF s \in acct.growth.free THEN 1 ELSE 0
         /\ given.premium[s] = IF s \in acct.growth.premium THEN 1 ELSE 0
    /\ acct.growth.premium # {} => acct.growth.owned
    /\ acct.growth.free \union acct.growth.premium \subseteq Reached

\* A wheel is turned no more often a day than its limit, and the limit of one
\* day does not depend on the days before.
WheelWithinDay == \A d \in Days : given.spins[d] <= WheelLimit

\* The rewards of a challenge are paid once each, whatever scores come between
\* two claims.
ChallengePaysOnce ==
    \A r \in ChallengeScores :
        given.challenge[r] = IF r <= acct.challenge.received THEN 1 ELSE 0

(* What is bought or earned in the shop is given once, however it is       *)
(* claimed: sessions, passes, growth and challenges.                       *)
ShopPaysOnce == CreditedOnce /\ PassPaysOnce /\ GrowthPaysOnce /\ ChallengePaysOnce

(* Counts that prices and limits depend on keep step with what was bought, *)
(* drawn and spun.                                                         *)
ShopKeepsCount == PricedByCount /\ BoxesInTurn /\ WheelWithinDay
=============================================================================
