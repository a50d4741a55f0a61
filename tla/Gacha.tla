-------------------------------- MODULE Gacha --------------------------------
(***************************************************************************)
(* Gachas: paying for draws, what a draw adds to the account, the counts   *)
(* that limit buttons and order the steps of a step-up gacha, and wish     *)
(* lists.                                                                  *)
(*                                                                         *)
(* One execution is one transaction, but it draws several cards, each of   *)
(* which may be the second copy of one drawn just before, and what it may  *)
(* do depends on counts that earlier executions left in a table of their   *)
(* own.  Mission counters are advanced in the same transaction; they are   *)
(* the subject of Home.                                                    *)
(***************************************************************************)
EXTENDS Integers, FiniteSets, Sequences, SequencesExt

CONSTANTS
    GachaOf,       \* gachas by id
    ButtonOf,      \* gacha_buttons and gacha_step_up_buttons by id
    RatesOf,       \* rate sets by id: sequences of rates
    TutorialGacha, \* the gacha of the tutorial, 2
    WishLists,     \* wish lists a client may ask for
    OwnedAtStart,  \* characters of a new account
    InitialWallet,
    Units,         \* what the weights of a draw add up to, 100 000
    Selected,      \* weight of a pickup on the wish list, 1 000
    Unselected,    \* weight of another pickup, 250
    Stone,         \* the item a duplicate pays besides pieces, 126
    MaxTalkClears,     \* bound: clears of the last prologue talk
    MaxGachaTime        \* bound: clock

GachaIds == DOMAIN GachaOf
ButtonIds == DOMAIN ButtonOf
StepUp == -1     \* the button id the steps of a gacha are counted under

Character == 4
Item == 5
Memoria == 17
Skin == 22
Card == [type: {Character, Item, Memoria, Skin}, id: Nat, rarity: 1..8, skin: Nat,
         duplicate: Nat]   \* duplicate_rewards, in items of kind Stone

FreeGems == 1
PaidGems == 2
GachaCost == [type: {FreeGems, PaidGems, Item}, id: Nat, quantity: Nat]

Cards == UNION {UNION {Range(r.cards) : r \in Range(RatesOf[s])} : s \in DOMAIN RatesOf}
Ids(type) == {c.id : c \in {d \in Cards : d.type = type}}
CharacterIds == Ids(Character) \union OwnedAtStart
MemoriaKinds == Ids(Memoria)
ItemIds == Ids(Item) \union {Stone} \union {GachaOf[g].medal : g \in GachaIds}
                     \union {ButtonOf[b].cost.id : b \in ButtonIds}

MemoriaEquipped == 200
GachaComplete == 500

NoWishList == [gacha |-> 0]

Rate == [units: Nat, cards: Seq(Card)]
Bonus == [characters: SUBSET Nat, pieces: Nat \ {0}, stones: Nat]

\* What a group of a wish list may move.
Pickups(gacha, type) ==
    IF type = Character THEN gacha.pickup_characters ELSE gacha.pickup_memorias
OtherPlaces(rate, pickups) == {i \in DOMAIN rate.cards : rate.cards[i].id \notin pickups}
MaxWished(gacha, type) ==
    CASE gacha.steps = <<>> -> gacha.select
      [] gacha.steps # <<>> /\ type = Character -> gacha.wish_counts[1]
      [] OTHER -> gacha.wish_counts[2]

\* Master data: a rate has a unit for each of its cards, none of them twice.
RateFits(rate) ==
    /\ rate.cards # <<>> /\ IsInjective(rate.cards)
    /\ Len(rate.cards) <= rate.units

\* Master data: all pickups have a card, and the heaviest list leaves a unit for
\* every other card of the rate, of which there is one.
PickupsFit(gacha, rate) ==
    LET type == rate.cards[1].type
        pickups == Pickups(gacha, type)
        others == OtherPlaces(rate, pickups)
    IN gacha.select # 0 /\ rate.cards[1].rarity = 3 =>
         /\ \A id \in pickups : \E c \in Cards : c.type = type /\ c.id = id
         /\ others # {}
         /\ \A chosen \in SUBSET pickups :
              Cardinality(chosen) <= MaxWished(gacha, type) =>
                Cardinality(chosen) * Selected + Cardinality(pickups \ chosen) * Unselected
                  + Cardinality(others) <= rate.units

ASSUME GachaAssumption ==
    /\ GachaIds \subseteq Nat \ {0} /\ ButtonIds \subseteq Nat \ {0}
    /\ IsFiniteSet(GachaIds) /\ IsFiniteSet(ButtonIds)
    /\ IsFiniteSet(Cards)
    /\ OwnedAtStart \subseteq Nat /\ IsFiniteSet(OwnedAtStart)
    /\ InitialWallet \in [free: Nat, paid: Nat]
    /\ Selected \in Nat /\ Unselected \in Nat /\ Units \in Nat
    /\ MaxTalkClears \in Nat /\ MaxGachaTime \in Nat
    /\ WishLists \subseteq [gacha: Nat, characters: Seq(Nat), memorias: Seq(Nat), skins: Seq(Nat)]

ASSUME GachaTableAssumption ==
    /\ \A g \in GachaIds :
         /\ GachaOf[g].buttons \subseteq ButtonIds
         /\ GachaOf[g].steps \in Seq(ButtonIds)
         /\ \A i \in DOMAIN GachaOf[g].steps : ButtonOf[GachaOf[g].steps[i]].rates \in DOMAIN RatesOf
         /\ GachaOf[g].loops \in Nat
         /\ GachaOf[g].rates \in DOMAIN RatesOf
         /\ GachaOf[g].select \in Nat /\ GachaOf[g].wish_counts \in [1..3 -> Nat]
         /\ IsFiniteSet(GachaOf[g].pickup_characters)
         /\ IsFiniteSet(GachaOf[g].pickup_memorias)
         /\ GachaOf[g].duplicates \in Seq(Bonus)
         /\ \A i \in DOMAIN RatesOf[GachaOf[g].rates] :
              PickupsFit(GachaOf[g], RatesOf[GachaOf[g].rates][i])
    /\ \A b \in ButtonIds :
         /\ ButtonOf[b].cost \in GachaCost
         /\ ButtonOf[b].draws \in Nat /\ ButtonOf[b].medals \in Nat
         /\ ButtonOf[b].duplicates \in Seq(Bonus)
    \* Master data: the rates of a set share out all the units.
    /\ \A s \in DOMAIN RatesOf :
         /\ RatesOf[s] \in Seq(Rate)
         /\ \A i \in DOMAIN RatesOf[s] : RateFits(RatesOf[s][i])
         /\ SumFunction([i \in DOMAIN RatesOf[s] |-> RatesOf[s][i].units]) = Units

VARIABLES
    talkClears,     \* quest_states: clear_count of the last prologue talk
    tutorial,   \* status: tutorial_step
    wallet,     \* wallet: free and paid gems
    items, pieces, characters, memorias, skins,
    index,      \* the table characters
    counts,     \* the table gacha_button_states: execution_count
    wishes,     \* the table gacha_wish_lists
    gachaTime,
    tasks,      \* total_task_counts: characters 85, draws 137, memorias 139, stones 294
    drawn,      \* history: cards drawn, how often
    played      \* history: steps executed, per gacha

gachaVars == <<talkClears, tutorial, wallet, items, pieces, characters, memorias, skins,
               index, counts, wishes, gachaTime, tasks, drawn, played>>

WishList == [gacha: GachaIds, characters: Seq(Nat), memorias: Seq(Nat), skins: Seq(Nat)]

GachaTypeOK ==
    /\ talkClears \in 0..MaxTalkClears
    /\ tutorial \in {MemoriaEquipped, GachaComplete}
    /\ wallet \in [free: Nat, paid: Nat]
    /\ items \in [ItemIds -> Nat]
    /\ pieces \in [CharacterIds -> Nat]
    /\ characters \in Seq(CharacterIds)
    /\ memorias \in Seq([entity: Nat \ {0}, id: MemoriaKinds])
    /\ skins \subseteq Nat
    /\ index \subseteq CharacterIds
    /\ counts \in [GachaIds \X (ButtonIds \union {StepUp}) -> Nat]
    /\ \A g \in GachaIds : wishes[g] = NoWishList \/ wishes[g] \in WishList
    /\ gachaTime \in 0..MaxGachaTime
    /\ tasks \in [characters: Nat, draws: Nat, memorias: 0..1, stones: Nat]

GachaInit ==
    /\ talkClears = 0
    /\ tutorial = MemoriaEquipped
    /\ wallet = InitialWallet
    /\ items = [i \in ItemIds |-> 0]
    /\ pieces = [c \in CharacterIds |-> 0]
    /\ characters = SetToSeq(OwnedAtStart)
    /\ memorias = <<>>
    /\ skins = {}
    /\ index = OwnedAtStart
    /\ counts = [k \in GachaIds \X (ButtonIds \union {StepUp}) |-> 0]
    /\ wishes = [g \in GachaIds |-> NoWishList]
    /\ gachaTime = 0
    /\ tasks = [characters |-> 0, draws |-> 0, memorias |-> 0, stones |-> 0]
    /\ drawn = [c \in Cards |-> 0]
    /\ played = [g \in GachaIds |-> <<>>]

-----------------------------------------------------------------------------
(* Paying *)

\* Gems of type 1 are taken from the free ones first.
CanPay(cost) ==
    \/ cost.quantity = 0
    \/ cost.type = FreeGems /\ wallet.free + wallet.paid >= cost.quantity
    \/ cost.type = PaidGems /\ wallet.paid >= cost.quantity
    \/ cost.type = Item /\ items[cost.id] >= cost.quantity

\* Mutant of PaidWallet: all of the price is taken from the free gems.
PaidFromFree(cost) ==
    IF cost.type = Item THEN wallet ELSE [wallet EXCEPT !.free = @ - cost.quantity]

PaidWallet(cost) ==
    LET from_free == Min({wallet.free, cost.quantity}) IN
    CASE cost.type = FreeGems -> [free |-> wallet.free - from_free,
                                  paid |-> wallet.paid - (cost.quantity - from_free)]
      [] cost.type = PaidGems -> [wallet EXCEPT !.paid = @ - cost.quantity]
      [] OTHER -> wallet

PaidItems(cost) ==
    IF cost.type = Item /\ cost.quantity > 0
    THEN [items EXCEPT ![cost.id] = @ - cost.quantity] ELSE items

-----------------------------------------------------------------------------
(* Wish lists and weights *)

validate_wish_list(g, w) ==
    LET gacha == GachaOf[g] IN
    /\ w # NoWishList
    /\ w.gacha = g
    /\ IF gacha.steps = <<>>
       THEN Len(w.characters) + Len(w.memorias) + Len(w.skins) = gacha.select
       ELSE <<Len(w.characters), Len(w.memorias), Len(w.skins)>> = gacha.wish_counts
    /\ Range(w.characters) \subseteq gacha.pickup_characters
    /\ Range(w.memorias) \subseteq gacha.pickup_memorias
    /\ w.skins = <<>>
    /\ IsInjective(w.characters) /\ IsInjective(w.memorias)

\* Mutant of distribute_cards: the remainder goes to nobody.
DistributeNoRemainder(cards, at, units) ==
    IF at = {} \/ units < Cardinality(at) THEN {}
    ELSE {[card |-> cards[i], place |-> i, weight |-> units \div Cardinality(at)] : i \in at}

\* The units shared out evenly over the cards at some places, the remainder over
\* the first of them; empty for an error.
distribute_cards(cards, at, units) ==
    LET n == Cardinality(at)
        before(i) == Cardinality({j \in at : j < i})
        share(i) == units \div n + (IF before(i) < units % n THEN 1 ELSE 0)
    IN IF at = {} \/ units < n THEN {}
       ELSE {[card |-> cards[i], place |-> i, weight |-> share(i)] : i \in at}

Weight(weighted) == SumFunction([e \in weighted |-> e.weight])

\* The pickups of a rate at their fixed weights, the other cards sharing what
\* is left.
WithPickups(rate, pickups, chosen) ==
    LET type == rate.cards[1].type
        card(id) == CHOOSE c \in Cards : c.type = type /\ c.id = id
        fixed == {[card |-> card(id), place |-> 0,
                   weight |-> IF id \in chosen THEN Selected ELSE Unselected] : id \in pickups}
        rest == distribute_cards(rate.cards, OtherPlaces(rate, pickups),
                                 rate.units - Weight(fixed))
    IN IF rest = {} THEN {} ELSE fixed \union rest

RateCards(g, rate, w) ==
    LET gacha == GachaOf[g]
        first == rate.cards[1]
        chosen == IF first.type = Character THEN Range(w.characters) ELSE Range(w.memorias)
    IN IF gacha.select = 0 \/ first.rarity # 3
       THEN distribute_cards(rate.cards, DOMAIN rate.cards, rate.units)
       ELSE IF validate_wish_list(g, w)
       THEN WithPickups(rate, Pickups(gacha, first.type), chosen) ELSE {}

weighted_gacha_cards(g, rate_set, w) ==
    LET rates == RatesOf[rate_set]
        cards(i) == RateCards(g, rates[i], w)
    IN IF \/ \E i \in DOMAIN rates : cards(i) = {}
          \/ SumFunction([i \in DOMAIN rates |-> Weight(cards(i))]) # Units
       THEN {} ELSE UNION {cards(i) : i \in DOMAIN rates}

\* A step that draws from the wish list: the chosen cards of its rate set.
WishedCards(b, w) ==
    LET chosen(c) == CASE c.type = Character -> c.id \in Range(w.characters)
                       [] c.type = Memoria -> c.id \in Range(w.memorias)
                       [] c.type = Skin -> c.id \in Range(w.skins)
                       [] OTHER -> FALSE
        all == UNION {Range(rate.cards) : rate \in Range(RatesOf[ButtonOf[b].rates])}
        wished == {c \in all : chosen(c)}
    IN distribute_cards(SetToSeq(wished), 1..Cardinality(wished), Units)

\* What an execution draws from; empty when it is refused.
DrawnFrom(g, b, step_up) ==
    LET w == wishes[g] IN
    IF ~step_up THEN weighted_gacha_cards(g, GachaOf[g].rates, w)
    ELSE IF ~ButtonOf[b].wish_list
    THEN weighted_gacha_cards(g, ButtonOf[b].rates, NoWishList)
    ELSE IF validate_wish_list(g, w) THEN WishedCards(b, w) ELSE {}

select_weighted_card(weighted) == {e.card : e \in {x \in weighted : x.weight > 0}}

-----------------------------------------------------------------------------
(* Drawing *)

\* The first bonus for a character, or that of its rarity.
gacha_duplicate_counts(g, c) ==
    LET bonuses == GachaOf[g].duplicates
        fitting == {i \in DOMAIN bonuses : c.id \in bonuses[i].characters}
        n == IF c.rarity = 1 THEN 1 ELSE IF c.rarity = 2 THEN 10 ELSE 50
    IN IF fitting # {} THEN bonuses[Min(fitting)]
       ELSE [characters |-> {}, pieces |-> n, stones |-> n]

\* What a copy of a character the account has pays: the bonus of the button,
\* or that of the gacha.
DuplicateCounts(g, b, c) ==
    LET bonuses == ButtonOf[b].duplicates
        fitting == {i \in DOMAIN bonuses :
                      bonuses[i].characters = {} \/ c.id \in bonuses[i].characters}
    IN IF fitting # {} THEN bonuses[Min(fitting)] ELSE gacha_duplicate_counts(g, c)

next_memoria_id(ms) == Max({0} \union {m.entity : m \in Range(ms)}) + 1

\* Mutant of Drawn: what is a duplicate is decided by what the account had
\* before the execution.
DrawnAsBefore(g, b, have, c) ==
    IF c.type = Character /\ c.id \in Range(characters)
    THEN [have EXCEPT !.pieces[c.id] = @ + DuplicateCounts(g, b, c).pieces,
                      !.items[Stone] = @ + DuplicateCounts(g, b, c).stones]
    ELSE IF c.type = Character
    THEN [have EXCEPT !.characters = Append(@, c.id), !.new = @ \union {c.id}]
    ELSE have

\* What the account has after one more card.
Drawn(g, b, have, c) ==
    CASE c.type = Character /\ c.id \in Range(have.characters) ->
            [have EXCEPT !.pieces[c.id] = @ + DuplicateCounts(g, b, c).pieces,
                         !.items[Stone] = @ + DuplicateCounts(g, b, c).stones]
      [] c.type = Character /\ c.id \notin Range(have.characters) ->
            [have EXCEPT !.characters = Append(@, c.id),
                         !.new = @ \union {c.id},
                         !.skins = @ \union ({c.skin} \ {0})]
      [] c.type = Memoria ->
            [have EXCEPT !.memorias = Append(@, [entity |-> next_memoria_id(@), id |-> c.id])]
      [] c.type = Item ->
            [have EXCEPT !.items[c.id] = @ + 1]
      [] c.type = Skin /\ c.id \notin have.skins ->
            [have EXCEPT !.skins = @ \union {c.id}]
      [] c.type = Skin /\ c.id \in have.skins ->
            [have EXCEPT !.items[Stone] = @ + c.duplicate]

\* What it has after the cards of an execution, one after the other.
DrawnAll(g, b, have, cards) == FoldLeft(LAMBDA acc, c : Drawn(g, b, acc, c), have, cards)

GachaInPeriod(g) == GachaOf[g].start <= gachaTime /\ gachaTime < GachaOf[g].end

\* Mutant of StepAllowed: any step of the gacha, in any order.
StepInAnyOrder(g, b) ==
    /\ counts[<<g, StepUp>>] < Len(GachaOf[g].steps) * GachaOf[g].loops
    /\ b \in Range(GachaOf[g].steps)

\* The steps of a gacha come one after the other, several times over.
StepAllowed(g, b) ==
    LET steps == GachaOf[g].steps IN
    /\ steps # <<>> /\ GachaOf[g].loops > 0
    /\ counts[<<g, StepUp>>] < Len(steps) * GachaOf[g].loops
    /\ steps[(counts[<<g, StepUp>>] % Len(steps)) + 1] = b

\* The requests reduce_gacha_execute goes through with.
Executable(g, b, step_up) ==
    LET count == counts[<<g, IF step_up THEN StepUp ELSE b>>] IN
    /\ ButtonOf[b].limit > 0 => count < ButtonOf[b].limit
    /\ talkClears = 1
    /\ IF g = TutorialGacha THEN tutorial = MemoriaEquipped ELSE tutorial >= GachaComplete
    /\ IF step_up THEN StepAllowed(g, b) ELSE b \in GachaOf[g].buttons
    /\ GachaInPeriod(g)
    /\ CanPay(ButtonOf[b].cost)
    /\ DrawnFrom(g, b, step_up) # {}

\* gacha_execute with a sequence of drawn cards, all after the payment.
reduce_gacha_execute(g, b, step_up, cards) ==
    LET have == [characters |-> characters, pieces |-> pieces, memorias |-> memorias,
                 items |-> PaidItems(ButtonOf[b].cost), skins |-> skins, new |-> {}]
        got == DrawnAll(g, b, have, cards)
        key == <<g, IF step_up THEN StepUp ELSE b>>
        medals == ButtonOf[b].medals
        drew(type) == \E c \in Range(cards) : c.type = type
        duplicates == got.pieces # pieces
    IN
    /\ wallet' = PaidWallet(ButtonOf[b].cost)
    /\ characters' = got.characters /\ pieces' = got.pieces
    /\ memorias' = got.memorias /\ skins' = got.skins
    /\ items' = IF medals > 0 THEN [got.items EXCEPT ![GachaOf[g].medal] = @ + medals]
                ELSE got.items
    /\ index' = index \union got.new
    /\ tutorial' = IF g = TutorialGacha THEN GachaComplete ELSE tutorial
    /\ counts' = [counts EXCEPT ![key] = @ + 1]
    /\ tasks' = [characters |-> IF drew(Character) THEN Len(got.characters)
                                ELSE tasks.characters,
                 draws |-> tasks.draws + ButtonOf[b].draws,
                 memorias |-> IF drew(Memoria) THEN Max({tasks.memorias, 1})
                              ELSE tasks.memorias,
                 stones |-> IF duplicates THEN items'[Stone] ELSE tasks.stones]
    /\ drawn' = [c \in Cards |-> drawn[c] + Cardinality({i \in DOMAIN cards : cards[i] = c})]
    /\ played' = IF step_up THEN [played EXCEPT ![g] = Append(@, b)] ELSE played
    /\ UNCHANGED <<talkClears, wishes, gachaTime>>

gacha_execute(g, b) ==
    /\ Executable(g, b, FALSE)
    /\ \E cards \in [1..ButtonOf[b].draws -> select_weighted_card(DrawnFrom(g, b, FALSE))] :
         reduce_gacha_execute(g, b, FALSE, cards)

gacha_step_up_execute(g, b) ==
    /\ Executable(g, b, TRUE)
    /\ \E cards \in [1..ButtonOf[b].draws -> select_weighted_card(DrawnFrom(g, b, TRUE))] :
         reduce_gacha_execute(g, b, TRUE, cards)

\* Neither the clear count nor the tutorial step is looked at.
gacha_wish_list_set(g, w) ==
    /\ validate_wish_list(g, w)
    /\ wishes' = [wishes EXCEPT ![g] = w]
    /\ UNCHANGED <<talkClears, tutorial, wallet, items, pieces, characters, memorias, skins,
                   index, counts, gachaTime, tasks, drawn, played>>

\* Mutant of reduce_gacha_list: it asks for one clear, as an execution does.
ListAfterOneClear(shown) == talkClears = 1 /\ tutorial >= MemoriaEquipped

\* reduce_gacha_list answers: it fails as a whole when a stored list of a
\* gacha it shows is not valid.
reduce_gacha_list(shown) ==
    /\ talkClears # 0 /\ tutorial >= MemoriaEquipped
    /\ \A g \in shown :
         /\ GachaOf[g].steps # <<>> \/ GachaOf[g].select # 0
         /\ wishes[g] # NoWishList
         => validate_wish_list(g, wishes[g])

Listed == {g \in GachaIds : GachaInPeriod(g)}

\* The last talk of the prologue: its first clear and, by finish_talk, every
\* further one.
talk_event_finish ==
    /\ talkClears < MaxTalkClears
    /\ talkClears' = talkClears + 1
    /\ UNCHANGED <<tutorial, wallet, items, pieces, characters, memorias, skins,
                   index, counts, wishes, gachaTime, tasks, drawn, played>>

GachaTick ==
    /\ gachaTime < MaxGachaTime
    /\ gachaTime' = gachaTime + 1
    /\ UNCHANGED <<talkClears, tutorial, wallet, items, pieces, characters, memorias, skins,
                   index, counts, wishes, tasks, drawn, played>>

GachaNext ==
    \/ \E g \in GachaIds, b \in ButtonIds : gacha_execute(g, b)
    \/ \E g \in GachaIds, b \in ButtonIds : gacha_step_up_execute(g, b)
    \/ \E g \in GachaIds, w \in WishLists : gacha_wish_list_set(g, w)
    \/ talk_event_finish
    \/ GachaTick

GachaSpec == GachaInit /\ [][GachaNext]_gachaVars

-----------------------------------------------------------------------------
(* Properties *)

CardsOf ==
    [x \in {Character, Memoria} \X (CharacterIds \union MemoriaKinds) |->
        {c \in Cards : <<c.type, c.id>> = x}]
Copies(type, id) == SumFunctionOnSet(drawn, CardsOf[<<type, id>>])

\* Every card drawn is accounted for, also when an execution draws a card it
\* drew before: a character is listed and indexed once and each further copy
\* paid pieces, every copy of a memoria has an entity id of its own, and the
\* draws the missions look at are the cards drawn.
EveryCopyCounts ==
    /\ IsInjective(characters) /\ index = Range(characters)
    /\ \A c \in CharacterIds :
         LET again == Copies(Character, c) - (IF c \in OwnedAtStart THEN 0 ELSE 1) IN
         /\ c \in Range(characters) <=> c \in OwnedAtStart \/ Copies(Character, c) > 0
         /\ again > 0 => pieces[c] >= again
         /\ again <= 0 => pieces[c] = 0
    /\ IsInjective([i \in DOMAIN memorias |-> memorias[i].entity])
    /\ \A m \in MemoriaKinds :
         Cardinality({i \in DOMAIN memorias : memorias[i].id = m}) = Copies(Memoria, m)
    /\ tasks.draws = SumFunction(drawn)

\* The steps of a step-up gacha are executed in their order, round after round
\* and no more rounds than it has, whatever else is executed in between: the
\* price of a later step is only ever paid after the earlier ones.
StepsInOrder ==
    \A g \in GachaIds :
        LET steps == GachaOf[g].steps IN
        /\ Len(played[g]) <= Len(steps) * GachaOf[g].loops
        /\ \A i \in DOMAIN played[g] : played[g][i] = steps[((i - 1) % Len(steps)) + 1]

\* A wish list moves the odds between the cards of one rate and never between
\* rates: with any list that could be stored, every rate keeps its units, none
\* is lost to rounding, and no draw ends without a card.
SharesKept ==
    \A g \in GachaIds : \A i \in DOMAIN RatesOf[GachaOf[g].rates] :
        LET rate == RatesOf[GachaOf[g].rates][i]
            weighted == RateCards(g, rate, wishes[g])
        IN GachaOf[g].select = 0 \/ wishes[g] # NoWishList =>
             /\ Weight(weighted) = rate.units
             /\ \A e \in weighted, f \in weighted : e.card = f.card => e = f

\* Once the gachas can be listed no request takes that away: not a replay of
\* the talk that opened them, not an execution, not a wish list.
ListStaysAvailable ==
    [][reduce_gacha_list(GachaIds) => reduce_gacha_list(GachaIds)']_gachaVars

\* The tutorial's gacha, while it is listed to an account that has not drawn
\* from it, can be drawn from.
ListedIsPlayable ==
    reduce_gacha_list(Listed) /\ TutorialGacha \in Listed /\ tutorial = MemoriaEquipped =>
        \E b \in GachaOf[TutorialGacha].buttons : Executable(TutorialGacha, b, FALSE)

(* A draw keeps every count: of copies, of steps and of chances.           *)
DrawsKeepCount == EveryCopyCounts /\ StepsInOrder /\ SharesKept
=============================================================================
